-------------------------------- MODULE Lab_proofs -----------------------------
(***************************************************************************)
(* Programs of LAB, each for every value of its constants: the bank (one   *)
(* child at a time in the critical section, no money lost, nothing         *)
(* overdrawn), the copies of files (complete and in the right place), the  *)
(* sorting and the figures of a list (right), and the shell (executes what *)
(* was typed, and what it does where nothing was).                         *)
(***************************************************************************)
EXTENDS Bank, CopyPrograms, ListFigures, Commands, TLAPS, FiniteSetTheorems,
        SequenceTheorems, WellFoundedInduction

-------------------------------------------------------------------------------
(* The bank.                                                               *)

(* What a child in the critical section holds in its local variables is    *)
(* still what the files say: nobody else may write them.                   *)
LocalsFresh ==
  /\ \A c \in Children : pc[c] = "writeBalance" => bal2[c] = balance
  /\ \A s \in Sons :
       /\ pc[s] = "writeBalance" => bal2[s] # 0
       /\ pc[s] \in {"readBalance", "writeBalance", "writeAttempt"} =>
            N_Att[s] = attempt /\ attempt # 0

(* Every sum the program handles is a multiple of 20.                      *)
WholeNotes == \E k \in Nat : balance = 20 * k

(* Dad goes round N times, and not yet when he is not born.                *)
DadsTurn == /\ pc["dad"] \notin {"unborn", "exited"} => i <= N
            /\ pc["dad"] = "unborn" => i = 1

(* The parent forks the children in order, each once.                      *)
InOrder ==
  /\ parent = "forkDad" => \A c \in Children : pc[c] = "unborn"
  /\ parent = "forkSon1" => \A s \in Sons : pc[s] = "unborn"
  /\ parent = "forkSon2" => pc["son2"] = "unborn"

IInv == /\ TypeOK /\ MutualExclusion /\ LocalsFresh /\ NoMoneyLost /\ WholeNotes
        /\ DadsTurn /\ InOrder

(* Only the child in the critical section matters: the others hold nothing.*)
LEMMA OneInside ==
  ASSUME TypeOK, MutualExclusion, NEW c \in CriticalSection
  PROVE  /\ c \in Children /\ sem = 0
         /\ \A d \in Children \ {c} : pc[d] \in {"unborn", "P", "exited"}
BY DEF TypeOK, MutualExclusion, CriticalSection

(* A child moves on inside the critical section.                           *)
LEMMA StaysInside ==
  ASSUME TypeOK, MutualExclusion, NEW c \in CriticalSection,
         NEW l \in Locations \ {"unborn", "P", "exited"},
         MoveTo(c, l), sem' = sem
  PROVE  MutualExclusion'
<1>1. /\ c \in Children /\ pc \in [Children -> Locations]
      /\ pc' = [pc EXCEPT ![c] = l]
  BY DEF TypeOK, CriticalSection, MoveTo
<1>2. CriticalSection' = CriticalSection
  BY <1>1 DEF CriticalSection
<1> QED BY <1>2 DEF MutualExclusion

LEMMA PStep ==
  ASSUME IInv, NEW c \in Children, P(c)
  PROVE  IInv'
<1>1. /\ TypeOK /\ pc[c] = "P" /\ sem = 1 /\ sem' = 0
      /\ pc' = [pc EXCEPT ![c] = "counters"]
      /\ UNCHANGED <<balance, attempt, counter, bal2, N_Att, flag, i, parent,
                     reaped, printed>>
  BY DEF IInv, TypeOK, P, files, locals, parental, MoveTo
<1>2. CriticalSection = {} /\ CriticalSection' = {c}
  BY <1>1 DEF IInv, MutualExclusion, CriticalSection, TypeOK
<1>3. MutualExclusion'
  BY <1>1, <1>2 DEF MutualExclusion
<1>4. TypeOK'
  BY <1>1 DEF TypeOK, Locations
<1>5. /\ pc'[c] = "counters"
      /\ \A d \in Children \ {c} : pc'[d] = pc[d]
  BY <1>1 DEF TypeOK
<1>6. LocalsFresh'
  BY <1>1, <1>5 DEF IInv, LocalsFresh, Sons, Children
<1>7. NoMoneyLost' /\ WholeNotes' /\ DadsTurn' /\ InOrder'
  BY <1>1, <1>5 DEF IInv, NoMoneyLost, Deposited, Withdrawn, WholeNotes, DadsTurn,
                    InOrder, Sons, Children
<1> QED BY <1>3, <1>4, <1>6, <1>7 DEF IInv

LEMMA InsideStep ==
  ASSUME IInv, NEW c \in Children, Inside(c)
  PROVE  IInv'
<1>1. c \in CriticalSection
  BY DEF Inside, UpdateCounters, ReadBalance, WriteBalance, V, ReadAttempt,
         WriteAttempt, CriticalSection
<1>2. /\ TypeOK /\ MutualExclusion /\ sem = 0 /\ pc \in [Children -> Locations]
      /\ \A d \in Children \ {c} : pc[d] \in {"unborn", "P", "exited"}
  BY <1>1, OneInside DEF IInv, TypeOK
<1>3. UNCHANGED parental
  BY DEF Inside, UpdateCounters, ReadBalance, WriteBalance, V, ReadAttempt,
         WriteAttempt
<1>4. InOrder'
  <2>1. /\ pc[c] # "unborn" /\ parent' = parent
        /\ \A d \in Children \ {c} : pc'[d] = pc[d]
    BY <1>2, <1>3 DEF parental, Inside, UpdateCounters, ReadBalance,
         WriteBalance, V, ReadAttempt, WriteAttempt, MoveTo, TypeOK
  <2> QED BY <2>1 DEF IInv, InOrder, Sons, Children
<1>5. CASE UpdateCounters(c)
  <2>1. PICK l \in {"readBalance", "readAttempt"} :
          /\ pc' = [pc EXCEPT ![c] = l]
          /\ c = "dad" <=> l = "readBalance"
    BY <1>5 DEF UpdateCounters, MoveTo
  <2>2. /\ pc[c] = "counters" /\ pc'[c] = l
        /\ \A d \in Children \ {c} : pc'[d] = pc[d]
        /\ UNCHANGED <<sem, balance, attempt, bal2, N_Att, flag, i, parent,
                       reaped, printed>>
    BY <2>1, <1>2, <1>5 DEF UpdateCounters, locals, parental
  <2>3. MutualExclusion'
    BY <1>1, <1>2, <2>1, <2>2, StaysInside DEF MoveTo, Locations
  <2>4. counter' \in [Children -> Nat]
    BY <1>2, <1>5, MaxCounterAssumption DEF UpdateCounters, CountUp, TypeOK
  <2>5. TypeOK'
    <3>1. pc' \in [Children -> Locations]
      BY <1>2, <2>1 DEF Locations
    <3>2. pc'["dad"] \notin {"readAttempt", "writeAttempt"}
      BY <1>2, <2>1, <2>2 DEF TypeOK, Children
    <3> QED BY <1>2, <2>2, <2>4, <3>1, <3>2 DEF TypeOK
  <2>6. LocalsFresh'
    BY <1>2, <2>1, <2>2 DEF IInv, LocalsFresh, Sons, Children
  <2>7. NoMoneyLost' /\ WholeNotes' /\ DadsTurn'
    BY <1>2, <2>1, <2>2 DEF IInv, NoMoneyLost, Deposited, Withdrawn, WholeNotes,
                            DadsTurn, Sons, Children
  <2> QED BY <1>4, <2>3, <2>5, <2>6, <2>7 DEF IInv
<1>6. CASE c \in Sons /\ ReadAttempt(c)
  <2>1. PICK l \in {"V", "readBalance"} :
          /\ pc' = [pc EXCEPT ![c] = l]
          /\ l = "readBalance" => attempt # 0
    BY <1>6 DEF ReadAttempt, MoveTo, NothingLeft
  <2>2. /\ pc[c] = "readAttempt" /\ pc'[c] = l /\ c # "dad"
        /\ \A d \in Children \ {c} : pc'[d] = pc[d]
        /\ UNCHANGED <<sem, balance, attempt, counter, bal2, i, parent,
                       reaped, printed>>
        /\ N_Att' = [N_Att EXCEPT ![c] = attempt]
        /\ flag' \in [Sons -> BOOLEAN]
    BY <2>1, <1>2, <1>6 DEF ReadAttempt, files, parental, Sons, TypeOK
  <2>3. MutualExclusion'
    BY <1>1, <1>2, <2>1, <2>2, StaysInside DEF MoveTo, Locations
  <2>4. TypeOK'
    BY <1>2, <1>6, <2>1, <2>2 DEF TypeOK, Locations
  <2>5. LocalsFresh'
    BY <1>2, <1>6, <2>1, <2>2 DEF IInv, LocalsFresh, Sons, Children, TypeOK
  <2>6. NoMoneyLost' /\ WholeNotes' /\ DadsTurn'
    BY <1>2, <2>1, <2>2 DEF IInv, NoMoneyLost, Deposited, Withdrawn, WholeNotes,
                            DadsTurn, Sons, Children
  <2> QED BY <1>4, <2>3, <2>4, <2>5, <2>6 DEF IInv
<1>7. CASE ReadBalance(c)
  <2>1. PICK l \in {"V", "writeBalance"} :
          /\ pc' = [pc EXCEPT ![c] = l]
          /\ c = "dad" => l = "writeBalance"
          /\ c \in Sons /\ l = "writeBalance" => balance # 0
    BY <1>7 DEF ReadBalance, MoveTo, NoMoney, Sons
  <2>2. /\ pc[c] = "readBalance" /\ pc'[c] = l
        /\ \A d \in Children \ {c} : pc'[d] = pc[d]
        /\ UNCHANGED <<sem, balance, attempt, counter, N_Att, flag, i, parent,
                       reaped, printed>>
        /\ bal2' = [bal2 EXCEPT ![c] = balance]
    BY <2>1, <1>2, <1>7 DEF ReadBalance, files, parental
  <2>3. MutualExclusion'
    BY <1>1, <1>2, <2>1, <2>2, StaysInside DEF MoveTo, Locations
  <2>4. TypeOK'
    BY <1>2, <2>1, <2>2 DEF TypeOK, Locations
  <2>5. LocalsFresh'
    BY <1>2, <2>1, <2>2 DEF IInv, LocalsFresh, Sons, Children, TypeOK
  <2>6. NoMoneyLost' /\ WholeNotes' /\ DadsTurn'
    BY <1>2, <2>1, <2>2 DEF IInv, NoMoneyLost, Deposited, Withdrawn, WholeNotes,
                            DadsTurn, Sons, Children
  <2> QED BY <1>4, <2>3, <2>4, <2>5, <2>6 DEF IInv
<1>8. CASE WriteBalance(c)
  <2>1. PICK l \in {"V", "writeAttempt"} :
          /\ pc' = [pc EXCEPT ![c] = l]
          /\ c = "dad" <=> l = "V"
    BY <1>8 DEF WriteBalance, MoveTo
  <2>2. /\ pc[c] = "writeBalance" /\ pc'[c] = l /\ bal2[c] = balance
        /\ \A d \in Children \ {c} : pc'[d] = pc[d]
        /\ UNCHANGED <<sem, attempt, counter, bal2, N_Att, flag, i, parent,
                       reaped, printed>>
        /\ balance' = IF c = "dad" THEN balance + 60 ELSE balance - 20
    BY <2>1, <1>2, <1>8 DEF WriteBalance, locals, parental, IInv, LocalsFresh
  <2>3. MutualExclusion'
    BY <1>1, <1>2, <2>1, <2>2, StaysInside DEF MoveTo, Locations
  <2>4. balance' \in Int
    BY <1>2, <2>2 DEF TypeOK
  <2>5. TypeOK'
    BY <1>2, <2>1, <2>2, <2>4 DEF TypeOK, Locations
  <2>6. LocalsFresh'
    BY <1>2, <2>1, <2>2 DEF IInv, LocalsFresh, Sons, Children, TypeOK
  <2>7. NoMoneyLost'
    BY <1>2, <2>1, <2>2, AttemptsAssumption
    DEF IInv, NoMoneyLost, Deposited, Withdrawn, Sons, Children, TypeOK
  <2>8. WholeNotes'
    <3>1. PICK k \in Nat : balance = 20 * k
      BY DEF IInv, WholeNotes
    <3>2. CASE c = "dad"
      <4>1. balance' = 20 * (k + 3) /\ k + 3 \in Nat
        BY <3>1, <3>2, <2>2
      <4> QED BY <4>1 DEF WholeNotes
    <3>3. CASE c # "dad"
      <4>1. c \in Sons /\ balance # 0
        BY <3>3, <2>2 DEF IInv, LocalsFresh, Sons, Children
      <4>2. k # 0
        BY <3>1, <4>1
      <4>3. balance' = 20 * (k - 1) /\ k - 1 \in Nat
        BY <3>1, <3>3, <4>2, <2>2
      <4> QED BY <4>3 DEF WholeNotes
    <3> QED BY <3>2, <3>3
  <2>9. DadsTurn'
    BY <1>2, <2>1, <2>2 DEF IInv, DadsTurn, Children
  <2> QED BY <1>4, <2>3, <2>5, <2>6, <2>7, <2>8, <2>9 DEF IInv
<1>9. CASE c \in Sons /\ WriteAttempt(c)
  <2>1. /\ pc[c] = "writeAttempt" /\ pc' = [pc EXCEPT ![c] = "V"]
        /\ pc'[c] = "V" /\ c # "dad" /\ N_Att[c] = attempt /\ attempt # 0
        /\ \A d \in Children \ {c} : pc'[d] = pc[d]
        /\ UNCHANGED <<sem, balance, counter, bal2, flag, i, parent,
                       reaped, printed>>
        /\ attempt' = attempt - 1
        /\ N_Att' = [N_Att EXCEPT ![c] = attempt - 1]
    BY <1>2, <1>9 DEF WriteAttempt, parental, MoveTo, OneLess, IInv,
                      LocalsFresh, Sons, TypeOK
  <2>2. MutualExclusion'
    BY <1>1, <1>2, <2>1, StaysInside DEF MoveTo, Locations
  <2>3. attempt' \in Nat
    BY <1>2, <2>1 DEF TypeOK
  <2>4. TypeOK'
    BY <1>2, <1>9, <2>1, <2>3 DEF TypeOK, Locations
  <2>5. LocalsFresh'
    BY <1>2, <2>1 DEF IInv, LocalsFresh, Sons, Children, TypeOK
  <2>6. NoMoneyLost'
    BY <1>2, <1>9, <2>1, AttemptsAssumption
    DEF IInv, NoMoneyLost, Deposited, Withdrawn, Sons, Children, TypeOK
  <2>7. WholeNotes' /\ DadsTurn'
    BY <1>2, <2>1 DEF IInv, WholeNotes, DadsTurn, Children
  <2> QED BY <1>4, <2>2, <2>4, <2>5, <2>6, <2>7 DEF IInv
<1>10. CASE V(c)
  <2>1. PICK l \in {"P", "exited"} :
          /\ pc' = [pc EXCEPT ![c] = l]
          /\ c = "dad" => (l = "P" <=> i + 1 <= N)
    BY <1>10 DEF V, MoveTo
  <2>2. /\ pc[c] = "V" /\ pc'[c] = l /\ sem' = 1
        /\ \A d \in Children \ {c} : pc'[d] = pc[d]
        /\ UNCHANGED <<balance, attempt, counter, bal2, N_Att, flag, parent,
                       reaped, printed>>
        /\ i' = IF c = "dad" THEN i + 1 ELSE i
    BY <2>1, <1>2, <1>10 DEF V, AfterV, files, parental
  <2>3. CriticalSection' = {}
    BY <1>2, <2>1, <2>2 DEF CriticalSection
  <2>4. MutualExclusion'
    BY <2>2, <2>3 DEF MutualExclusion
  <2>5. i' \in 1..(N + 1)
    BY <1>2, <2>2, NAssumption DEF IInv, DadsTurn, TypeOK
  <2>6. TypeOK'
    BY <1>2, <2>1, <2>2, <2>5 DEF TypeOK, Locations
  <2>7. LocalsFresh'
    BY <1>2, <2>1, <2>2 DEF IInv, LocalsFresh, Sons, Children
  <2>8. NoMoneyLost'
    BY <1>2, <2>1, <2>2, AttemptsAssumption, NAssumption
    DEF IInv, NoMoneyLost, Deposited, Withdrawn, Sons, Children, TypeOK
  <2>9. WholeNotes' /\ DadsTurn'
    BY <1>2, <2>1, <2>2 DEF IInv, WholeNotes, DadsTurn, Children
  <2> QED BY <1>4, <2>4, <2>6, <2>7, <2>8, <2>9 DEF IInv
<1> QED BY <1>5, <1>6, <1>7, <1>8, <1>9, <1>10 DEF Inside

LEMMA ForkStep ==
  ASSUME IInv, ForkChildren
  PROVE  IInv'
<1>1. PICK c \in Children, now \in {"forkDad", "forkSon1", "forkSon2"},
           next \in {"forkSon1", "forkSon2", "wait"} :
        /\ Fork(c, now, next) /\ pc[c] = "unborn"
        /\ <<c, now, next>> \in {<<"dad", "forkDad", "forkSon1">>,
                                  <<"son1", "forkSon1", "forkSon2">>,
                                  <<"son2", "forkSon2", "wait">>}
  BY DEF ForkChildren, IInv, InOrder, Children, Sons, Fork
<1>2. /\ TypeOK /\ parent = now
      /\ UNCHANGED <<sem, balance, attempt, counter, bal2, N_Att, flag, i,
                     reaped, printed>>
  BY <1>1 DEF Fork, IInv, files, locals
<1>3. CASE UNCHANGED pc /\ parent' = "exited"
  BY <1>2, <1>3 DEF IInv, TypeOK, MutualExclusion, CriticalSection,
       LocalsFresh, NoMoneyLost, Deposited, Withdrawn, WholeNotes, DadsTurn, InOrder
<1>4. CASE MoveTo(c, Begins(c)) /\ parent' = next
  <2>1. PICK l \in {"P", "exited"} :
          pc' = [pc EXCEPT ![c] = l] /\ (c = "dad" /\ l = "P" => N # 0)
    BY <1>4 DEF MoveTo, Begins
  <2>2. /\ pc[c] = "unborn" /\ pc'[c] = l
        /\ \A d \in Children \ {c} : pc'[d] = pc[d]
    BY <1>1, <1>2, <2>1 DEF TypeOK
  <2>3. TypeOK'
    BY <1>1, <1>2, <1>4, <2>1 DEF TypeOK, Locations
  <2>4. CriticalSection' = CriticalSection
    BY <2>1, <2>2 DEF CriticalSection
  <2>5. MutualExclusion'
    BY <1>2, <2>4 DEF IInv, MutualExclusion
  <2>6. LocalsFresh'
    BY <1>2, <2>1, <2>2 DEF IInv, LocalsFresh, Sons, Children
  <2>7. NoMoneyLost' /\ WholeNotes'
    BY <1>2, <2>1, <2>2 DEF IInv, NoMoneyLost, Deposited, Withdrawn, WholeNotes,
                            Sons, Children
  <2>8. DadsTurn'
    BY <1>2, <2>1, <2>2, NAssumption DEF IInv, DadsTurn, Children, TypeOK
  <2>9. InOrder'
    BY <1>1, <1>2, <1>4, <2>2 DEF IInv, InOrder, Sons, Children
  <2> QED BY <2>3, <2>5, <2>6, <2>7, <2>8, <2>9 DEF IInv
<1> QED BY <1>1, <1>3, <1>4 DEF Fork

(* Steps that leave the children and their files alone.                    *)
LEMMA QuietStep ==
  ASSUME IInv, UNCHANGED <<sem, files, pc, locals>>, TypeOK',
         parent' \in {parent, "wait", "exited"}
  PROVE  IInv'
BY DEF IInv, files, locals, MutualExclusion, CriticalSection, LocalsFresh,
       NoMoneyLost, Deposited, Withdrawn, WholeNotes, DadsTurn, InOrder

LEMMA WaitStep ==
  ASSUME IInv, Wait
  PROVE  IInv'
<1>1. TypeOK /\ reaped \in 0..3
  BY DEF IInv, TypeOK
<1>2. Cardinality(Exited) \in 0..3
  <2>1. Cardinality({"dad"}) = 1 /\ IsFiniteSet({"dad"})
    BY FS_Singleton
  <2>2. Cardinality({"dad", "son1"}) = 2 /\ IsFiniteSet({"dad", "son1"})
    <3>1. {"dad", "son1"} = {"dad"} \cup {"son1"} /\ "son1" \notin {"dad"}
      OBVIOUS
    <3> QED BY <2>1, <3>1, FS_AddElement
  <2>3. Cardinality(Children) = 3 /\ IsFiniteSet(Children)
    <3>1. /\ Children = {"dad", "son1"} \cup {"son2"}
          /\ "son2" \notin {"dad", "son1"}
      BY DEF Children, Sons
    <3> QED BY <2>2, <3>1, FS_AddElement
  <2>4. Exited \subseteq Children
    BY DEF Exited
  <2>5. /\ Cardinality(Exited) <= Cardinality(Children) /\ IsFiniteSet(Exited)
    BY <2>3, <2>4, FS_Subset
  <2>6. Cardinality(Exited) \in Nat
    BY <2>5, FS_CardinalityType
  <2> QED BY <2>3, <2>5, <2>6
<1>3. reaped' = reaped + 1 /\ reaped' \in 1..3
  BY <1>1, <1>2 DEF Wait
<1>4. Printed(reaped') \in Children
  BY <1>3 DEF Printed, Children, Sons
<1>5. printed' \in [Children -> Nat \cup {Nothing}]
  <2>1. counter[Printed(reaped')] \in Nat
    BY <1>1, <1>4 DEF TypeOK
  <2> QED BY <1>1, <2>1 DEF Wait, TypeOK
<1>6. /\ parent = "wait" /\ parent' \in {"wait", "exited"}
      /\ UNCHANGED <<sem, files, pc, locals>>
  BY DEF Wait
<1>7. TypeOK'
  BY <1>1, <1>3, <1>5, <1>6 DEF TypeOK, files, locals
<1> QED BY <1>6, <1>7, QuietStep

(* The invariant is inductive.                                             *)
LEMMA Invariance == Spec => []IInv
<1>1. Init => IInv
  <2> SUFFICES ASSUME Init PROVE IInv
    OBVIOUS
  <2>1. TypeOK
    BY NAssumption, AttemptsAssumption
    DEF Init, TypeOK, Locations, SemCreate, Nothing, Children, Sons
  <2>2. MutualExclusion
    BY DEF Init, MutualExclusion, CriticalSection, SemCreate
  <2>3. LocalsFresh
    BY DEF Init, LocalsFresh, Children, Sons
  <2>4. NoMoneyLost
    BY AttemptsAssumption
    DEF Init, NoMoneyLost, Deposited, Withdrawn, Children, Sons
  <2>5. WholeNotes
    <3>1. balance = 20 * 5
      BY DEF Init
    <3> QED BY <3>1 DEF WholeNotes
  <2>6. DadsTurn /\ InOrder
    BY DEF Init, DadsTurn, InOrder, Children, Sons
  <2> QED BY <2>1, <2>2, <2>3, <2>4, <2>5, <2>6 DEF IInv
<1>2. IInv /\ [Next]_vars => IInv'
  <2> SUFFICES ASSUME IInv, [Next]_vars PROVE IInv'
    OBVIOUS
  <2>1. CASE Parent
    BY <2>1, ForkStep, WaitStep DEF Parent
  <2>2. CASE \E c \in Children : P(c) \/ Inside(c)
    BY <2>2, PStep, InsideStep
  <2>3. CASE UNCHANGED vars
    <3>1. /\ UNCHANGED <<sem, files, pc, locals>> /\ parent' = parent
          /\ UNCHANGED <<reaped, printed>>
      BY <2>3 DEF vars, parental
    <3>2. TypeOK'
      BY <3>1 DEF IInv, TypeOK, files, locals
    <3> QED BY <3>1, <3>2, QuietStep
  <2> QED BY <2>1, <2>2, <2>3 DEF Next, Terminated
<1> QED BY <1>1, <1>2, PTL DEF Spec

(* For any number of deposits and attempts, one child at a time is between *)
(* P and V, and the semaphore is 0 exactly then. (bank.c:89-123, 143-195)  *)
THEOREM OneAtATime == Spec => []MutualExclusion
<1>1. IInv => MutualExclusion
  BY DEF IInv
<1> QED BY <1>1, Invariance, PTL

(* For any number of deposits and attempts, the balance is exactly what    *)
(* was there, was deposited and was withdrawn, and the sons overdraw       *)
(* nothing: every sum is a multiple of 20, so the test for exactly 0 is    *)
(* enough.  (bank.c:113-118, 174-191, 246-264)                             *)
THEOREM MoneyIsKept == Spec => []Ledger
<1>1. IInv => Ledger
  BY DEF IInv, WholeNotes, Ledger
<1> QED BY <1>1, Invariance, PTL


-------------------------------------------------------------------------------
(* The copies of files.                                                    *)

(* A quotient and its remainder.                                           *)
LEMMA Quotient ==
  ASSUME NEW b \in Nat, b > 0, NEW q \in Nat, NEW r \in 0..(b - 1)
  PROVE  (q * b + r) \div b = q /\ (q * b + r) % b = r
<1> DEFINE a == q * b + r
           d == a \div b
           m == a % b
<1>1. d \in Nat /\ m \in 0..(b - 1) /\ a = d * b + m
  OBVIOUS
<1>2. ASSUME d > q PROVE FALSE
  <2> HIDE DEF d, m
  <2>1. d * b >= (q + 1) * b
    BY <1>1, <1>2
  <2> QED BY <1>1, <2>1
<1>3. ASSUME d < q PROVE FALSE
  <2> HIDE DEF d, m
  <2>1. q * b >= (d + 1) * b
    BY <1>1, <1>3
  <2> QED BY <1>1, <2>1
<1> QED BY <1>1, <1>2, <1>3

-------------------------------------------------------------------------------
(* What a destination held at first, and what each of its bytes becomes.   *)
Contents == Seq(Characters)

Old(f) == IF before[f] = Copies!Absent THEN <<>> ELSE before[f]

Byte(f, k) == CASE program = "split" -> Copies!ShareByte(f, k)
                [] program = "cpXYZ" -> Copies!PieceByte(k)
                [] OTHER -> source[k]

(* A destination whose first w bytes have been written.                    *)
Larger(a, b) == IF a > b THEN a ELSE b

WrittenOver(f, w) ==
  [k \in 1..Larger(w, Len(Old(f))) |-> IF k <= w THEN Byte(f, k) ELSE Old(f)[k]]

CopyTypes ==
  /\ program \in Copies!Programs
  /\ source \in Contents \cup {Copies!Absent, Copies!Directory}
  /\ before \in [1..2 -> Contents \cup {Copies!Absent}]
  /\ file \in [1..2 -> Contents \cup {Copies!Absent}]
  /\ copier_parent \in {"none", "fork1", "fork2", "exited"}
  /\ child1 \in {"unborn", "create1", "create2", "exited"}
  /\ copier \in {"unborn", "open", "open2", "read", "mark", "done", "refused"}
  /\ position \in Nat /\ written \in [1..2 -> Nat] /\ reads \in {0, 1}

(* Who creates and who copies.                                             *)
FamilyOrder ==
  /\ program # "split" => copier_parent = "none" /\ child1 = "unborn"
                          /\ copier \notin {"unborn", "open2"}
  /\ copier_parent \in {"fork1", "fork2"} => copier = "unborn"

(* Until the loop nothing is written, in it all destinations are open.     *)
BeforeLoop ==
  copier \in {"unborn", "open", "open2", "refused"} =>
    /\ position = 0 /\ written = [f \in 1..2 |-> 0] /\ reads = 0
    /\ \A f \in 1..2 : Copies!Untouched(f)
    /\ copier = "open2" => source # Copies!Absent /\ file[1] # Copies!Absent
                           /\ program = "split"
    /\ program = "display" => file[1] = <<>>

InLoop ==
  copier \in {"read", "mark", "done"} =>
    /\ source # Copies!Absent
    /\ \A f \in Copies!Targets : file[f] # Copies!Absent
    /\ source # Copies!Directory =>
         \A f \in Copies!Targets : file[f] = WrittenOver(f, written[f])
    /\ source = Copies!Directory => 
         /\ copier = "read" /\ position = 0 /\ written = [f \in 1..2 |-> 0]

(* How far each program is when it reads, and at the end.                  *)
PlainProgress ==
  /\ copier = "read" => position \in 0..Len(source) /\ written[1] = position
  /\ copier = "done" => written[1] = Len(source)
  /\ copier # "mark"

PiecesProgress ==
  /\ copier = "read" =>
       \E q \in Nat : /\ position = q * BUFFER_SIZE_1 /\ position <= Len(source)
                      /\ written[1] = q * (BUFFER_SIZE_1 + 3)
  /\ copier = "mark" =>
       \E q \in Nat : \E r \in 1..(BUFFER_SIZE_1 - 1) :
         /\ Len(source) = q * BUFFER_SIZE_1 + r
         /\ written[1] = q * (BUFFER_SIZE_1 + 3) + r
  /\ copier = "done" => written[1] = Len(Copies!Pieces)

SharesProgress ==
  /\ copier = "read" =>
       \E q \in Nat : 
         /\ written[2] = q * BUFFER_SIZE_2
         /\ reads = 0 => /\ position = q * Copies!Round /\ position <= Len(source)
                         /\ written[1] = q * BUFFER_SIZE_1
         /\ reads = 1 =>
              \E r \in BUFFER_SIZE_2..BUFFER_SIZE_1 :
                /\ position = q * Copies!Round + r /\ position <= Len(source)
                /\ r < BUFFER_SIZE_1 => position = Len(source)
                /\ written[1] = q * BUFFER_SIZE_1 + r
  /\ copier = "done" => \A f \in 1..2 : written[f] = Copies!ShareOf(f)
  /\ copier # "mark"

Progress ==
  source \in Contents /\ source # Copies!Directory =>
    CASE program = "split" -> SharesProgress
      [] program = "cpXYZ" -> PiecesProgress
      [] OTHER -> PlainProgress

CopyInv == CopyTypes /\ FamilyOrder /\ BeforeLoop /\ InLoop /\ Progress

-------------------------------------------------------------------------------
(* Writing d over what is in s, from after its first w bytes.              *)
LEMMA Overwritten ==
  ASSUME NEW S, NEW s \in Seq(S), NEW d \in Seq(S), NEW w \in 0..Len(s)
  PROVE  LET r == Copies!Cut(s, 1, w) \o d \o SubSeq(s, w + Len(d) + 1, Len(s))
         IN  /\ r \in Seq(S)
             /\ Len(r) = Larger(w + Len(d), Len(s))
             /\ \A k \in 1..Len(r) :
                  r[k] = IF k <= w THEN s[k]
                         ELSE IF k <= w + Len(d) THEN d[k - w] ELSE s[k]
<1> DEFINE a == SubSeq(s, 1, w)
           c == SubSeq(s, w + Len(d) + 1, Len(s))
<1>1. Copies!Cut(s, 1, w) = a
  BY DEF Copies!Cut
<1>2. a \in Seq(S) /\ Len(a) = w /\ \A k \in 1..w : a[k] = s[k]
  OBVIOUS
<1>3. /\ c \in Seq(S)
      /\ Len(c) = IF w + Len(d) <= Len(s) THEN Len(s) - (w + Len(d)) ELSE 0
      /\ \A k \in 1..Len(c) : c[k] = s[w + Len(d) + k]
  OBVIOUS
<1> HIDE DEF a, c
<1> DEFINE b == a \o d
<1>4. /\ b \in Seq(S) /\ Len(b) = w + Len(d)
      /\ \A k \in 1..Len(b) : b[k] = IF k <= w THEN s[k] ELSE d[k - w]
  BY <1>2
<1> HIDE DEF b
<1> DEFINE r == b \o c
<1>5. r \in Seq(S) /\ Len(r) = Larger(w + Len(d), Len(s))
  <2>1. r \in Seq(S) /\ Len(r) = Len(b) + Len(c)
    BY <1>3, <1>4, ConcatProperties
  <2>2. Len(d) \in Nat /\ Len(s) \in Nat /\ w \in Nat
    OBVIOUS
  <2>3. Len(b) + Len(c) = Larger(w + Len(d), Len(s))
    <3> HIDE DEF r
    <3>1. Len(b) = w + Len(d)
      BY <1>4
    <3>2. Len(c) = IF w + Len(d) <= Len(s) THEN Len(s) - (w + Len(d)) ELSE 0
      BY <1>3
    <3>3. CASE w + Len(d) <= Len(s)
      BY <3>3, <2>2, <3>1, <3>2 DEF Larger
    <3>4. CASE w + Len(d) > Len(s)
      <4>1. Len(c) = 0
        BY <3>4, <2>2, <3>2
      <4>2. Len(b) + Len(c) = w + Len(d)
        BY <4>1, <2>2, <3>1
      <4>3. Larger(w + Len(d), Len(s)) = w + Len(d)
        BY <3>4 DEF Larger
      <4> QED BY <4>2, <4>3
    <3> QED BY <2>2, <3>3, <3>4
  <2> HIDE DEF r
  <2> QED BY <2>1, <2>3
<1>6. ASSUME NEW k \in 1..Len(r)
      PROVE  r[k] = IF k <= w THEN s[k]
                    ELSE IF k <= w + Len(d) THEN d[k - w] ELSE s[k]
  <2>1. CASE k <= Len(b)
    BY <2>1, <1>3, <1>4
  <2>2. CASE k > Len(b)
    <3>1. r[k] = c[k - Len(b)] /\ k - Len(b) \in 1..Len(c)
      BY <2>2, <1>3, <1>4, <1>5
    <3> QED BY <3>1, <2>2, <1>3, <1>4
  <2> QED BY <2>1, <2>2, <1>5
<1>7. r = Copies!Cut(s, 1, w) \o d \o SubSeq(s, w + Len(d) + 1, Len(s))
  BY <1>1 DEF b, c
<1> HIDE DEF r
<1> QED BY <1>5, <1>6, <1>7

LEMMA OldIsContents ==
  ASSUME CopyTypes, NEW f \in 1..2 PROVE Old(f) \in Contents
BY DEF CopyTypes, Old, Contents

LEMMA NotNames ==
  Copies!Absent \notin Contents /\ Copies!Directory \notin Contents
<1>1. ASSUME NEW x \in {"absent", "directory"} PROVE <<x>> \notin Contents
  <2> SUFFICES ASSUME <<x>> \in Contents PROVE FALSE
    OBVIOUS
  <2>1. <<x>>[1] \in Characters
    BY DEF Contents
  <2> QED BY <2>1, NamesAssumption
<1> QED BY <1>1 DEF Copies!Absent, Copies!Directory

(* A write that gives the next bytes what they should be.                  *)
LEMMA WriteGoesOn ==
  ASSUME CopyTypes, NEW f \in 1..2, file[f] # Copies!Absent,
         file[f] = WrittenOver(f, written[f]),
         NEW data \in Contents,
         \A j \in 1..Len(data) : data[j] = Byte(f, written[f] + j)
  PROVE  LET r == Copies!Over(f, data)
         IN  /\ r[f] = WrittenOver(f, written[f] + Len(data))
             /\ r \in [1..2 -> Contents \cup {Copies!Absent}]
             /\ r[f] # Copies!Absent
             /\ \A g \in (1..2) \ {f} : r[g] = file[g]
<1> DEFINE w == written[f]
           s == file[f]
           n == Copies!Cut(s, 1, w) \o data \o SubSeq(s, w + Len(data) + 1, Len(s))
<1>1. s \in Contents /\ w \in Nat /\ Old(f) \in Contents
  BY OldIsContents DEF CopyTypes
<1>2. Len(s) = Larger(w, Len(Old(f))) /\ w \in 0..Len(s)
      /\ \A k \in 1..Len(s) : s[k] = IF k <= w THEN Byte(f, k) ELSE Old(f)[k]
  BY <1>1 DEF WrittenOver, Larger, Contents
<1>3. Copies!Over(f, data) = [file EXCEPT ![f] = n]
  BY DEF Copies!Over, CopyTypes
<1>4. /\ n \in Contents
      /\ Len(n) = Larger(w + Len(data), Len(s))
      /\ \A k \in 1..Len(n) :
           n[k] = IF k <= w THEN s[k]
                  ELSE IF k <= w + Len(data) THEN data[k - w] ELSE s[k]
  BY <1>1, <1>2, Overwritten DEF Contents
<1> HIDE DEF n
<1>5. Len(n) = Larger(w + Len(data), Len(Old(f))) /\ Len(data) \in Nat
  BY <1>1, <1>2, <1>4 DEF Larger, Contents
<1>6. ASSUME NEW k \in 1..Len(n)
      PROVE  n[k] = IF k <= w + Len(data) THEN Byte(f, k) ELSE Old(f)[k]
  <2>1. CASE k <= w
    BY <2>1, <1>1, <1>2, <1>4, <1>5
  <2>2. CASE k > w /\ k <= w + Len(data)
    <3>1. k - w \in 1..Len(data) /\ w + (k - w) = k
      BY <2>2, <1>1, <1>5
    <3>2. data[k - w] = Byte(f, k)
      BY <3>1
    <3>3. n[k] = data[k - w]
      BY <2>2, <1>1, <1>4
    <3> QED BY <3>2, <3>3, <2>2
  <2>3. CASE k > w + Len(data)
    <3>1. k \in 1..Len(s) /\ k > w
      BY <2>3, <1>1, <1>4, <1>5 DEF Larger, Contents
    <3> QED BY <3>1, <2>3, <1>2, <1>4
  <2> QED BY <2>1, <2>2, <2>3, <1>1, <1>5
<1>7. n = [k \in 1..Len(n) |-> n[k]]
  BY <1>4 DEF Contents
<1>8. n = WrittenOver(f, w + Len(data))
  BY <1>5, <1>6, <1>7 DEF WrittenOver
<1>9. file \in [1..2 -> Contents \cup {Copies!Absent}]
  BY DEF CopyTypes
<1> QED BY <1>3, <1>4, <1>8, <1>9, NotNames

(* The first steps.                                                        *)
LEMMA CopyInit == Copies!Init => CopyInv
<1> SUFFICES ASSUME Copies!Init PROVE CopyInv
  OBVIOUS
<1>1. CopyTypes
  BY ContentsAssumption DEF Copies!Init, Copies!Files, Contents, CopyTypes
<1>2. FamilyOrder
  BY DEF Copies!Init, FamilyOrder
<1>3. \A f \in 1..2 : Copies!Untouched(f)
  BY DEF Copies!Init, Copies!Files, Copies!Untouched
<1>4. BeforeLoop /\ InLoop /\ Progress
  BY <1>3 DEF Copies!Init, BeforeLoop, InLoop, Progress, SharesProgress,
     PiecesProgress, PlainProgress, Copies!Files
<1> QED BY <1>1, <1>2, <1>4 DEF CopyInv

LEMMA ParentKeeps == CopyInv /\ Copies!ParentStep => CopyInv'
<1> SUFFICES ASSUME CopyInv, Copies!ParentStep PROVE CopyInv'
  OBVIOUS
<1>1. /\ copier = "unborn" /\ copier' \in {"unborn", "open", "refused"}
      /\ copier_parent' \in {"fork2", "exited"}
      /\ copier_parent' = "fork2" => copier' = "unborn"
      /\ child1' \in {"unborn", "create1", "create2", "exited"}
      /\ UNCHANGED <<program, source, before, file, position, written, reads>>
      /\ program = "split"
  BY DEF CopyInv, CopyTypes, FamilyOrder, Copies!ParentStep, Copies!input,
     Copies!cursor
<1>2. CopyTypes' /\ FamilyOrder'
  BY <1>1 DEF CopyInv, CopyTypes, FamilyOrder
<1>3. BeforeLoop'
  BY <1>1 DEF CopyInv, BeforeLoop, Copies!Untouched
<1>4. InLoop' /\ Progress'
  BY <1>1 DEF InLoop, Progress, SharesProgress
<1> QED BY <1>2, <1>3, <1>4 DEF CopyInv

(* Creating leaves alone what there is, and so all that is being written.  *)
LEMMA CreatedTypes ==
  ASSUME CopyTypes, NEW f \in 1..2
  PROVE  /\ Copies!Created(f) \in [1..2 -> Contents \cup {Copies!Absent}]
         /\ \A g \in 1..2 : /\ file[g] # Copies!Absent => Copies!Created(f)[g] = file[g]
                            /\ file[g] = Copies!Absent =>
                                  Copies!Created(f)[g] \in {Copies!Absent, <<>>}
BY DEF CopyTypes, Copies!Created, Contents

LEMMA AbsentUntouched ==
  ASSUME NEW f \in 1..2, Copies!Untouched(f), file[f] = Copies!Absent
  PROVE  before[f] = Copies!Absent
BY DEF Copies!Untouched, Copies!Absent

LEMMA CreateKeeps ==
  ASSUME CopyInv, NEW f \in 1..2, NEW from, NEW to \in {"create2", "exited"},
         from # "unborn", Copies!CreateFile(f, from, to)
  PROVE  CopyInv'
<1>1. /\ program = "split" /\ child1' = to
      /\ UNCHANGED <<program, source, before, copier_parent, copier, position,
                     written, reads>>
      /\ file' \in {Copies!Created(f), file}
  BY DEF CopyInv, FamilyOrder, Copies!CreateFile, Copies!input, Copies!cursor
<1>2. CopyTypes' /\ FamilyOrder'
  BY <1>1, CreatedTypes DEF CopyInv, CopyTypes, FamilyOrder
<1>3. /\ \A g \in 1..2 : file[g] # Copies!Absent => file'[g] = file[g]
      /\ \A g \in 1..2 : file[g] = Copies!Absent => file'[g] \in {Copies!Absent, <<>>}
  BY <1>1, CreatedTypes DEF CopyInv
<1>4. BeforeLoop'
  <2> SUFFICES ASSUME copier \in {"unborn", "open", "open2", "refused"}
               PROVE  BeforeLoop'
    BY <1>1 DEF BeforeLoop
  <2>1. ASSUME NEW g \in 1..2 PROVE Copies!Untouched(g)'
    <3>1. Copies!Untouched(g)
      BY DEF CopyInv, BeforeLoop
    <3>2. CASE file[g] = Copies!Absent
      BY <3>1, <3>2, <1>1, <1>3, AbsentUntouched DEF Copies!Untouched
    <3>3. CASE file[g] # Copies!Absent
      BY <3>1, <3>3, <1>1, <1>3 DEF Copies!Untouched
    <3> QED BY <3>2, <3>3
  <2>2. copier = "open2" => file'[1] # Copies!Absent
    BY <1>3 DEF CopyInv, BeforeLoop
  <2> QED BY <1>1, <2>1, <2>2 DEF CopyInv, BeforeLoop
<1>5. InLoop'
  <2> SUFFICES ASSUME copier \in {"read", "mark", "done"} PROVE InLoop'
    BY <1>1 DEF InLoop
  <2>1. \A g \in 1..2 : file[g] # Copies!Absent
    BY <1>1 DEF CopyInv, InLoop, Copies!Targets, Copies!Files
  <2>2. \A g \in 1..2 : file'[g] = file[g]
    BY <2>1, <1>3
  <2>3. Copies!Targets' = 1..2 /\ Copies!Targets = 1..2
    BY <1>1 DEF Copies!Targets, Copies!Files
  <2> QED BY <1>1, <2>2, <2>3 DEF CopyInv, InLoop, WrittenOver, Old, Byte,
          Copies!ShareByte, Copies!Round, Copies!Changed
<1>6. Progress'
  BY <1>1 DEF CopyInv, Progress, SharesProgress, Copies!Round, Copies!ShareOf,
     Copies!Smaller
<1> QED BY <1>2, <1>4, <1>5, <1>6 DEF CopyInv

LEMMA RefuseKeeps == CopyInv /\ Copies!Refuse => CopyInv'
<1> SUFFICES ASSUME CopyInv, Copies!Refuse PROVE CopyInv'
  OBVIOUS
<1>1. /\ copier = "open" /\ copier' = "refused"
      /\ UNCHANGED <<program, source, before, file, copier_parent, child1,
                     position, written, reads>>
  BY DEF Copies!Refuse, Copies!input, Copies!cursor, Copies!family
<1>2. CopyTypes' /\ FamilyOrder'
  BY <1>1 DEF CopyInv, CopyTypes, FamilyOrder
<1>3. BeforeLoop'
  BY <1>1 DEF CopyInv, BeforeLoop, Copies!Untouched
<1>4. InLoop' /\ Progress'
  BY <1>1 DEF InLoop, Progress, SharesProgress, PiecesProgress, PlainProgress
<1> QED BY <1>2, <1>3, <1>4 DEF CopyInv

(* An untouched destination that is there is what it should be before the  *)
(* first write.                                                            *)
LEMMA NothingWritten ==
  ASSUME CopyTypes, NEW f \in 1..2, Copies!Untouched(f)
  PROVE  /\ file[f] # Copies!Absent => file[f] = WrittenOver(f, 0)
         /\ file[f] = Copies!Absent => <<>> = WrittenOver(f, 0)
<1>1. Old(f) \in Contents
  BY OldIsContents
<1>2. WrittenOver(f, 0) = [k \in 1..Len(Old(f)) |-> Old(f)[k]]
  <2>1. Larger(0, Len(Old(f))) = Len(Old(f)) /\ Len(Old(f)) \in Nat
    BY <1>1 DEF Larger, Contents
  <2>2. \A k \in 1..Len(Old(f)) : ~(k <= 0)
    BY <2>1
  <2> QED BY <2>1, <2>2 DEF WrittenOver
<1>3. WrittenOver(f, 0) = Old(f)
  BY <1>1, <1>2 DEF Contents
<1>4. file[f] # Copies!Absent => file[f] = Old(f)
  BY DEF Copies!Untouched, Old
<1>5. file[f] = Copies!Absent => Old(f) = <<>>
  BY AbsentUntouched DEF Old
<1> QED BY <1>3, <1>4, <1>5

(* Where each program starts to read.                                      *)
LEMMA AtTheBeginning ==
  ASSUME CopyTypes, source \in Contents, copier' = "read", position' = 0,
         written' = [f \in 1..2 |-> 0], reads' = 0, UNCHANGED <<program, source>>
  PROVE  Progress'
<1>1. Len(source) \in Nat
  BY DEF Contents
<1>2. 0 = 0 * BUFFER_SIZE_1 /\ 0 = 0 * BUFFER_SIZE_2 /\ 0 = 0 * (BUFFER_SIZE_1 + 3)
      /\ 0 = 0 * Copies!Round
  BY BuffersAssumption DEF Copies!Round
<1>3. Copies!Round' = Copies!Round
  BY DEF Copies!Round
<1>4. SharesProgress'
  BY <1>1, <1>2, <1>3 DEF SharesProgress
<1>5. PiecesProgress'
  BY <1>1, <1>2 DEF PiecesProgress
<1>6. PlainProgress'
  BY <1>1 DEF PlainProgress
<1> QED BY <1>4, <1>5, <1>6 DEF Progress

LEMMA OpenKeeps == CopyInv /\ Copies!Open => CopyInv'
<1> SUFFICES ASSUME CopyInv, Copies!Open PROVE CopyInv'
  OBVIOUS
<1>1. /\ copier = "open" /\ source # Copies!Absent
      /\ UNCHANGED <<program, source, before, copier_parent, child1,
                     position, written, reads>>
  BY DEF Copies!Open, Copies!input, Copies!cursor, Copies!family
<1>2. CopyTypes /\ position = 0 /\ written = [f \in 1..2 |-> 0] /\ reads = 0
      /\ \A f \in 1..2 : Copies!Untouched(f)
  BY <1>1 DEF CopyInv, BeforeLoop
<1>3. CASE program = "split"
  <2>1. UNCHANGED file /\ file[1] # Copies!Absent /\ copier' = "open2"
    BY <1>3 DEF Copies!Open
  <2>2. CopyTypes' /\ FamilyOrder'
    BY <1>1, <1>3, <2>1 DEF CopyInv, CopyTypes, FamilyOrder
  <2>3. BeforeLoop'
    BY <1>1, <1>2, <1>3, <2>1 DEF BeforeLoop, Copies!Untouched
  <2>4. InLoop' /\ Progress'
    BY <1>1, <1>3, <2>1 DEF InLoop, Progress, SharesProgress
  <2> QED BY <2>2, <2>3, <2>4 DEF CopyInv
<1>4. CASE program # "split"
  <2>1. /\ copier' = "read" /\ Copies!Targets' = {1}
        /\ file' \in {file, Copies!Created(1)}
        /\ program \in {"cp", "cpXYZ"} => file' = Copies!Created(1)
        /\ program = "display" => file' = file
    BY <1>1, <1>2, <1>4 DEF Copies!Open, Copies!Targets, CopyTypes, Copies!Programs
  <2>2. CopyTypes' /\ FamilyOrder'
    BY <1>1, <1>4, <2>1, CreatedTypes DEF CopyInv, CopyTypes, FamilyOrder
  <2>3. file'[1] # Copies!Absent
    <3>1. CASE program = "display"
      <4>1. file[1] = <<>>
        BY <3>1, <1>1 DEF CopyInv, BeforeLoop
      <4>2. file' = file
        BY <3>1, <2>1
      <4> QED BY <4>1, <4>2 DEF Copies!Absent
    <3>2. CASE program # "display"
      <4>1. file' = Copies!Created(1)
        BY <3>2, <1>2, <1>4, <2>1 DEF CopyTypes, Copies!Programs
      <4>2. Copies!Created(1)[1] = IF file[1] = Copies!Absent THEN <<>> ELSE file[1]
        BY <1>2 DEF CopyTypes, Copies!Created
      <4>3. <<>> # Copies!Absent
        BY DEF Copies!Absent
      <4> QED BY <4>1, <4>2, <4>3
    <3> QED BY <3>1, <3>2
  <2>4. file'[1] = WrittenOver(1, 0)
    <3>1. Copies!Untouched(1)
      BY <1>2
    <3>2. CASE file[1] # Copies!Absent
      BY <3>1, <3>2, <1>2, <2>1, CreatedTypes, NothingWritten
    <3>3. CASE file[1] = Copies!Absent
      BY <3>1, <3>3, <1>2, <2>1, <2>3, CreatedTypes, NothingWritten
    <3> QED BY <3>2, <3>3
  <2>5. WrittenOver(1, 0)' = WrittenOver(1, 0)
    BY <1>1 DEF WrittenOver, Old, Byte, Copies!ShareByte, Copies!PieceByte,
       Copies!Round, Copies!Changed, Copies!Smaller
  <2>6. written'[1] = 0
    BY <1>1, <1>2
  <2>7. InLoop'
    BY <1>1, <1>2, <2>1, <2>3, <2>4, <2>5, <2>6 DEF InLoop
  <2>8. BeforeLoop'
    BY <2>1 DEF BeforeLoop
  <2>9. Progress'
    <3>1. CASE source \in Contents
      BY <3>1, <1>1, <1>2, <2>1, AtTheBeginning
    <3>2. CASE source \notin Contents
      BY <3>2, <1>1 DEF Progress
    <3> QED BY <3>1, <3>2
  <2> QED BY <2>2, <2>7, <2>8, <2>9 DEF CopyInv
<1> QED BY <1>3, <1>4

LEMMA OpenSecondKeeps == CopyInv /\ Copies!OpenSecond => CopyInv'
<1> SUFFICES ASSUME CopyInv, Copies!OpenSecond PROVE CopyInv'
  OBVIOUS
<1>1. /\ copier = "open2" /\ program = "split"
      /\ copier' = IF file[2] # Copies!Absent THEN "read" ELSE "refused"
      /\ source # Copies!Absent /\ file[1] # Copies!Absent
      /\ UNCHANGED <<program, source, before, file, copier_parent, child1,
                     position, written, reads>>
  BY DEF CopyInv, BeforeLoop, Copies!OpenSecond, Copies!input, Copies!cursor,
     Copies!family
<1>2. CopyTypes /\ position = 0 /\ written = [f \in 1..2 |-> 0] /\ reads = 0
      /\ \A f \in 1..2 : Copies!Untouched(f)
  BY <1>1 DEF CopyInv, BeforeLoop
<1>3. CopyTypes' /\ FamilyOrder'
  BY <1>1 DEF CopyInv, CopyTypes, FamilyOrder
<1>4. BeforeLoop'
  BY <1>1, <1>2 DEF BeforeLoop, Copies!Untouched
<1>5. CASE file[2] = Copies!Absent
  BY <1>1, <1>3, <1>4, <1>5 DEF CopyInv, InLoop, Progress, SharesProgress
<1>6. CASE file[2] # Copies!Absent
  <2>1. \A f \in 1..2 : file[f] # Copies!Absent
    BY <1>1, <1>6
  <2>2. \A f \in 1..2 : file[f] = WrittenOver(f, 0)
    BY <2>1, <1>2, NothingWritten
  <2>3. \A f \in 1..2 : WrittenOver(f, 0)' = WrittenOver(f, 0)
    BY <1>1 DEF WrittenOver, Old, Byte, Copies!ShareByte, Copies!Round,
       Copies!Changed
  <2>4. copier' = "read" /\ \A f \in 1..2 : written'[f] = 0
    BY <1>1, <1>2, <1>6
  <2>5. \A f \in 1..2 : file'[f] = WrittenOver(f, written[f])'
    BY <1>1, <2>2, <2>3, <2>4
  <2>6. Copies!Targets' = 1..2
    BY <1>1 DEF Copies!Targets, Copies!Files
  <2>7. InLoop'
    BY <1>1, <1>2, <2>1, <2>4, <2>5, <2>6 DEF InLoop
  <2>8. Progress'
    <3>1. CASE source \in Contents
      BY <3>1, <1>1, <1>2, <2>4, AtTheBeginning
    <3>2. CASE source \notin Contents
      BY <3>2, <1>1 DEF Progress
    <3> QED BY <3>1, <3>2
  <2> QED BY <1>3, <1>4, <2>7, <2>8 DEF CopyInv
<1> QED BY <1>5, <1>6

-------------------------------------------------------------------------------
(* What a program reads, of a source that is no directory.                 *)
LEMMA PartRead ==
  ASSUME source \in Contents, position \in 0..Len(source), NEW size \in Nat
  PROVE  LET got == Copies!Cut(source, position + 1, position + size)
         IN  /\ got \in Contents
             /\ Len(got) = Copies!Smaller(size, Len(source) - position)
             /\ \A j \in 1..Len(got) : /\ got[j] = source[position + j]
                                       /\ position + j \in 1..Len(source)
<1> DEFINE n == Len(source)
           last == IF position + size < n THEN position + size ELSE n
           got == SubSeq(source, position + 1, last)
<1>1. Copies!Cut(source, position + 1, position + size) = got
  BY DEF Copies!Cut
<1>2. n \in Nat /\ position \in Nat /\ last \in position..n
      /\ last - position = Copies!Smaller(size, n - position)
  BY DEF Contents, Copies!Smaller
<1> HIDE DEF last
<1>3. /\ got \in Contents /\ Len(got) = last - position
      /\ \A j \in 1..Len(got) : got[j] = source[position + j]
  BY <1>2 DEF Contents
<1> HIDE DEF got
<1>4. \A j \in 1..Len(got) : position + j \in 1..n
  BY <1>2, <1>3
<1> QED BY <1>1, <1>2, <1>3, <1>4

(* A replaced byte is a byte.                                              *)
LEMMA ReplacedIsByte ==
  ASSUME NEW c \in Characters PROVE Copies!Replaced(c) \in Characters
BY ContentsAssumption DEF Copies!Replaced

LEMMA MarkIsContents ==
  ASSUME NEW n PROVE /\ Copies!Mark(n) \in Contents
                     /\ Copies!XYZ \in Contents /\ Len(Copies!XYZ) = 3
                     /\ Len(Copies!Mark(n)) = IF Copies!Mark(n) = <<>> THEN 0 ELSE 3
BY ContentsAssumption DEF Copies!Mark, Copies!XYZ, Contents

(* The bytes of a copy in pieces: those of a piece and its marker.         *)
LEMMA ByteOfPiece ==
  ASSUME program = "cpXYZ", source \in Contents, NEW q \in Nat,
         q * BUFFER_SIZE_1 <= Len(source), BUFFER_SIZE_1 > 0,
         NEW m, m = Copies!Smaller(BUFFER_SIZE_1, Len(source) - q * BUFFER_SIZE_1)
  PROVE  /\ m \in 0..BUFFER_SIZE_1
         /\ \A j \in 1..m : Byte(1, q * (BUFFER_SIZE_1 + 3) + j)
              = Copies!Changed(source[q * BUFFER_SIZE_1 + j], "1", "A")
         /\ \A j \in 1..3 : Byte(1, q * (BUFFER_SIZE_1 + 3) + m + j)
              = Copies!XYZ[j]
<1> DEFINE b == BUFFER_SIZE_1
           first == q * b
           w == q * (b + 3)
<1>1. b \in Nat /\ first \in Nat /\ w \in Nat /\ m \in 0..b /\ Len(source) \in Nat
  BY BuffersAssumption DEF Contents, Copies!Smaller
<1>2. ASSUME NEW o \in 0..(b + 2)
      PROVE  Byte(1, w + (o + 1))
             = IF o < m THEN Copies!Changed(source[first + o + 1], "1", "A")
               ELSE Copies!XYZ[o - m + 1]
  <2> DEFINE k == w + (o + 1)
  <2>1. k - 1 = q * (b + 3) + o
    BY <1>1
  <2>2. (k - 1) \div (b + 3) = q /\ (k - 1) % (b + 3) = o
    <3>1. b + 3 \in Nat /\ b + 3 > 0 /\ o \in 0..((b + 3) - 1)
      BY <1>1
    <3> QED BY <2>1, <3>1, Quotient
  <2> HIDE DEF k
  <2>3. Byte(1, k) = Copies!PieceByte(k)
    BY DEF Byte
  <2> QED BY <2>2, <2>3 DEF Copies!PieceByte, k
<1>3. ASSUME NEW j \in 1..m
      PROVE  Byte(1, w + j) = Copies!Changed(source[first + j], "1", "A")
  <2>1. j - 1 \in 0..(b + 2) /\ j - 1 < m /\ (j - 1) + 1 = j
        /\ first + (j - 1) + 1 = first + j
    <3> HIDE DEF first, b
    <3> QED BY <1>1
  <2>2. Byte(1, w + ((j - 1) + 1))
             = IF j - 1 < m THEN Copies!Changed(source[first + (j - 1) + 1], "1", "A")
               ELSE Copies!XYZ[(j - 1) - m + 1]
    BY <1>2, <2>1
  <2> QED BY <2>1, <2>2
<1>4. ASSUME NEW j \in 1..3 PROVE Byte(1, w + m + j) = Copies!XYZ[j]
  <2> DEFINE o == m + j - 1
  <2>1. o \in 0..(b + 2) /\ ~(o < m) /\ w + (o + 1) = w + m + j /\ o - m + 1 = j
    <3> HIDE DEF w, b
    <3> QED BY <1>1
  <2>2. Byte(1, w + (o + 1))
             = IF o < m THEN Copies!Changed(source[first + o + 1], "1", "A")
               ELSE Copies!XYZ[o - m + 1]
    BY <1>2, <2>1
  <2> HIDE DEF o
  <2> QED BY <2>1, <2>2
<1> QED BY <1>1, <1>3, <1>4

(* The bytes of the two shares.                                            *)
LEMMA ByteOfShare ==
  ASSUME program = "split", NEW q \in Nat
  PROVE  /\ \A j \in 1..BUFFER_SIZE_1 : Byte(1, q * BUFFER_SIZE_1 + j)
              = Copies!Changed(source[q * Copies!Round + j], "1", "A")
         /\ \A j \in 1..BUFFER_SIZE_2 : Byte(2, q * BUFFER_SIZE_2 + j)
              = Copies!Changed(source[q * Copies!Round + BUFFER_SIZE_1 + j], "2", "B")
<1>1. ASSUME NEW j \in 1..BUFFER_SIZE_1
      PROVE  Byte(1, q * BUFFER_SIZE_1 + j)
              = Copies!Changed(source[q * Copies!Round + j], "1", "A")
  <2> DEFINE k == q * BUFFER_SIZE_1 + j
  <2>1. /\ BUFFER_SIZE_1 \in Nat /\ BUFFER_SIZE_1 > 0 /\ j - 1 \in 0..(BUFFER_SIZE_1 - 1)
        /\ k - 1 = q * BUFFER_SIZE_1 + (j - 1)
    BY BuffersAssumption
  <2>2. (k - 1) \div BUFFER_SIZE_1 = q /\ (k - 1) % BUFFER_SIZE_1 = j - 1
    BY <2>1, Quotient
  <2>3. q * Copies!Round + (j - 1) + 1 = q * Copies!Round + j
    BY BuffersAssumption DEF Copies!Round
  <2> HIDE DEF k
  <2>4. Byte(1, k) = Copies!Changed(source[q * Copies!Round + (j - 1) + 1], "1", "A")
    BY <2>2 DEF Byte, Copies!ShareByte
  <2> QED BY <2>3, <2>4 DEF k
<1>2. ASSUME NEW j \in 1..BUFFER_SIZE_2
      PROVE  Byte(2, q * BUFFER_SIZE_2 + j)
              = Copies!Changed(source[q * Copies!Round + BUFFER_SIZE_1 + j], "2", "B")
  <2> DEFINE k == q * BUFFER_SIZE_2 + j
  <2>1. /\ BUFFER_SIZE_2 \in Nat /\ BUFFER_SIZE_2 > 0 /\ j - 1 \in 0..(BUFFER_SIZE_2 - 1)
        /\ k - 1 = q * BUFFER_SIZE_2 + (j - 1)
    BY BuffersAssumption
  <2>2. (k - 1) \div BUFFER_SIZE_2 = q /\ (k - 1) % BUFFER_SIZE_2 = j - 1
    BY <2>1, Quotient
  <2>3. q * Copies!Round + BUFFER_SIZE_1 + (j - 1) + 1 = q * Copies!Round + BUFFER_SIZE_1 + j
    BY BuffersAssumption DEF Copies!Round
  <2> HIDE DEF k
  <2>4. Byte(2, k) = Copies!Changed(source[q * Copies!Round + BUFFER_SIZE_1 + (j - 1) + 1], "2", "B")
    BY <2>2 DEF Byte, Copies!ShareByte
  <2> QED BY <2>3, <2>4 DEF k
<1> QED BY <1>1, <1>2

(* One round of the loop, for a program whose next bytes are right.        *)
Turn == IF Copies!FirstTurn THEN 1 ELSE 2

PartLength == Copies!Smaller(Copies!Size, Len(source) - position)

LEMMA TurnIsTarget ==
  CopyTypes => Turn \in Copies!Targets /\ Copies!Targets \subseteq 1..2
BY DEF Turn, Copies!FirstTurn, Copies!Targets, Copies!Files

LEMMA RoundGoesOn ==
  ASSUME CopyInv, Copies!ReadAndWrite, source # Copies!Directory,
         position \in 0..Len(source),
         \A j \in 1..PartLength :
            Byte(Turn, written[Turn] + j) = Copies!Replaced(source[position + j]),
         \A j \in 1..Len(Copies!Mark(PartLength)) :
            Byte(Turn, written[Turn] + PartLength + j) = Copies!Mark(PartLength)[j]
  PROVE  /\ CopyTypes' /\ FamilyOrder' /\ BeforeLoop' /\ InLoop'
         /\ copier = "read" /\ UNCHANGED <<program, source, before>>
         /\ PartLength \in Nat /\ position' = position + PartLength
         /\ written' = [written EXCEPT
              ![Turn] = @ + PartLength + Len(Copies!Mark(PartLength))]
         /\ copier' = IF Copies!GoesOn(PartLength) THEN "read"
                      ELSE IF program = "cpXYZ" /\ PartLength # 0
                              /\ Copies!Mark(PartLength) = <<>> THEN "mark"
                      ELSE "done"
         /\ reads' = (reads + 1) % 2
<1> DEFINE f == Turn
           m == PartLength
           w == written[f]
           mark == Copies!Mark(m)
           got == Copies!Cut(source, position + 1, position + Copies!Size)
           piece == [j \in 1..Len(got) |-> Copies!Replaced(got[j])]
           data == piece \o mark
<1>1. /\ copier = "read" /\ CopyTypes /\ source \in Contents
      /\ f \in Copies!Targets /\ f \in 1..2
      /\ file[f] # Copies!Absent /\ file[f] = WrittenOver(f, written[f])
      /\ UNCHANGED <<program, source, before, copier_parent, child1>>
  BY TurnIsTarget DEF CopyInv, CopyTypes, InLoop, Copies!ReadAndWrite,
     Copies!input, Copies!family
<1>2. Copies!Size \in Nat
  BY BuffersAssumption DEF Copies!Size
<1>3. /\ got \in Contents /\ Len(got) = m
      /\ \A j \in 1..m : got[j] = source[position + j] /\ position + j \in 1..Len(source)
  BY <1>1, <1>2, PartRead DEF PartLength
<1>4. mark \in Contents /\ m \in Nat /\ w \in Nat
  BY <1>1, <1>3, MarkIsContents DEF Contents, CopyTypes
<1>5. /\ file' = Copies!Over(f, data)
      /\ position' = position + m
      /\ written' = [written EXCEPT ![f] = @ + Len(data)]
      /\ copier' = IF Copies!GoesOn(m) THEN "read"
                   ELSE IF program = "cpXYZ" /\ m # 0 /\ mark = <<>> THEN "mark"
                   ELSE "done"
      /\ reads' = (reads + 1) % 2
  BY <1>3 DEF Copies!ReadAndWrite, Turn
<1> HIDE DEF mark, got
<1>6. piece \in Contents /\ Len(piece) = m
  <2>1. \A j \in 1..Len(got) : got[j] \in Characters
    BY <1>3 DEF Contents
  <2>2. \A j \in 1..Len(got) : Copies!Replaced(got[j]) \in Characters
    BY <2>1, ReplacedIsByte
  <2>3. Len(got) = m /\ m \in Nat
    BY <1>3, <1>4
  <2>4. piece \in [1..m -> Characters]
    BY <2>2, <2>3, Zenon
  <2> HIDE DEF piece
  <2>5. piece \in Seq(Characters) /\ Len(piece) = m
    BY <2>3, <2>4
  <2> QED BY <2>5 DEF Contents
<1>7. \A j \in 1..m : piece[j] = Byte(f, w + j)
  <2>1. SUFFICES ASSUME NEW j \in 1..m PROVE piece[j] = Byte(f, w + j)
    OBVIOUS
  <2>2. Byte(f, w + j) = Copies!Replaced(source[position + j])
    OBVIOUS
  <2>3. got[j] = source[position + j] /\ j \in 1..Len(got)
    BY <1>3
  <2>4. piece[j] = Copies!Replaced(got[j])
    BY <2>3
  <2> QED BY <2>2, <2>3, <2>4
<1> HIDE DEF piece
<1>8. /\ data \in Contents /\ Len(data) = m + Len(mark)
      /\ \A j \in 1..Len(data) : data[j] = IF j <= m THEN piece[j] ELSE mark[j - m]
  <2>1. piece \in Seq(Characters) /\ mark \in Seq(Characters)
    BY <1>4, <1>6 DEF Contents
  <2>2. /\ data \in Seq(Characters) /\ Len(data) = Len(piece) + Len(mark)
        /\ \A j \in 1..(Len(piece) + Len(mark)) :
             data[j] = IF j <= Len(piece) THEN piece[j] ELSE mark[j - Len(piece)]
    BY <2>1, ConcatProperties
  <2> HIDE DEF data
  <2> QED BY <2>2, <1>6 DEF Contents
<1>9. Len(mark) \in Nat
  BY <1>4 DEF Contents
<1>10. ASSUME NEW j \in 1..Len(data) PROVE data[j] = Byte(f, w + j)
  <2>1. CASE j <= m
    BY <2>1, <1>4, <1>7, <1>8
  <2>2. CASE j > m
    <3>1. j - m \in 1..Len(mark) /\ w + m + (j - m) = w + j
      BY <2>2, <1>4, <1>8, <1>9
    <3>2. mark[j - m] = Byte(f, w + m + (j - m))
      BY <3>1 DEF mark
    <3>3. data[j] = mark[j - m]
      <4> HIDE DEF data, m
      <4>1. ~(j <= m)
        BY <2>2, <1>4, <1>8, <1>9
      <4> QED BY <4>1, <1>8
    <3> QED BY <3>1, <3>2, <3>3
  <2> QED BY <2>1, <2>2, <1>4
<1> HIDE DEF data, f, m, w
<1>11. /\ file'[f] = WrittenOver(f, w + Len(data))
       /\ file' \in [1..2 -> Contents \cup {Copies!Absent}]
       /\ file'[f] # Copies!Absent
       /\ \A g \in (1..2) \ {f} : file'[g] = file[g]
  BY <1>1, <1>5, <1>8, <1>10, WriteGoesOn DEF w
<1>12. /\ written' = [written EXCEPT ![f] = @ + m + Len(mark)]
       /\ written' \in [1..2 -> Nat]
       /\ \A g \in 1..2 : written'[g] = IF g = f THEN w + Len(data) ELSE written[g]
  <2>1. written \in [1..2 -> Nat] /\ w = written[f]
    BY <1>1 DEF w, CopyTypes
  <2>2. written[f] + Len(data) = written[f] + m + Len(mark) /\ written[f] + Len(data) \in Nat
    BY <2>1, <1>1, <1>4, <1>8, <1>9
  <2> QED BY <2>1, <2>2, <1>1, <1>5
<1>13. (reads + 1) % 2 \in {0, 1}
  BY <1>1 DEF CopyTypes
<1>14. program # "cpXYZ" => copier' # "mark"
  BY <1>5
<1>15. position' \in Nat
  BY <1>4, <1>5
<1>16. CopyTypes' /\ FamilyOrder' /\ BeforeLoop'
  BY <1>1, <1>5, <1>11, <1>12, <1>13, <1>15 DEF CopyInv, CopyTypes, FamilyOrder, BeforeLoop
<1>17. Copies!Targets' = Copies!Targets
  BY <1>1 DEF Copies!Targets, Copies!Files
<1>18. ASSUME NEW g \in Copies!Targets
       PROVE  file'[g] # Copies!Absent /\ file'[g] = WrittenOver(g, written[g])'
  <2>1. g \in 1..2 /\ file[g] # Copies!Absent /\ file[g] = WrittenOver(g, written[g])
    BY <1>1, TurnIsTarget DEF CopyInv, InLoop
  <2>2. WrittenOver(g, written[g])' = WrittenOver(g, written'[g])
    BY <1>1 DEF WrittenOver, Old, Byte, Copies!ShareByte, Copies!PieceByte,
       Copies!Round, Copies!Changed, Copies!Smaller
  <2> QED BY <2>1, <2>2, <1>11, <1>12
<1>19. InLoop'
  BY <1>1, <1>17, <1>18 DEF CopyInv, InLoop
<1> QED BY <1>1, <1>4, <1>5, <1>12, <1>16, <1>19 DEF f, m, mark

(* The loop goes on for ever over a directory, and writes nothing.         *)
LEMMA DirectoryKeeps ==
  CopyInv /\ Copies!ReadAndWrite /\ source = Copies!Directory => CopyInv'
<1> SUFFICES ASSUME CopyInv, Copies!ReadAndWrite, source = Copies!Directory
             PROVE  CopyInv'
  OBVIOUS
<1> DEFINE f == Turn
<1>1. /\ copier = "read" /\ CopyTypes /\ position = 0
      /\ written = [g \in 1..2 |-> 0] /\ f \in Copies!Targets /\ f \in 1..2
      /\ file[f] # Copies!Absent /\ source # Copies!Absent
      /\ UNCHANGED <<program, source, before, copier_parent, child1>>
  BY TurnIsTarget DEF CopyInv, CopyTypes, InLoop, Copies!ReadAndWrite,
     Copies!input, Copies!family
<1>2. Copies!Mark(-1) = <<>>
  BY BuffersAssumption DEF Copies!Mark
<1>3. [j \in 1..Len(<<>>) |-> Copies!Replaced(<<>>[j])] \o Copies!Mark(-1) = <<>>
  <2>1. [j \in 1..Len(<<>>) |-> Copies!Replaced(<<>>[j])] = <<>>
    OBVIOUS
  <2> QED BY <2>1, <1>2
<1>4. /\ file' = Copies!Over(f, <<>>) /\ position' = position + 0
      /\ written' = [written EXCEPT ![f] = @ + 0]
      /\ copier' = "read" /\ reads' = (reads + 1) % 2
  <2>1. Copies!GoesOn(-1) /\ Len(<<>>) = 0
    BY DEF Copies!GoesOn
  <2>2. LET got == <<>>
            n == -1
            data == [j \in 1..Len(got) |-> Copies!Replaced(got[j])] \o Copies!Mark(n)
        IN  /\ file' = Copies!Over(f, data) /\ position' = position + Len(got)
            /\ written' = [written EXCEPT ![f] = @ + Len(data)]
            /\ copier' = "read" /\ reads' = (reads + 1) % 2
    BY <2>1 DEF Copies!ReadAndWrite, Turn
  <2> QED BY <1>3, <2>1, <2>2
<1>5. file' = [file EXCEPT ![f] = Copies!Cut(file[f], 1, 0) \o <<>>
                                   \o SubSeq(file[f], 0 + 0 + 1, Len(file[f]))]
  BY <1>1, <1>4 DEF Copies!Over, CopyTypes
<1>6. file[f] \in Contents
  BY <1>1 DEF CopyTypes
<1>7. Copies!Cut(file[f], 1, 0) \o <<>> \o SubSeq(file[f], 0 + 0 + 1, Len(file[f])) = file[f]
  <2>1. Copies!Cut(file[f], 1, 0) = <<>>
    BY <1>6 DEF Copies!Cut, Contents
  <2>2. SubSeq(file[f], 0 + 0 + 1, Len(file[f])) = file[f]
    BY <1>6 DEF Contents
  <2>3. <<>> \o <<>> = <<>>
    OBVIOUS
  <2>4. <<>> \o file[f] = file[f]
    BY <1>6, ConcatEmptySeq DEF Contents
  <2> QED BY <2>1, <2>2, <2>3, <2>4
<1>8. file' = file
  <2>1. file' = [file EXCEPT ![f] = file[f]]
    BY <1>5, <1>7
  <2> QED BY <2>1, <1>1 DEF CopyTypes
<1>9. position' = 0 /\ written' = written /\ reads' \in {0, 1}
  <2>1. written[f] + 0 = 0 /\ position + 0 = 0
    BY <1>1
  <2>2. written' = written
    BY <2>1, <1>1, <1>4
  <2>3. reads' \in {0, 1}
    BY <1>1, <1>4 DEF CopyTypes
  <2> QED BY <2>1, <2>2, <2>3, <1>4
<1>10. CopyTypes' /\ FamilyOrder' /\ BeforeLoop'
  BY <1>1, <1>4, <1>8, <1>9 DEF CopyInv, CopyTypes, FamilyOrder, BeforeLoop
<1>11. InLoop'
  BY <1>1, <1>4, <1>8, <1>9 DEF CopyInv, InLoop, Copies!Targets, Copies!Files
<1>12. Progress'
  BY <1>1 DEF Progress, Copies!Directory
<1> QED BY <1>10, <1>11, <1>12 DEF CopyInv

(* A program that copies as it is.                                         *)
LEMMA PlainRead ==
  ASSUME CopyInv, Copies!ReadAndWrite, source # Copies!Directory,
         program \notin {"split", "cpXYZ"}
  PROVE  CopyInv'
<1>1. /\ copier = "read" /\ CopyTypes /\ source \in Contents /\ PlainProgress
      /\ Len(source) \in Nat
  BY DEF CopyInv, CopyTypes, InLoop, Progress, Copies!ReadAndWrite, Contents
<1>2. position \in 0..Len(source) /\ written[1] = position
  BY <1>1 DEF PlainProgress
<1>3. Turn = 1 /\ Copies!Size = BUFFER_SIZE_1 /\ Copies!Enough = BUFFER_SIZE_1
  BY DEF Turn, Copies!FirstTurn, Copies!Size, Copies!Enough
<1>4. /\ PartLength = Copies!Smaller(BUFFER_SIZE_1, Len(source) - position)
      /\ PartLength \in 0..BUFFER_SIZE_1
  BY <1>1, <1>2, <1>3, BuffersAssumption DEF PartLength, Copies!Smaller
<1>5. \A k, c : Byte(1, k) = source[k] /\ Copies!Replaced(c) = c
  BY DEF Byte, Copies!Replaced
<1>6. Copies!Mark(PartLength) = <<>>
  BY DEF Copies!Mark
<1>7. \A j \in 1..PartLength :
        Byte(Turn, written[Turn] + j) = Copies!Replaced(source[position + j])
  BY <1>2, <1>3, <1>5
<1>8. \A j \in 1..Len(Copies!Mark(PartLength)) :
        Byte(Turn, written[Turn] + PartLength + j) = Copies!Mark(PartLength)[j]
  BY <1>6
<1>9. /\ CopyTypes' /\ FamilyOrder' /\ BeforeLoop' /\ InLoop'
      /\ UNCHANGED <<program, source>>
      /\ position' = position + PartLength
      /\ written' = [written EXCEPT ![1] = @ + PartLength + 0]
      /\ copier' = IF Copies!GoesOn(PartLength) THEN "read" ELSE "done"
  BY <1>2, <1>3, <1>6, <1>7, <1>8, RoundGoesOn
<1>10. written'[1] = position'
  BY <1>1, <1>2, <1>4, <1>9 DEF CopyTypes
<1>11. position' \in 0..Len(source)
  BY <1>1, <1>2, <1>4, <1>9, BuffersAssumption DEF Copies!Smaller
<1>12. copier' = "done" => position' = Len(source)
  <2>1. copier' = "done" => ~(PartLength >= BUFFER_SIZE_1)
    BY <1>3, <1>9 DEF Copies!GoesOn
  <2> QED BY <2>1, <1>1, <1>2, <1>4, <1>9, BuffersAssumption DEF Copies!Smaller
<1>13. PlainProgress'
  BY <1>9, <1>10, <1>11, <1>12 DEF PlainProgress
<1>14. Progress'
  BY <1>9, <1>13 DEF Progress
<1> QED BY <1>9, <1>14 DEF CopyInv

(* How many bytes the pieces take.                                         *)
LEMMA LengthOfPieces ==
  ASSUME source \in Contents, NEW q \in Nat, NEW r \in 0..(BUFFER_SIZE_1 - 1),
         Len(source) = q * BUFFER_SIZE_1 + r
  PROVE  Len(Copies!Pieces) = q * (BUFFER_SIZE_1 + 3) + (IF r = 0 THEN 0 ELSE r + 3)
<1> DEFINE b == BUFFER_SIZE_1
           n == Len(source)
           pieces == (n + b - 1) \div b
<1>1. b \in Nat /\ b > 0 /\ n \in Nat /\ r \in Nat /\ q * b \in Nat
  BY BuffersAssumption DEF Contents
<1>2. pieces = IF r = 0 THEN q ELSE q + 1
  <2>1. CASE r = 0
    <3>1. n + b - 1 = q * b + (b - 1) /\ b - 1 \in 0..(b - 1)
      BY <2>1, <1>1
    <3>2. (q * b + (b - 1)) \div b = q
      BY <3>1, <1>1, Quotient
    <3> QED BY <2>1, <3>1, <3>2
  <2>2. CASE r # 0
    <3>1. n + b - 1 = (q + 1) * b + (r - 1) /\ r - 1 \in 0..(b - 1) /\ q + 1 \in Nat
      BY <2>2, <1>1
    <3>2. ((q + 1) * b + (r - 1)) \div b = q + 1
      BY <3>1, <1>1, Quotient
    <3> QED BY <2>2, <3>1, <3>2
  <2> QED BY <2>1, <2>2
<1> HIDE DEF pieces
<1>3. n + 3 * pieces = q * (b + 3) + (IF r = 0 THEN 0 ELSE r + 3)
  BY <1>1, <1>2
<1>4. Len(Copies!Pieces) = n + 3 * pieces
  <2>1. n + 3 * pieces \in Nat
    BY <1>1, <1>2
  <2> QED BY <2>1 DEF Copies!Pieces, pieces
<1> QED BY <1>3, <1>4

LEMMA PiecesRead ==
  ASSUME CopyInv, Copies!ReadAndWrite, source # Copies!Directory, program = "cpXYZ"
  PROVE  CopyInv'
<1> DEFINE b == BUFFER_SIZE_1
           n == Len(source)
           m == PartLength
<1>1. /\ copier = "read" /\ CopyTypes /\ source \in Contents /\ PiecesProgress
      /\ n \in Nat /\ b \in Nat /\ b > 0
  BY BuffersAssumption
     DEF CopyInv, CopyTypes, InLoop, Progress, Copies!ReadAndWrite, Contents
<1>2. PICK q \in Nat : position = q * b /\ position <= n /\ written[1] = q * (b + 3)
  BY <1>1 DEF PiecesProgress
<1>3. /\ position \in 0..n /\ written[1] \in Nat /\ q * b \in Nat
  BY <1>1, <1>2 DEF CopyTypes
<1>4. Turn = 1 /\ Copies!Size = b /\ Copies!Enough = b
  BY DEF Turn, Copies!FirstTurn, Copies!Size, Copies!Enough
<1>5. /\ m = Copies!Smaller(b, n - q * b) /\ m \in 0..b
      /\ \A j \in 1..m : Byte(1, q * (b + 3) + j) = Copies!Changed(source[q * b + j], "1", "A")
      /\ \A j \in 1..3 : Byte(1, q * (b + 3) + m + j) = Copies!XYZ[j]
  <2>1. m = Copies!Smaller(b, n - q * b)
    BY <1>2, <1>4 DEF PartLength
  <2> HIDE DEF m
  <2> QED BY <2>1, <1>1, <1>2, ByteOfPiece
<1>6. \A c : Copies!Replaced(c) = Copies!Changed(c, "1", "A")
  BY DEF Copies!Replaced, Copies!Changed, Copies!FirstTurn
<1>7. \A j \in 1..m : Byte(Turn, written[Turn] + j) = Copies!Replaced(source[position + j])
  BY <1>2, <1>4, <1>5, <1>6
<1>8. Copies!Mark(m) = IF m = b THEN Copies!XYZ ELSE <<>>
  BY DEF Copies!Mark
<1>9. \A j \in 1..Len(Copies!Mark(m)) :
        Byte(Turn, written[Turn] + m + j) = Copies!Mark(m)[j]
  <2> HIDE DEF m
  <2>1. CASE m = b
    <3>1. Copies!Mark(m) = Copies!XYZ /\ Len(Copies!XYZ) = 3
      BY <2>1, <1>8, MarkIsContents
    <3> QED BY <3>1, <1>2, <1>4, <1>5
  <2>2. CASE m # b
    BY <2>2, <1>8
  <2> QED BY <2>1, <2>2
<1>10. /\ CopyTypes' /\ FamilyOrder' /\ BeforeLoop' /\ InLoop'
       /\ UNCHANGED <<program, source>>
       /\ position' = position + m
       /\ written' = [written EXCEPT ![1] = @ + m + Len(Copies!Mark(m))]
       /\ copier' = IF Copies!GoesOn(m) THEN "read"
                    ELSE IF m # 0 /\ Copies!Mark(m) = <<>> THEN "mark" ELSE "done"
  BY <1>3, <1>4, <1>7, <1>9, RoundGoesOn
<1> HIDE DEF m
<1>11. Copies!XYZ # <<>> /\ Len(Copies!XYZ) = 3 /\ Len(<<>>) = 0
  BY DEF Copies!XYZ
<1>12. Copies!GoesOn(m) <=> m = b
  BY <1>1, <1>4, <1>5 DEF Copies!GoesOn
<1>13. PiecesProgress'
  <2>0. m \in 0..b /\ (m = b => q * b + b <= n) /\ (m # b => n = q * b + m)
    <3>1. m = Copies!Smaller(b, n - q * b) /\ m \in 0..b
      BY <1>5
    <3> QED BY <3>1, <1>1, <1>2, <1>3 DEF Copies!Smaller
  <2>1. CASE m = b
    <3>1. copier' = "read"
      BY <2>1, <1>10, <1>12
    <3>2. /\ q + 1 \in Nat
          /\ (q + 1) * b = q * b + b
          /\ (q + 1) * (b + 3) = q * (b + 3) + (b + 3)
      BY <1>1
    <3>3. position' = (q + 1) * b /\ position' <= n
      BY <2>0, <2>1, <3>2, <1>1, <1>2, <1>3, <1>10
    <3>4. written'[1] = (q + 1) * (b + 3)
      <4>1. Len(Copies!Mark(m)) = 3
        BY <2>1, <1>8, <1>11
      <4>2. written'[1] = written[1] + m + 3
        BY <4>1, <1>1, <1>10 DEF CopyTypes
      <4> QED BY <2>1, <3>2, <4>2, <1>1, <1>2, <1>3
    <3> QED BY <3>1, <3>2, <3>3, <3>4, <1>10 DEF PiecesProgress
  <2>2. CASE m # b
    <3>1. /\ n = q * b + m /\ m \in 0..(b - 1)
      BY <2>0, <2>2, <1>1
    <3>2. written'[1] = q * (b + 3) + m
      BY <2>2, <1>1, <1>2, <1>3, <1>5, <1>8, <1>10, <1>11 DEF CopyTypes
    <3>3. CASE m = 0
      <4>1. copier' = "done"
        BY <2>2, <3>3, <1>10, <1>12
      <4>2. Len(Copies!Pieces) = q * (b + 3) + 0
        BY <3>1, <3>3, <1>1, LengthOfPieces
      <4>3. Copies!Pieces' = Copies!Pieces
        BY <1>10 DEF Copies!Pieces, Copies!PieceByte, Copies!Changed, Copies!Smaller
      <4> QED BY <4>1, <4>2, <4>3, <3>2, <3>3 DEF PiecesProgress
    <3>4. CASE m # 0
      <4>1. copier' = "mark"
        BY <2>2, <3>4, <1>8, <1>10, <1>12
      <4>2. m \in 1..(b - 1)
        BY <3>1, <3>4
      <4> QED BY <4>1, <4>2, <3>1, <3>2, <1>10 DEF PiecesProgress
    <3> QED BY <3>3, <3>4
  <2> QED BY <2>1, <2>2
<1>14. Progress'
  BY <1>10, <1>13 DEF Progress
<1> QED BY <1>10, <1>14 DEF CopyInv

(* The marker at the very end is that of the last piece.                   *)
LEMMA MarkKeeps == CopyInv /\ Copies!MarkTheEnd => CopyInv'
<1> SUFFICES ASSUME CopyInv, Copies!MarkTheEnd PROVE CopyInv'
  OBVIOUS
<1> DEFINE b == BUFFER_SIZE_1
           n == Len(source)
<1>1. /\ copier = "mark" /\ copier' = "done" /\ CopyTypes
      /\ source \in Contents /\ source # Copies!Directory
      /\ file' = Copies!Over(1, Copies!XYZ)
      /\ written' = [written EXCEPT ![1] = @ + 3]
      /\ UNCHANGED <<program, source, before, copier_parent, child1, position, reads>>
  BY DEF CopyInv, CopyTypes, InLoop, Copies!MarkTheEnd, Copies!input, Copies!family
<1>2. program = "cpXYZ" /\ PiecesProgress
  BY <1>1 DEF CopyInv, Progress, SharesProgress, PlainProgress
<1>3. PICK q \in Nat : \E r \in 1..(b - 1) :
        n = q * b + r /\ written[1] = q * (b + 3) + r
  BY <1>1, <1>2 DEF PiecesProgress
<1>4. PICK r \in 1..(b - 1) : n = q * b + r /\ written[1] = q * (b + 3) + r
  BY <1>3
<1>5. b \in Nat /\ b > 0 /\ n \in Nat /\ r \in Nat /\ q * b \in Nat /\ q * (b + 3) \in Nat
  BY <1>1, BuffersAssumption DEF Contents
<1>6. \A j \in 1..3 : Byte(1, written[1] + j) = Copies!XYZ[j]
  <2>1. r = Copies!Smaller(b, n - q * b) /\ q * b <= n
    BY <1>4, <1>5 DEF Copies!Smaller
  <2>2. \A j \in 1..3 : Byte(1, q * (b + 3) + r + j) = Copies!XYZ[j]
    BY <2>1, <1>1, <1>2, <1>5, ByteOfPiece
  <2> QED BY <2>2, <1>4
<1>7. file[1] # Copies!Absent /\ file[1] = WrittenOver(1, written[1])
  BY <1>1, <1>2 DEF CopyInv, InLoop, Copies!Targets
<1>8. /\ file'[1] = WrittenOver(1, written[1] + 3)
      /\ file' \in [1..2 -> Contents \cup {Copies!Absent}]
      /\ file'[1] # Copies!Absent
  <2>1. Copies!XYZ \in Contents /\ Len(Copies!XYZ) = 3
    BY MarkIsContents
  <2>2. \A j \in 1..Len(Copies!XYZ) : Copies!XYZ[j] = Byte(1, written[1] + j)
    BY <2>1, <1>6
  <2>3. /\ file'[1] = WrittenOver(1, written[1] + Len(Copies!XYZ))
        /\ file' \in [1..2 -> Contents \cup {Copies!Absent}]
        /\ file'[1] # Copies!Absent
    <3>1. 1 \in 1..2
      OBVIOUS
    <3> QED BY <3>1, <2>1, <2>2, <1>1, <1>7, WriteGoesOn
  <2> QED BY <2>1, <2>3
<1>9. written' \in [1..2 -> Nat] /\ written'[1] = written[1] + 3
  BY <1>1 DEF CopyTypes
<1>10. CopyTypes' /\ FamilyOrder' /\ BeforeLoop'
  BY <1>1, <1>2, <1>8, <1>9 DEF CopyInv, CopyTypes, FamilyOrder, BeforeLoop
<1>11. WrittenOver(1, written[1])' = WrittenOver(1, written'[1])
  BY <1>1 DEF WrittenOver, Old, Byte, Copies!ShareByte, Copies!PieceByte,
     Copies!Round, Copies!Changed, Copies!Smaller
<1>12. InLoop'
  BY <1>1, <1>2, <1>8, <1>9, <1>11 DEF CopyInv, InLoop, Copies!Targets
<1>13. Progress'
  <2>1. Len(Copies!Pieces) = q * (b + 3) + (r + 3)
    <3>1. r \in 0..(b - 1) /\ r # 0
      BY <1>5
    <3> QED BY <3>1, <1>1, <1>4, LengthOfPieces
  <2>2. Copies!Pieces' = Copies!Pieces
    BY <1>1 DEF Copies!Pieces, Copies!PieceByte, Copies!Changed, Copies!Smaller
  <2>3. written'[1] = Len(Copies!Pieces')
    BY <2>1, <2>2, <1>4, <1>5, <1>9
  <2> QED BY <2>3, <1>1, <1>2 DEF Progress, PiecesProgress
<1> QED BY <1>10, <1>12, <1>13 DEF CopyInv

(* How many bytes fall to each share.                                      *)
LEMMA LengthOfShares ==
  ASSUME source \in Contents, NEW q \in Nat, NEW r \in 0..(Copies!Round - 1),
         Len(source) = q * Copies!Round + r
  PROVE  /\ Copies!ShareOf(1) = q * BUFFER_SIZE_1 + Copies!Smaller(r, BUFFER_SIZE_1)
         /\ Copies!ShareOf(2) = q * BUFFER_SIZE_2 + r - Copies!Smaller(r, BUFFER_SIZE_1)
<1>1. Copies!Round \in Nat /\ Copies!Round > 0
  BY BuffersAssumption DEF Copies!Round
<1>2. Len(source) \div Copies!Round = q /\ Len(source) % Copies!Round = r
  BY <1>1, Quotient
<1> QED BY <1>2 DEF Copies!ShareOf

(* What is left of n bytes after p, up to b of them.                       *)
LEMMA PartOfRest ==
  ASSUME NEW b \in Nat, NEW n \in Nat, NEW p \in 0..n
  PROVE  LET m == Copies!Smaller(b, n - p)
         IN  m \in 0..b /\ p + m <= n /\ (m < b => p + m = n)
BY DEF Copies!Smaller

LEMMA FirstShareRead ==
  ASSUME CopyInv, Copies!ReadAndWrite, source # Copies!Directory,
         program = "split", reads = 0
  PROVE  CopyInv'
<1> DEFINE b == BUFFER_SIZE_1
           c == BUFFER_SIZE_2
           k == Copies!Round
           n == Len(source)
           m == PartLength
<1>1. /\ copier = "read" /\ CopyTypes /\ source \in Contents /\ SharesProgress
      /\ n \in Nat /\ b \in Nat /\ c \in Nat /\ c > 0 /\ c <= b /\ k = b + c
  BY BuffersAssumption DEF CopyInv, CopyTypes, InLoop, Progress,
     Copies!ReadAndWrite, Copies!Round, Contents
<1>2. PICK q \in Nat : /\ position = q * k /\ position <= n
                       /\ written[1] = q * b /\ written[2] = q * c
  BY <1>1 DEF SharesProgress
<1>3. /\ position \in 0..n /\ q * k \in Nat /\ q * b \in Nat /\ q * c \in Nat
  BY <1>1, <1>2 DEF CopyTypes
<1>4. Turn = 1 /\ Copies!Size = b /\ Copies!Enough = c
  BY DEF Turn, Copies!FirstTurn, Copies!Size, Copies!Enough
<1>5. m = Copies!Smaller(b, n - position)
  BY <1>4 DEF PartLength
<1>6. m \in 0..b /\ q * k + m <= n /\ (m < b => q * k + m = n)
  <2> HIDE DEF m, n, k, b
  <2>1. m \in 0..b /\ position + m <= n /\ (m < b => position + m = n)
    BY <1>1, <1>3, <1>5, PartOfRest
  <2>2. position = q * k
    BY <1>2
  <2> QED BY <2>1, <2>2
<1>7. \A x : Copies!Replaced(x) = Copies!Changed(x, "1", "A")
  BY DEF Copies!Replaced, Copies!Changed, Copies!FirstTurn
<1>8. Copies!Mark(m) = <<>>
  BY DEF Copies!Mark
<1>9. \A j \in 1..m : Byte(Turn, written[Turn] + j) = Copies!Replaced(source[position + j])
  <2> HIDE DEF m
  <2>1. \A j \in 1..b : Byte(1, q * b + j) = Copies!Changed(source[q * k + j], "1", "A")
    BY ByteOfShare
  <2>2. \A j \in 1..m : j \in 1..b
    BY <1>1, <1>6
  <2> QED BY <2>1, <2>2, <1>2, <1>4, <1>7
<1>10. /\ CopyTypes' /\ FamilyOrder' /\ BeforeLoop' /\ InLoop'
       /\ UNCHANGED <<program, source>>
       /\ position' = position + m
       /\ written' = [written EXCEPT ![1] = @ + m + 0]
       /\ copier' = IF Copies!GoesOn(m) THEN "read" ELSE "done"
       /\ reads' = (reads + 1) % 2
  <2>1. \A j \in 1..Len(Copies!Mark(m)) :
          Byte(Turn, written[Turn] + m + j) = Copies!Mark(m)[j]
    BY <1>8
  <2> QED BY <2>1, <1>3, <1>4, <1>8, <1>9, RoundGoesOn
<1> HIDE DEF m
<1>11. /\ reads' = 1 /\ written'[1] = q * b + m /\ written'[2] = q * c
       /\ position' = q * k + m
  BY <1>1, <1>2, <1>3, <1>6, <1>10 DEF CopyTypes
<1>12. Copies!GoesOn(m) <=> m >= c
  BY <1>1, <1>4, <1>6 DEF Copies!GoesOn
<1>13. k' = k /\ \A f \in 1..2 : Copies!ShareOf(f)' = Copies!ShareOf(f)
  BY <1>10 DEF Copies!Round, Copies!ShareOf, Copies!Smaller
<1>14. SharesProgress'
  <2>1. CASE m >= c
    <3>1. copier' = "read" /\ m \in c..b
      BY <2>1, <1>1, <1>6, <1>10, <1>12
    <3>2. /\ position' = q * k' + m /\ position' <= Len(source')
          /\ m < b => position' = Len(source')
      BY <1>6, <1>10, <1>11, <1>13
    <3> QED BY <3>1, <3>2, <1>11 DEF SharesProgress
  <2>2. CASE ~(m >= c)
    <3>1. copier' = "done"
      BY <2>2, <1>10, <1>12
    <3>2. n = q * k + m /\ m \in 0..(k - 1) /\ Copies!Smaller(m, b) = m
      BY <2>2, <1>1, <1>6 DEF Copies!Smaller
    <3>3. Copies!ShareOf(1) = q * b + m /\ Copies!ShareOf(2) = q * c
      <4>1. Copies!ShareOf(1) = q * b + m /\ Copies!ShareOf(2) = q * c + m - m
        BY <3>2, <1>1, LengthOfShares
      <4> QED BY <4>1, <1>3, <1>6
    <3> QED BY <3>1, <3>3, <1>11, <1>13 DEF SharesProgress
  <2> QED BY <2>1, <2>2
<1>15. Progress'
  BY <1>10, <1>14 DEF Progress
<1> QED BY <1>10, <1>15 DEF CopyInv

LEMMA SecondShareRead ==
  ASSUME CopyInv, Copies!ReadAndWrite, source # Copies!Directory,
         program = "split", reads = 1
  PROVE  CopyInv'
<1> DEFINE b == BUFFER_SIZE_1
           c == BUFFER_SIZE_2
           k == Copies!Round
           n == Len(source)
           m == PartLength
<1>1. /\ copier = "read" /\ CopyTypes /\ source \in Contents /\ SharesProgress
      /\ n \in Nat /\ b \in Nat /\ c \in Nat /\ c > 0 /\ c <= b /\ k = b + c
  BY BuffersAssumption DEF CopyInv, CopyTypes, InLoop, Progress,
     Copies!ReadAndWrite, Copies!Round, Contents
<1>2. PICK q \in Nat :
        /\ written[2] = q * c
        /\ reads = 1 =>
             \E r \in c..b : /\ position = q * k + r /\ position <= n
                             /\ r < b => position = n
                             /\ written[1] = q * b + r
  BY <1>1 DEF SharesProgress
<1>3. PICK r \in c..b : /\ position = q * k + r /\ position <= n
                        /\ r < b => position = n
                        /\ written[1] = q * b + r
  <2> HIDE DEF b, c, k, n
  <2> QED BY <1>2
<1>4. /\ position \in 0..n /\ q * k \in Nat /\ q * b \in Nat /\ q * c \in Nat
      /\ r \in Nat /\ r <= b
  BY <1>1, <1>2, <1>3 DEF CopyTypes
<1>5. Turn = 2 /\ Copies!Size = c /\ Copies!Enough = c
  BY DEF Turn, Copies!FirstTurn, Copies!Size, Copies!Enough
<1>6. m = Copies!Smaller(c, n - position)
  BY <1>5 DEF PartLength
<1>7. /\ m \in 0..c /\ position + m <= n /\ (m < c => position + m = n)
      /\ r < b => m = 0
  <2> HIDE DEF m, n, b, c
  <2>1. m \in 0..c /\ position + m <= n /\ (m < c => position + m = n)
    BY <1>1, <1>4, <1>6, PartOfRest
  <2>2. ASSUME r < b PROVE m = 0
    <3>1. position = n
      BY <2>2, <1>3
    <3>2. m \in Nat /\ n + m <= n
      BY <3>1, <2>1, <1>1
    <3> QED BY <3>2, <1>1
  <2> QED BY <2>1, <2>2
<1>8. \A x : Copies!Replaced(x) = Copies!Changed(x, "2", "B")
  BY DEF Copies!Replaced, Copies!Changed, Copies!FirstTurn
<1>9. Copies!Mark(m) = <<>>
  BY DEF Copies!Mark
<1>10. \A j \in 1..m : Byte(Turn, written[Turn] + j) = Copies!Replaced(source[position + j])
  <2> HIDE DEF m
  <2> SUFFICES ASSUME NEW j \in 1..m
               PROVE  Byte(2, q * c + j) = Copies!Changed(source[position + j], "2", "B")
    BY <1>2, <1>5, <1>8
  <2>1. r = b /\ j \in 1..c
    BY <1>1, <1>4, <1>7
  <2>2. Byte(2, q * c + j) = Copies!Changed(source[q * k + b + j], "2", "B")
    BY <2>1, ByteOfShare
  <2> QED BY <2>1, <2>2, <1>3
<1>11. /\ CopyTypes' /\ FamilyOrder' /\ BeforeLoop' /\ InLoop'
       /\ UNCHANGED <<program, source>>
       /\ position' = position + m
       /\ written' = [written EXCEPT ![2] = @ + m + 0]
       /\ copier' = IF Copies!GoesOn(m) THEN "read" ELSE "done"
       /\ reads' = (reads + 1) % 2
  <2>1. \A j \in 1..Len(Copies!Mark(m)) :
          Byte(Turn, written[Turn] + m + j) = Copies!Mark(m)[j]
    BY <1>9
  <2> QED BY <2>1, <1>4, <1>5, <1>9, <1>10, RoundGoesOn
<1> HIDE DEF m
<1>12. /\ reads' = 0 /\ written'[1] = q * b + r /\ written'[2] = q * c + m
       /\ position' = q * k + r + m
  BY <1>1, <1>2, <1>3, <1>4, <1>7, <1>11 DEF CopyTypes
<1>13. Copies!GoesOn(m) <=> m = c
  BY <1>1, <1>5, <1>7 DEF Copies!GoesOn
<1>14. k' = k /\ \A f \in 1..2 : Copies!ShareOf(f)' = Copies!ShareOf(f)
  BY <1>11 DEF Copies!Round, Copies!ShareOf, Copies!Smaller
<1>15. SharesProgress'
  <2>1. CASE m = c
    <3>1. copier' = "read" /\ r = b
      BY <2>1, <1>1, <1>4, <1>7, <1>11, <1>13
    <3>2. /\ q + 1 \in Nat /\ (q + 1) * k = q * k + k
          /\ (q + 1) * b = q * b + b /\ (q + 1) * c = q * c + c
      BY <1>1
    <3>3. /\ position' = (q + 1) * k' /\ position' <= Len(source')
          /\ written'[1] = (q + 1) * b /\ written'[2] = (q + 1) * c
      BY <2>1, <3>1, <3>2, <1>1, <1>3, <1>4, <1>7, <1>11, <1>12, <1>14
    <3> QED BY <3>1, <3>2, <3>3, <1>12 DEF SharesProgress
  <2>2. CASE m # c
    <3>1. copier' = "done"
      BY <2>2, <1>11, <1>13
    <3>2. /\ n = q * k + (r + m) /\ r + m \in 0..(k - 1)
          /\ Copies!Smaller(r + m, b) = r
      BY <2>2, <1>1, <1>3, <1>4, <1>7 DEF Copies!Smaller
    <3>3. Copies!ShareOf(1) = q * b + r /\ Copies!ShareOf(2) = q * c + m
      <4>1. Copies!ShareOf(1) = q * b + r /\ Copies!ShareOf(2) = q * c + (r + m) - r
        BY <3>2, <1>1, LengthOfShares
      <4> QED BY <4>1, <1>4, <1>7
    <3> QED BY <3>1, <3>3, <1>12, <1>14 DEF SharesProgress
  <2> QED BY <2>1, <2>2
<1>16. Progress'
  BY <1>11, <1>15 DEF Progress
<1> QED BY <1>11, <1>16 DEF CopyInv

LEMMA CopyStep == CopyInv /\ [Copies!Next]_(Copies!vars) => CopyInv'
<1> SUFFICES ASSUME CopyInv, [Copies!Next]_(Copies!vars) PROVE CopyInv'
  OBVIOUS
<1>1. CASE Copies!ParentStep
  BY <1>1, ParentKeeps
<1>2. CASE Copies!Child1Step
  BY <1>2, CreateKeeps DEF Copies!Child1Step
<1>3. CASE Copies!Refuse
  BY <1>3, RefuseKeeps
<1>4. CASE Copies!CopierStep
  <2>1. CASE Copies!Open
    BY <2>1, OpenKeeps
  <2>2. CASE Copies!OpenSecond
    BY <2>2, OpenSecondKeeps
  <2>3. CASE Copies!ReadAndWrite
    <3>1. reads \in {0, 1}
      BY DEF CopyInv, CopyTypes
    <3> QED BY <2>3, <3>1, DirectoryKeeps, PlainRead, PiecesRead, FirstShareRead,
            SecondShareRead
  <2>4. CASE Copies!MarkTheEnd
    BY <2>4, MarkKeeps
  <2> QED BY <1>4, <2>1, <2>2, <2>3, <2>4 DEF Copies!CopierStep
<1>5. CASE UNCHANGED Copies!vars
  <2>1. UNCHANGED <<program, source, before, file, copier_parent, child1, copier,
                    position, written, reads>>
    BY <1>5 DEF Copies!vars
  <2>2. CopyTypes' /\ FamilyOrder'
    BY <2>1 DEF CopyInv, CopyTypes, FamilyOrder
  <2>3. BeforeLoop'
    <3>1. \A f \in 1..2 : Copies!Untouched(f)' = Copies!Untouched(f)
      BY <2>1 DEF Copies!Untouched, Copies!Absent
    <3> QED BY <2>1, <3>1 DEF CopyInv, BeforeLoop
  <2>4. InLoop'
    <3>1. \A f, k : Byte(f, k)' = Byte(f, k)
      BY <2>1 DEF Byte, Copies!ShareByte, Copies!PieceByte, Copies!Round,
         Copies!Changed, Copies!Smaller
    <3>2. \A f : Old(f)' = Old(f)
      BY <2>1 DEF Old
    <3>3. \A f : WrittenOver(f, written[f])' = WrittenOver(f, written[f])
      BY <2>1, <3>1, <3>2 DEF WrittenOver
    <3>4. Copies!Targets' = Copies!Targets
      BY <2>1 DEF Copies!Targets
    <3> QED BY <2>1, <3>3, <3>4 DEF CopyInv, InLoop
  <2>5. Progress'
    BY <2>1 DEF CopyInv, Progress, SharesProgress, PiecesProgress, PlainProgress,
       Copies!Round, Copies!ShareOf, Copies!Pieces, Copies!PieceByte,
       Copies!Changed, Copies!Smaller
  <2> QED BY <2>2, <2>3, <2>4, <2>5 DEF CopyInv
<1> QED BY <1>1, <1>2, <1>3, <1>4, <1>5 DEF Copies!Next

(* All that is expected has been written, and the old tail is behind it.   *)
LEMMA WholeCopy ==
  ASSUME CopyInv, copier = "done", NEW f \in Copies!Targets
  PROVE  file[f] = Copies!Expected(f)
           \o SubSeq(Old(f), Len(Copies!Expected(f)) + 1, Len(Old(f)))
<1> DEFINE e == Copies!Expected(f)
           w == written[f]
           o == Old(f)
           t == SubSeq(o, Len(e) + 1, Len(o))
<1>1. /\ CopyTypes /\ f \in 1..2 /\ source \in Contents /\ source # Copies!Directory
      /\ file[f] = WrittenOver(f, w) /\ w \in Nat /\ o \in Contents
      /\ file[f] # Copies!Absent
  BY TurnIsTarget, OldIsContents DEF CopyInv, CopyTypes, InLoop
<1>2. e = [k \in 1..w |-> Byte(f, k)]
  <2>1. CASE program = "split"
    <3>1. w = Copies!ShareOf(f)
      BY <2>1, <1>1 DEF CopyInv, Progress, SharesProgress
    <3> QED BY <2>1, <3>1 DEF Copies!Expected, Copies!Share, Byte
  <2>2. CASE program = "cpXYZ"
    <3>1. f = 1 /\ w = Len(Copies!Pieces)
      BY <2>2, <1>1 DEF CopyInv, Progress, PiecesProgress, Copies!Targets
    <3>2. \E l \in Nat : Copies!Pieces = [k \in 1..l |-> Copies!PieceByte(k)]
      <4> DEFINE b == BUFFER_SIZE_1
                 n == Len(source)
      <4>1. b \in Nat /\ b > 0 /\ n + b - 1 \in Nat /\ n \in Nat
        BY <1>1, BuffersAssumption DEF Contents
      <4>2. (n + b - 1) \div b \in Nat
        BY <4>1
      <4>3. n + 3 * ((n + b - 1) \div b) \in Nat
        BY <4>1, <4>2
      <4> QED BY <4>3 DEF Copies!Pieces
    <3>3. Copies!Pieces = [k \in 1..w |-> Copies!PieceByte(k)]
      BY <3>1, <3>2
    <3> QED BY <2>2, <3>3 DEF Copies!Expected, Byte
  <2>3. CASE program \notin {"split", "cpXYZ"}
    <3>1. f = 1 /\ w = Len(source)
      BY <2>3, <1>1 DEF CopyInv, Progress, PlainProgress, Copies!Targets
    <3>2. source = [k \in 1..w |-> source[k]]
      BY <3>1, <1>1 DEF Contents
    <3> QED BY <2>3, <3>2 DEF Copies!Expected, Byte
  <2> QED BY <2>1, <2>2, <2>3
<1>3. /\ file[f] \in Contents
      /\ Len(file[f]) = Larger(w, Len(o))
      /\ \A k \in 1..Len(file[f]) : file[f][k] = IF k <= w THEN Byte(f, k) ELSE o[k]
  BY <1>1 DEF CopyTypes, WrittenOver, Larger, Contents
<1>4. e \in Contents /\ Len(e) = w
  <2>1. \A k \in 1..w : Byte(f, k) \in Characters
    <3>1. \A k \in 1..w : k \in 1..Len(file[f]) /\ file[f][k] = Byte(f, k)
      BY <1>1, <1>3 DEF Larger, Contents
    <3> QED BY <3>1, <1>3 DEF Contents
  <2> QED BY <2>1, <1>1, <1>2 DEF Contents
<1>5. /\ t \in Contents /\ Len(t) = IF w <= Len(o) THEN Len(o) - w ELSE 0
      /\ \A k \in 1..Len(t) : t[k] = o[w + k]
  <2> HIDE DEF o, e
  <2> QED BY <1>1, <1>4 DEF Contents
<1> HIDE DEF t, e, w, o
<1>6. /\ e \o t \in Contents /\ Len(e \o t) = w + Len(t)
      /\ \A k \in 1..(w + Len(t)) : (e \o t)[k] = IF k <= w THEN e[k] ELSE t[k - w]
  <2>1. e \in Seq(Characters) /\ t \in Seq(Characters)
    BY <1>4, <1>5 DEF Contents
  <2> QED BY <2>1, <1>4, ConcatProperties DEF Contents
<1>7. Len(o) \in Nat /\ Len(t) \in Nat
  BY <1>1, <1>5 DEF Contents
<1>8. w + Len(t) = Larger(w, Len(o))
  <2>1. CASE w <= Len(o)
    BY <2>1, <1>1, <1>5, <1>7 DEF Larger
  <2>2. CASE ~(w <= Len(o))
    <3>1. Len(t) = 0
      BY <2>2, <1>5
    <3>2. w > Len(o)
      BY <2>2, <1>1, <1>7
    <3> QED BY <3>1, <3>2, <1>1 DEF Larger
  <2> QED BY <2>1, <2>2
<1>9. ASSUME NEW k \in 1..Len(file[f]) PROVE file[f][k] = (e \o t)[k]
  <2>1. k \in 1..(w + Len(t)) /\ k \in Nat
    BY <1>3, <1>8
  <2>2. CASE k <= w
    <3>1. k \in 1..w
      BY <2>1, <2>2, <1>1
    <3> QED BY <3>1, <2>1, <2>2, <1>2, <1>3, <1>6
  <2>3. CASE ~(k <= w)
    <3>1. k - w \in 1..Len(t) /\ w + (k - w) = k
      BY <2>1, <2>3, <1>1, <1>7
    <3> QED BY <3>1, <2>1, <2>3, <1>3, <1>5, <1>6
  <2> QED BY <2>2, <2>3
<1>10. file[f] = e \o t
  <2>1. Len(file[f]) = Len(e \o t)
    BY <1>3, <1>6, <1>8
  <2>2. file[f] \in Seq(Characters) /\ e \o t \in Seq(Characters)
    BY <1>3, <1>6 DEF Contents
  <2>3. \A k \in 1..Len(file[f]) : file[f][k] = (e \o t)[k]
    BY <1>9
  <2> QED BY <2>1, <2>2, <2>3, SeqEqual
<1> QED BY <1>10 DEF t, e, o

(* Every byte gets to its destination, for buffers of any size of which    *)
(* the second is no larger than the first, sources and destinations of any *)
(* length, and however the family of Prcs_P2 takes turns.                  *)
(* (3.c:78-104, 2.c:80-83, displaycontent.c:72-78, Prcs_P2.c:26-92)        *)
THEOREM CopiesAreComplete == CopiesSpec => []CopiedInTurns
<1>1. CopyInv => CopiedInTurns
  <2> SUFFICES ASSUME CopyInv PROVE CopiedInTurns
    OBVIOUS
  <2>1. ASSUME copier = "done", NEW f \in Copies!Targets
        PROVE  LET old == IF before[f] = Copies!Absent THEN <<>> ELSE before[f]
               IN  file[f] = Copies!Expected(f)
                     \o SubSeq(old, Len(Copies!Expected(f)) + 1, Len(old))
    BY <2>1, WholeCopy DEF Old
  <2>2. ASSUME copier \in {"refused", "unborn"}, NEW f \in Copies!Targets
        PROVE  Copies!Untouched(f)
    BY <2>2, TurnIsTarget DEF CopyInv, BeforeLoop
  <2> QED BY <2>1, <2>2 DEF CopiedInTurns, Copies!CopiedInTurns
<1> QED BY <1>1, CopyInit, CopyStep, PTL DEF CopiesSpec, Copies!Spec

-------------------------------------------------------------------------------
(* The figures of a list.                                                  *)

(* How often x is among the first m of the numbers s.                      *)
Occ(s, x, m) == Cardinality({k \in 1..m : s[k] = x})

Size == Len(entered)

Call    == [low : Int, high : Int]
Parting == [low : Int, high : Int, i : Int, j : Int]

FigureTypes ==
  /\ entered \in Seq(Int) /\ entered # <<>>
  /\ nums \in Seq(Int) /\ Len(nums) = Size
  /\ stage \in {"scan", "sort", "partition", "walk", "done"}
  /\ index \in 2..(Size + 1)
  /\ figures \in [smallest : Int, largest : Int, sum : Int, average : Int]
  /\ calls \in Seq(Call)
  /\ part \in Parting
  /\ most \in [num : Int, count : Int, temp : Int]

(* Sorting loses no number and invents none.                               *)
Permuted == \A x \in Int : Occ(nums, x, Size) = Occ(entered, x, Size)

(* The figures are those of the numbers scanned so far.                    *)
SoFar == IF stage = "scan" THEN index - 1 ELSE Size

Scanned ==
  /\ \E k \in 1..SoFar : figures.smallest = entered[k]
  /\ \E k \in 1..SoFar : figures.largest = entered[k]
  /\ \A k \in 1..SoFar : figures.smallest <= entered[k] /\ entered[k] <= figures.largest
  /\ figures.sum = Figures!PartialSums[SoFar]
  /\ stage = "scan" => nums = entered
  /\ stage # "scan" => figures.average = Figures!Quotient(figures.sum, Size)

(* The parts that are still to be sorted follow each other, and the one    *)
(* that is being parted comes before them.                                 *)
Ranges ==
  /\ \A k \in 1..Len(calls) :
       /\ 1 <= calls[k].low /\ calls[k].low <= calls[k].high + 1
       /\ calls[k].high <= Size
       /\ \A l \in 1..Len(calls) : k < l => calls[k].high < calls[l].low
       /\ stage = "partition" => part.high < calls[k].low
  /\ stage = "partition" =>
       /\ 1 <= part.low /\ part.low < part.high /\ part.high <= Size
       /\ part.low - 1 <= part.i /\ part.i < part.j /\ part.j <= part.high

(* Two numbers that are not in order are in one part.                      *)
Together(a, b) ==
  \/ \E k \in 1..Len(calls) : calls[k].low <= a /\ b <= calls[k].high
  \/ stage = "partition" /\ part.low <= a /\ b <= part.high

SortedBut ==
  stage \in {"sort", "partition"} =>
    \A a \in 1..Size : \A b \in 1..Size :
      a < b => nums[a] <= nums[b] \/ Together(a, b)

(* The pivot is between those that have been moved and those that have not.*)
Parted ==
  stage = "partition" =>
    /\ \A k \in part.low..part.i : nums[k] <= nums[part.high]
    /\ \A k \in (part.i + 1)..(part.j - 1) : nums[part.high] <= nums[k]

InOrderNow ==
  stage \in {"walk", "done"} =>
    \A a \in 1..Size : \A b \in 1..Size : a < b => nums[a] <= nums[b]

(* No more than two numbers occur more than once.                          *)
AtMostTwo ==
  \A x \in Int : \A y \in Int : \A z \in Int :
    x # y /\ x # z /\ y # z =>
      \/ Occ(nums, x, Size) <= 1 \/ Occ(nums, y, Size) <= 1 \/ Occ(nums, z, Size) <= 1

(* The walk: temp is no less than the length of the run it is in, unless   *)
(* that is the run of the most frequent number; and if only two numbers are*)
(* repeated, then it is the count of the other one.                        *)
Counted ==
  stage \in {"walk", "done"} =>
    LET m == index - 1
    IN  /\ \E k \in 1..m : most.num = nums[k]
        /\ 1 <= most.temp /\ most.temp <= most.count
        /\ \A x \in Int : Occ(nums, x, m) <= most.count
        /\ nums[m] # most.num => Occ(nums, nums[m], m) <= most.temp
        /\ AtMostTwo =>
             /\ most.count = Occ(nums, most.num, m)
             /\ most.temp > 1 =>
                  \E x \in Int : x # most.num /\ Occ(nums, x, m) = most.temp
        /\ stage = "done" => index = Size + 1

FigureInv ==
  /\ FigureTypes /\ Permuted /\ Scanned /\ Ranges /\ SortedBut /\ Parted
  /\ InOrderNow /\ Counted

-------------------------------------------------------------------------------
(* One more number is looked at.                                           *)
LEMMA OccNext ==
  ASSUME NEW s, NEW x, NEW m \in Nat
  PROVE  /\ Occ(s, x, m) \in Nat
         /\ Occ(s, x, m + 1) = Occ(s, x, m) + IF s[m + 1] = x THEN 1 ELSE 0
<1> DEFINE S == {k \in 1..m : s[k] = x}
           T == {k \in 1..(m + 1) : s[k] = x}
<1>1. IsFiniteSet(S) /\ m + 1 \notin S
  <2>1. IsFiniteSet(1..m) /\ S \in SUBSET (1..m)
    BY FS_Interval
  <2> QED BY <2>1, FS_Subset
<1>2. CASE s[m + 1] = x
  <2>1. T = S \cup {m + 1}
    BY <1>2
  <2> HIDE DEF S, T
  <2>2. Cardinality(T) = Cardinality(S) + 1 /\ Cardinality(S) \in Nat
    BY <1>1, <2>1, FS_AddElement, FS_CardinalityType
  <2> QED BY <1>2, <2>2 DEF Occ, S, T
<1>3. CASE s[m + 1] # x
  <2>1. T = S
    BY <1>3
  <2> HIDE DEF S, T
  <2>2. Cardinality(S) \in Nat
    BY <1>1, FS_CardinalityType
  <2> QED BY <1>3, <2>1, <2>2 DEF Occ, S, T
<1> QED BY <1>2, <1>3

LEMMA OccZero ==
  ASSUME NEW s, NEW x, NEW m \in Nat, \A k \in 1..m : s[k] # x
  PROVE  Occ(s, x, m) = 0
<1>1. {k \in 1..m : s[k] = x} = {}
  OBVIOUS
<1> QED BY <1>1, FS_EmptySet DEF Occ

LEMMA OccSome ==
  ASSUME NEW s, NEW x, NEW m \in Nat, Occ(s, x, m) # 0
  PROVE  \E k \in 1..m : s[k] = x
BY OccZero

LEMMA OccPositive ==
  ASSUME NEW s, NEW x, NEW m \in Nat, NEW k \in 1..m, s[k] = x
  PROVE  Occ(s, x, m) >= 1
<1> DEFINE S == {j \in 1..m : s[j] = x}
<1>1. IsFiniteSet(1..m) /\ S \in SUBSET (1..m) /\ k \in S
  BY FS_Interval
<1> HIDE DEF S
<1>2. IsFiniteSet(S)
  BY <1>1, FS_Subset
<1>3. Cardinality(S) \in Nat /\ Cardinality(S) # 0
  BY <1>1, <1>2, FS_CardinalityType, FS_EmptySet
<1> QED BY <1>3 DEF Occ, S

(* The more is looked at, the more is found.                               *)
LEMMA OccMonotone ==
  ASSUME NEW s, NEW x, NEW m \in Nat, NEW n \in Nat, m <= n
  PROVE  Occ(s, x, m) <= Occ(s, x, n)
<1> DEFINE S == {k \in 1..m : s[k] = x}
           T == {k \in 1..n : s[k] = x}
<1>1. IsFiniteSet(1..n) /\ T \in SUBSET (1..n) /\ S \in SUBSET T
  BY FS_Interval
<1> HIDE DEF S, T
<1>2. IsFiniteSet(T)
  BY <1>1, FS_Subset
<1>3. Cardinality(S) <= Cardinality(T)
  BY <1>1, <1>2, FS_Subset
<1> QED BY <1>3 DEF Occ, S, T

(* Exchanging two numbers loses none.                                      *)
LEMMA SwapTypes ==
  ASSUME NEW s \in Seq(Int), NEW a \in 1..Len(s), NEW b \in 1..Len(s)
  PROVE  /\ Figures!swap(s, a, b) \in Seq(Int)
         /\ Len(Figures!swap(s, a, b)) = Len(s)
         /\ \A k \in 1..Len(s) : Figures!swap(s, a, b)[k]
              = IF k = b THEN s[a] ELSE IF k = a THEN s[b] ELSE s[k]
BY DEF Figures!swap

LEMMA SwapPermutes ==
  ASSUME NEW s \in Seq(Int), NEW a \in 1..Len(s), NEW b \in 1..Len(s), NEW x
  PROVE  Occ(Figures!swap(s, a, b), x, Len(s)) = Occ(s, x, Len(s))
<1> DEFINE n == Len(s)
           t == Figures!swap(s, a, b)
           S == {k \in 1..n : s[k] = x}
           T == {k \in 1..n : t[k] = x}
           other(k) == IF k = a THEN b ELSE IF k = b THEN a ELSE k
           f == [k \in S |-> other(k)]
<1>1. n \in Nat /\ \A k \in 1..n : t[k] = IF k = b THEN s[a] ELSE IF k = a THEN s[b] ELSE s[k]
  BY SwapTypes
<1> HIDE DEF t
<1>2. \A k \in 1..n : /\ other(k) \in 1..n /\ t[other(k)] = s[k] /\ s[other(k)] = t[k]
                      /\ other(other(k)) = k
  BY <1>1
<1>3. f \in [S -> T] /\ \A k \in S : f[k] = other(k)
  BY <1>2
<1>4. \A k, l \in S : f[k] = f[l] => k = l
  BY <1>2, <1>3
<1>5. \A k \in T : other(k) \in S /\ f[other(k)] = k
  BY <1>2, <1>3
<1> HIDE DEF f, other
<1>6. f \in Bijection(S, T)
  BY <1>3, <1>4, <1>5 DEF Bijection, Injection, Surjection, IsInjective
<1>7. IsFiniteSet(S)
  <2>1. IsFiniteSet(1..n) /\ S \in SUBSET (1..n)
    BY <1>1, FS_Interval
  <2> QED BY <2>1, FS_Subset
<1> HIDE DEF S, T
<1>8. Cardinality(T) = Cardinality(S)
  BY <1>6, <1>7, FS_Bijection DEF ExistsBijection
<1> QED BY <1>8 DEF Occ, S, T, t

(* A set of natural numbers that is not empty has a least member.          *)
LEMMA LeastNumber ==
  ASSUME NEW T \in SUBSET Nat, T # {}
  PROVE  \E m \in T : \A k \in T : m <= k
<1> DEFINE R == OpToRel(<, Nat)
<1>1. IsWellFoundedOn(R, Nat)
  BY NatLessThanWellFounded
<1> HIDE DEF R
<1>2. PICK m \in T : \A k \in T : ~(<<k, m>> \in R)
  BY <1>1, WFMin
<1>3. \A k \in T : ~(k < m)
  BY <1>2 DEF R, OpToRel
<1> QED BY <1>3

(* The partial sums are what their definition says: there is such a        *)
(* function, of any length, for there is no shortest that is missing.      *)
AddsUp(f, n) ==
  f = [k \in 0..n |-> IF k = 0 THEN 0 ELSE f[k - 1] + entered[k]]

LEMMA SumsExist ==
  ASSUME entered \in Seq(Int), NEW n \in Nat, n <= Len(entered)
  PROVE  \E f \in [0..n -> Int] : AddsUp(f, n)
<1> DEFINE Good(m) == \E f \in [0..m -> Int] : AddsUp(f, m)
           T == {m \in 0..Len(entered) : ~Good(m)}
<1>1. SUFFICES ASSUME ~Good(n) PROVE FALSE
  OBVIOUS
<1>2. T \in SUBSET Nat /\ T # {}
  BY <1>1
<1>3. PICK m \in T : \A k \in T : m <= k
  <2> HIDE DEF T
  <2> QED BY <1>2, LeastNumber
<1>4. m \in 0..Len(entered) /\ ~Good(m)
  BY <1>3
<1>5. m # 0
  <2>1. [k \in 0..0 |-> 0] \in [0..0 -> Int] /\ AddsUp([k \in 0..0 |-> 0], 0)
    BY DEF AddsUp
  <2> QED BY <2>1, <1>4
<1>6. Good(m - 1)
  <2>1. m - 1 \in 0..Len(entered) /\ ~(m <= m - 1)
    BY <1>4, <1>5
  <2> QED BY <2>1, <1>3
<1>7. PICK f \in [0..(m - 1) -> Int] : AddsUp(f, m - 1)
  BY <1>6
<1> DEFINE g == [k \in 0..m |-> IF k = m THEN f[m - 1] + entered[m] ELSE f[k]]
<1>8. m \in 1..Len(entered) /\ m - 1 \in 0..(m - 1) /\ entered[m] \in Int
  BY <1>4, <1>5
<1>9. g \in [0..m -> Int]
  BY <1>8
<1>10. ASSUME NEW k \in 0..m
       PROVE  g[k] = IF k = 0 THEN 0 ELSE g[k - 1] + entered[k]
  <2>1. CASE k = m
    BY <2>1, <1>8
  <2>2. CASE k # m
    <3>1. k \in 0..(m - 1) /\ g[k] = f[k] /\ (k # 0 => g[k - 1] = f[k - 1])
      BY <2>2, <1>8
    <3>2. f[k] = IF k = 0 THEN 0 ELSE f[k - 1] + entered[k]
      BY <3>1, <1>7 DEF AddsUp
    <3> QED BY <3>1, <3>2
  <2> QED BY <2>1, <2>2
<1>11. AddsUp(g, m)
  <2>1. g = [k \in 0..m |-> g[k]]
    OBVIOUS
  <2> HIDE DEF g
  <2> QED BY <2>1, <1>10 DEF AddsUp
<1> QED BY <1>4, <1>9, <1>11

LEMMA PartialSumsAddUp ==
  ASSUME entered \in Seq(Int)
  PROVE  /\ Figures!PartialSums[0] = 0
         /\ \A k \in 1..Len(entered) :
              Figures!PartialSums[k] = Figures!PartialSums[k - 1] + entered[k]
<1> DEFINE n == Len(entered)
<1>1. \E f : AddsUp(f, n)
  BY SumsExist
<1>2. Figures!PartialSums = CHOOSE f : AddsUp(f, n)
  BY DEF Figures!PartialSums, AddsUp
<1>3. AddsUp(Figures!PartialSums, n)
  BY <1>1, <1>2
<1>4. n \in Nat
  OBVIOUS
<1> HIDE DEF n
<1>5. \A k \in 0..n : Figures!PartialSums[k]
        = IF k = 0 THEN 0 ELSE Figures!PartialSums[k - 1] + entered[k]
  BY <1>3 DEF AddsUp
<1> QED BY <1>4, <1>5 DEF n

-------------------------------------------------------------------------------
LEMMA CallFacts ==
  ASSUME FigureTypes, Ranges, NEW k \in 1..Len(calls)
  PROVE  /\ calls[k].low \in Int /\ calls[k].high \in Int
         /\ 1 <= calls[k].low /\ calls[k].low <= calls[k].high + 1
         /\ calls[k].high <= Size
         /\ \A l \in 1..Len(calls) : k < l => calls[k].high < calls[l].low
         /\ stage = "partition" => part.high < calls[k].low
<1>1. calls \in Seq(Call)
  BY DEF FigureTypes
<1>2. calls[k] \in Call
  BY <1>1
<1>3. calls[k].low \in Int /\ calls[k].high \in Int
  BY <1>2 DEF Call
<1> QED BY <1>3 DEF Ranges

LEMMA PartFacts ==
  ASSUME FigureTypes, Ranges
  PROVE  /\ Size \in Nat /\ nums \in Seq(Int) /\ Len(nums) = Size
         /\ \A k \in 1..Size : nums[k] \in Int
         /\ part.low \in Int /\ part.high \in Int /\ part.i \in Int /\ part.j \in Int
         /\ stage = "partition" =>
              /\ 1 <= part.low /\ part.low < part.high /\ part.high <= Size
              /\ part.low - 1 <= part.i /\ part.i < part.j /\ part.j <= part.high
<1>1. Size \in Nat /\ nums \in Seq(Int) /\ Len(nums) = Size
  BY DEF FigureTypes, Size
<1>2. \A k \in 1..Size : nums[k] \in Int
  BY <1>1
<1>3. part \in Parting
  BY DEF FigureTypes
<1>4. part.low \in Int /\ part.high \in Int /\ part.i \in Int /\ part.j \in Int
  BY <1>3 DEF Parting
<1> QED BY <1>1, <1>2, <1>4 DEF Ranges

(* Two numbers of the part are exchanged: it stays where it is with regard *)
(* to everything outside it.                                               *)
LEMMA SwapWithin ==
  ASSUME FigureTypes, Ranges, SortedBut, stage = "partition",
         NEW a \in part.low..part.high, NEW b \in part.low..part.high,
         nums' = Figures!swap(nums, a, b)
  PROVE  /\ nums' \in Seq(Int) /\ Len(nums') = Size
         /\ \A x : Occ(nums', x, Size) = Occ(nums, x, Size)
         /\ \A k \in 1..Size : nums'[k] = IF k = b THEN nums[a]
                                          ELSE IF k = a THEN nums[b] ELSE nums[k]
         /\ \A c \in 1..Size : \A d \in 1..Size :
              c < d => nums'[c] <= nums'[d] \/ Together(c, d)
<1>1. /\ part.low \in Int /\ part.high \in Int /\ Size \in Nat
      /\ 1 <= part.low /\ part.high <= Size /\ nums \in Seq(Int) /\ Len(nums) = Size
  BY PartFacts
<1>2. a \in 1..Len(nums) /\ b \in 1..Len(nums) /\ a \in Int /\ b \in Int
  BY <1>1
<1>3. /\ nums' \in Seq(Int) /\ Len(nums') = Size
      /\ \A k \in 1..Size : nums'[k] = IF k = b THEN nums[a]
                                       ELSE IF k = a THEN nums[b] ELSE nums[k]
  <2> DEFINE t == Figures!swap(nums, a, b)
  <2>1. /\ t \in Seq(Int) /\ Len(t) = Len(nums)
        /\ \A k \in 1..Len(nums) :
             t[k] = IF k = b THEN nums[a] ELSE IF k = a THEN nums[b] ELSE nums[k]
    BY <1>1, <1>2, SwapTypes
  <2>2. nums' = t
    OBVIOUS
  <2> HIDE DEF t
  <2> QED BY <2>1, <2>2, <1>1
<1>4. \A x : Occ(nums', x, Size) = Occ(nums, x, Size)
  BY <1>1, <1>2, SwapPermutes
<1> DEFINE old(k) == IF k = b THEN a ELSE IF k = a THEN b ELSE k
<1>5. \A k \in 1..Size :
        /\ nums'[k] = nums[old(k)] /\ old(k) \in 1..Size
        /\ k \in part.low..part.high => old(k) \in part.low..part.high
        /\ k \notin part.low..part.high => old(k) = k
  BY <1>1, <1>2, <1>3
<1> HIDE DEF old
<1>6. ASSUME NEW c \in 1..Size, NEW d \in 1..Size, c < d, ~Together(c, d)
      PROVE  nums'[c] <= nums'[d]
  <2>1. c \in Int /\ d \in Int /\ old(c) \in Int /\ old(d) \in Int
    BY <1>1, <1>5
  <2>2. ~(part.low <= c /\ d <= part.high)
    BY <1>6 DEF Together
  <2>3. ASSUME NEW k \in 1..Len(calls)
        PROVE  /\ calls[k].low \in Int /\ calls[k].high \in Int
               /\ part.high < calls[k].low
               /\ ~(calls[k].low <= c /\ d <= calls[k].high)
    BY <1>6, CallFacts DEF Together
  <2>4. old(c) < old(d)
    <3>1. c \notin part.low..part.high \/ d \notin part.low..part.high
      BY <2>1, <2>2, <1>1
    <3>2. CASE c \notin part.low..part.high /\ d \notin part.low..part.high
      BY <3>2, <1>5, <1>6
    <3>3. CASE c \in part.low..part.high /\ d \notin part.low..part.high
      <4>1. old(c) <= part.high /\ old(d) = d
        <5>1. old(c) \in part.low..part.high /\ old(d) = d
          BY <3>3, <1>5
        <5> QED BY <5>1, <1>1
      <4>2. part.high < d
        BY <3>3, <1>1, <1>6, <2>1
      <4> QED BY <4>1, <4>2, <1>1, <2>1
    <3>4. CASE c \notin part.low..part.high /\ d \in part.low..part.high
      <4>1. part.low <= old(d) /\ old(c) = c
        <5>1. old(d) \in part.low..part.high /\ old(c) = c
          BY <3>4, <1>5
        <5> QED BY <5>1, <1>1
      <4>2. c < part.low
        BY <3>4, <1>1, <1>6, <2>1
      <4> QED BY <4>1, <4>2, <1>1, <2>1
    <3> QED BY <3>1, <3>2, <3>3, <3>4
  <2>5. ~(part.low <= old(c) /\ old(d) <= part.high)
    BY <1>1, <1>5, <1>6, <2>1, <2>2
  <2>6. ASSUME NEW k \in 1..Len(calls)
        PROVE  ~(calls[k].low <= old(c) /\ old(d) <= calls[k].high)
    <3>1. /\ calls[k].low \in Int /\ calls[k].high \in Int
          /\ part.high < calls[k].low
          /\ ~(calls[k].low <= c /\ d <= calls[k].high)
      BY <2>3
    <3>2. CASE c \in part.low..part.high
      <4>1. old(c) <= part.high
        BY <3>2, <1>5, <1>1
      <4> QED BY <4>1, <3>1, <2>1, <1>1
    <3>3. CASE c \notin part.low..part.high
      <4>1. old(c) = c
        BY <3>3, <1>5
      <4>2. CASE d \in part.low..part.high
        BY <4>1, <4>2, <3>1, <3>3, <1>1, <1>6, <2>1
      <4>3. CASE d \notin part.low..part.high
        BY <4>1, <4>3, <3>1, <1>5
      <4> QED BY <4>2, <4>3
    <3> QED BY <3>2, <3>3
  <2>7. ~Together(old(c), old(d))
    BY <2>5, <2>6 DEF Together
  <2>8. nums[old(c)] <= nums[old(d)]
    BY <2>4, <2>7, <1>5 DEF SortedBut
  <2> QED BY <2>8, <1>5
<1> QED BY <1>3, <1>4, <1>6

LEMMA PartitionKeeps ==
  ASSUME FigureInv, Figures!Partition
  PROVE  FigureInv'
<1>1. /\ stage = "partition" /\ part.j < part.high
      /\ UNCHANGED <<entered, stage, index, figures, calls, most>>
      /\ part \in Parting /\ part.low \in Int /\ part.high \in Int
      /\ part.i \in Int /\ part.j \in Int
      /\ 1 <= part.low /\ part.low < part.high /\ part.high <= Size
      /\ part.low - 1 <= part.i /\ part.i < part.j /\ part.j <= part.high
      /\ Size \in Nat /\ Size' = Size /\ nums \in Seq(Int) /\ Len(nums) = Size
      /\ FigureTypes /\ Ranges /\ SortedBut /\ Parted /\ Permuted
      /\ Scanned /\ SoFar = Size
  <2>1. /\ stage = "partition" /\ part.j < part.high
        /\ UNCHANGED <<entered, stage, index, figures, calls, most>>
    BY DEF Figures!Partition
  <2>2. FigureTypes /\ Ranges /\ SortedBut /\ Parted /\ Permuted /\ Scanned
    BY DEF FigureInv
  <2>3. part \in Parting
    BY <2>2 DEF FigureTypes
  <2>4. Size' = Size /\ SoFar = Size
    BY <2>1 DEF Size, SoFar
  <2> QED BY <2>1, <2>2, <2>3, <2>4, PartFacts
<1>2. CASE nums[part.j] <= nums[part.high]
  <2> DEFINE a == part.i + 1
             b == part.j
  <2>1. /\ nums' = Figures!swap(nums, a, b)
        /\ part' = [part EXCEPT !.i = @ + 1, !.j = @ + 1]
    BY <1>2 DEF Figures!Partition
  <2>2. a \in part.low..part.high /\ b \in part.low..part.high
    BY <1>1
  <2>3. /\ nums' \in Seq(Int) /\ Len(nums') = Size
        /\ \A x : Occ(nums', x, Size) = Occ(nums, x, Size)
        /\ \A k \in 1..Size : nums'[k] = IF k = b THEN nums[a]
                                          ELSE IF k = a THEN nums[b] ELSE nums[k]
        /\ \A c \in 1..Size : \A d \in 1..Size :
              c < d => nums'[c] <= nums'[d] \/ Together(c, d)
    <3> HIDE DEF a, b
    <3> QED BY <1>1, <2>1, <2>2, SwapWithin
  <2>4. /\ part'.low = part.low /\ part'.high = part.high
        /\ part'.i = part.i + 1 /\ part'.j = part.j + 1 /\ part' \in Parting
    <3>1. part' = [part EXCEPT !.i = part.i + 1, !.j = part.j + 1] /\ part \in Parting
      BY <2>1, <1>1
    <3>2. part' = [low |-> part.low, high |-> part.high, i |-> part.i + 1,
                   j |-> part.j + 1]
      BY <3>1 DEF Parting
    <3> QED BY <3>2, <1>1 DEF Parting
  <2>5. FigureTypes'
    BY <1>1, <2>3, <2>4 DEF FigureTypes
  <2>6. Permuted'
    BY <1>1, <2>3 DEF Permuted, Occ
  <2>7. Ranges'
    BY <1>1, <2>4 DEF Ranges
  <2>8. SortedBut'
    BY <1>1, <2>3, <2>4 DEF SortedBut, Together
  <2>9. Parted'
    <3>1. nums'[part.high] = nums[part.high] /\ part.high \in 1..Size
      <4>1. part.high \in 1..Size /\ part.high # b /\ part.high # a
        BY <1>1, PartFacts
      <4> HIDE DEF a, b
      <4> QED BY <4>1, <2>3
    <3>2. ASSUME NEW k \in part.low..(part.i + 1) PROVE nums'[k] <= nums'[part.high]
      <4>1. k \in 1..Size /\ k <= part.j
        BY <1>1
      <4>2. CASE k = part.i + 1
        <5>1. nums'[k] = nums[part.j]
          BY <4>1, <4>2, <2>3, <1>1
        <5> QED BY <5>1, <3>1, <1>2
      <4>3. CASE k # part.i + 1
        <5>1. k \in part.low..part.i /\ k # part.j
          BY <4>3, <1>1
        <5>2. nums'[k] = nums[k]
          BY <5>1, <4>1, <4>3, <2>3
        <5> QED BY <5>1, <5>2, <3>1, <1>1 DEF Parted
      <4> QED BY <4>2, <4>3
    <3>3. ASSUME NEW k \in (part.i + 2)..part.j PROVE nums'[part.high] <= nums'[k]
      <4>1. k \in 1..Size /\ part.i + 1 \in (part.i + 1)..(part.j - 1)
        <5>1. k \in Int /\ part.i + 2 <= k /\ k <= part.j
          BY <1>1
        <5>2. /\ 1 <= part.low /\ part.high <= Size /\ part.low - 1 <= part.i
              /\ part.j <= part.high /\ Size \in Nat /\ part.low \in Int
              /\ part.high \in Int /\ part.i \in Int /\ part.j \in Int
          BY <1>1
        <5>3. k \in 1..Size
          BY <5>1, <5>2
        <5>4. part.i + 1 \in (part.i + 1)..(part.j - 1)
          BY <5>1, <5>2
        <5> QED BY <5>3, <5>4
      <4>2. CASE k = part.j
        <5>1. nums'[k] = nums[part.i + 1]
          BY <4>1, <4>2, <2>3
        <5> QED BY <5>1, <4>1, <3>1, <1>1 DEF Parted
      <4>3. CASE k # part.j
        <5>1. k \in (part.i + 1)..(part.j - 1) /\ k # part.i + 1
          BY <4>3, <1>1
        <5>2. nums'[k] = nums[k]
          BY <5>1, <4>1, <4>3, <2>3
        <5> QED BY <5>1, <5>2, <3>1, <1>1 DEF Parted
      <4> QED BY <4>2, <4>3
    <3>4. part'.i + 1 = part.i + 2 /\ part'.j - 1 = part.j
      BY <2>4, <1>1
    <3> QED BY <3>2, <3>3, <3>4, <2>4 DEF Parted
  <2>10. Scanned' /\ InOrderNow' /\ Counted'
    BY <1>1 DEF Scanned, SoFar, Figures!PartialSums, Figures!Quotient, InOrderNow, Counted
  <2> QED BY <2>5, <2>6, <2>7, <2>8, <2>9, <2>10 DEF FigureInv
<1>3. CASE ~(nums[part.j] <= nums[part.high])
  <2>1. nums' = nums /\ part' = [part EXCEPT !.j = @ + 1]
    BY <1>3 DEF Figures!Partition
  <2>2. /\ part'.low = part.low /\ part'.high = part.high
        /\ part'.i = part.i /\ part'.j = part.j + 1 /\ part' \in Parting
    <3>1. part \in Parting
      BY <1>1
    <3> QED BY <2>1, <3>1 DEF Parting
  <2>3. FigureTypes' /\ Permuted'
    <3>1. FigureTypes'
      BY <1>1, <2>1, <2>2 DEF FigureTypes
    <3>2. Permuted'
      BY <1>1, <2>1 DEF Permuted, Occ
    <3> QED BY <3>1, <3>2
  <2>4. Ranges'
    <3>1. /\ part.low - 1 <= part'.i /\ part'.i < part'.j /\ part'.j <= part.high
      BY <1>1, <2>2, PartFacts
    <3> QED BY <1>1, <2>2, <3>1 DEF Ranges
  <2>5. SortedBut'
    BY <1>1, <2>1, <2>2 DEF SortedBut, Together
  <2>6. Parted'
    <3>1. ASSUME NEW k \in (part.i + 1)..part.j PROVE nums[part.high] <= nums[k]
      <4>1. CASE k = part.j
        <5>1. nums[part.j] \in Int /\ nums[part.high] \in Int
          <6>1. part.j \in 1..Size /\ part.high \in 1..Size
            BY <1>1
          <6> QED BY <6>1, <1>1
        <5> QED BY <5>1, <4>1, <1>3
      <4>2. CASE k # part.j
        <5>1. k \in (part.i + 1)..(part.j - 1)
          BY <4>2, <1>1
        <5> QED BY <5>1, <1>1 DEF Parted
      <4> QED BY <4>1, <4>2
    <3>2. part'.j - 1 = part.j
      BY <2>2, <1>1
    <3> QED BY <3>1, <3>2, <2>1, <2>2, <1>1 DEF Parted
  <2>7. Scanned' /\ InOrderNow' /\ Counted'
    BY <1>1, <2>1 DEF Scanned, SoFar, Figures!PartialSums, Figures!Quotient, InOrderNow,
       Counted
  <2> QED BY <2>3, <2>4, <2>5, <2>6, <2>7 DEF FigureInv
<1> QED BY <1>2, <1>3

(* The pivot gets its place, and what is before and behind it becomes a    *)
(* part of its own.                                                        *)
LEMMA PlacePivotKeeps ==
  ASSUME FigureInv, Figures!PlacePivot
  PROVE  FigureInv'
<1> DEFINE low  == part.low
           high == part.high
           p    == part.i + 1
           left  == [low |-> low, high |-> part.i]
           right == [low |-> part.i + 2, high |-> high]
<1>1. /\ stage = "partition" /\ part.j = high
      /\ UNCHANGED <<entered, index, figures, part, most>>
      /\ nums' = Figures!swap(nums, p, high)
      /\ calls' = <<left, right>> \o calls
      /\ stage' = "sort"
      /\ low \in Int /\ high \in Int /\ part.i \in Int /\ p \in Int
      /\ 1 <= low /\ low < high /\ high <= Size /\ low <= p /\ p <= high
      /\ Size \in Nat /\ Size' = Size /\ nums \in Seq(Int) /\ Len(nums) = Size
      /\ FigureTypes /\ Ranges /\ SortedBut /\ Parted /\ Permuted
      /\ Scanned /\ SoFar = Size /\ SoFar' = Size
  <2>1. /\ stage = "partition" /\ part.j >= high
        /\ UNCHANGED <<entered, index, figures, part, most>>
        /\ nums' = Figures!swap(nums, p, high)
        /\ calls' = <<left, right>> \o calls
        /\ stage' = "sort"
    BY DEF Figures!PlacePivot
  <2>2. FigureTypes /\ Ranges /\ SortedBut /\ Parted /\ Permuted /\ Scanned
    BY DEF FigureInv
  <2>3. Size' = Size /\ SoFar = Size /\ SoFar' = Size
    BY <2>1 DEF Size, SoFar
  <2> HIDE DEF left, right
  <2> QED BY <2>1, <2>2, <2>3, PartFacts
<1>2. calls \in Seq(Call) /\ left \in Call /\ right \in Call /\ Len(calls) \in Nat
  <2>1. calls \in Seq(Call)
    BY <1>1 DEF FigureTypes
  <2>2. left \in Call /\ right \in Call
    BY <1>1 DEF Call
  <2> QED BY <2>1, <2>2
<1>3. /\ calls' \in Seq(Call) /\ Len(calls') = Len(calls) + 2
      /\ calls'[1] = left /\ calls'[2] = right
      /\ \A k \in 1..Len(calls) : calls'[k + 2] = calls[k]
      /\ \A k \in 1..Len(calls') : k = 1 \/ k = 2 \/ (k - 2 \in 1..Len(calls)
                                                     /\ calls'[k] = calls[k - 2])
  <2> HIDE DEF left, right
  <2>1. calls' = <<left, right>> \o calls
    BY <1>1
  <2>2. <<left, right>> \in Seq(Call) /\ Len(<<left, right>>) = 2
        /\ <<left, right>>[1] = left /\ <<left, right>>[2] = right
    BY <1>2
  <2>3. /\ calls' \in Seq(Call) /\ Len(calls') = 2 + Len(calls)
        /\ \A k \in 1..(2 + Len(calls)) :
             calls'[k] = IF k <= 2 THEN <<left, right>>[k] ELSE calls[k - 2]
    BY <1>2, <2>1, <2>2, ConcatProperties
  <2>4. calls'[1] = left /\ calls'[2] = right
    BY <1>2, <2>2, <2>3
  <2>5. ASSUME NEW k \in 1..Len(calls) PROVE calls'[k + 2] = calls[k]
    <3>1. k + 2 \in 1..(2 + Len(calls)) /\ ~(k + 2 <= 2) /\ (k + 2) - 2 = k
      BY <1>2
    <3> QED BY <3>1, <2>3
  <2>6. ASSUME NEW k \in 1..Len(calls'), k # 1, k # 2
        PROVE  k - 2 \in 1..Len(calls) /\ calls'[k] = calls[k - 2]
    <3>1. k \in 1..(2 + Len(calls)) /\ ~(k <= 2) /\ k - 2 \in 1..Len(calls)
      BY <2>3, <2>6, <1>2
    <3> QED BY <3>1, <2>3
  <2> QED BY <1>2, <2>3, <2>4, <2>5, <2>6
<1>4. /\ nums' \in Seq(Int) /\ Len(nums') = Size
      /\ \A x : Occ(nums', x, Size) = Occ(nums, x, Size)
      /\ \A k \in 1..Size : nums'[k] = IF k = high THEN nums[p]
                                        ELSE IF k = p THEN nums[high] ELSE nums[k]
      /\ \A c \in 1..Size : \A d \in 1..Size :
            c < d => nums'[c] <= nums'[d] \/ Together(c, d)
  <2>1. p \in low..high /\ high \in low..high
    BY <1>1
  <2> HIDE DEF p
  <2> QED BY <1>1, <2>1, SwapWithin
<1>5. FigureTypes' /\ Permuted'
  <2>1. FigureTypes'
    <3>1. calls' \in Seq(Call) /\ nums' \in Seq(Int) /\ Len(nums') = Size
      BY <1>3, <1>4
    <3> HIDE DEF left, right, p
    <3> QED BY <3>1, <1>1 DEF FigureTypes
  <2>2. Permuted'
    BY <1>1, <1>4 DEF Permuted, Occ
  <2> QED BY <2>1, <2>2
<1>6. Ranges'
  <2>1. ASSUME NEW k \in 1..Len(calls')
        PROVE  /\ 1 <= calls'[k].low /\ calls'[k].low <= calls'[k].high + 1
               /\ calls'[k].high <= Size
               /\ \A l \in 1..Len(calls') : k < l => calls'[k].high < calls'[l].low
    <3>1. ASSUME NEW l \in 1..Len(calls)
          PROVE  /\ calls[l].low \in Int /\ calls[l].high \in Int
                 /\ 1 <= calls[l].low /\ calls[l].low <= calls[l].high + 1
                 /\ calls[l].high <= Size /\ high < calls[l].low
                 /\ \A m \in 1..Len(calls) : l < m => calls[l].high < calls[m].low
      BY <1>1, CallFacts
    <3>2. /\ left.low = low /\ left.high = part.i
          /\ right.low = part.i + 2 /\ right.high = high
      OBVIOUS
    <3> HIDE DEF left, right
    <3>3. CASE k = 1
      <4>1. ASSUME NEW l \in 1..Len(calls'), k < l PROVE part.i < calls'[l].low
        <5>1. CASE l = 2
          BY <5>1, <1>1, <1>3, <3>2
        <5>2. CASE l # 2
          <6>1. l - 2 \in 1..Len(calls) /\ calls'[l] = calls[l - 2]
            <7>1. l # 1 /\ l # 2
              BY <5>2, <3>3, <4>1
            <7>2. \A j \in 1..Len(calls') : j = 1 \/ j = 2 \/ (j - 2 \in 1..Len(calls)
                                                     /\ calls'[j] = calls[j - 2])
              BY <1>3
            <7> QED BY <7>1, <7>2
          <6>2. high < calls[l - 2].low /\ calls[l - 2].low \in Int
            BY <6>1, <3>1
          <6> QED BY <6>1, <6>2, <1>1
        <5> QED BY <5>1, <5>2
      <4>2. calls'[k].low = low /\ calls'[k].high = part.i
        BY <3>3, <3>2, <1>3
      <4> QED BY <4>1, <4>2, <1>1
    <3>4. CASE k = 2
      <4>1. ASSUME NEW l \in 1..Len(calls'), k < l PROVE high < calls'[l].low
        <5>1. l - 2 \in 1..Len(calls) /\ calls'[l] = calls[l - 2]
          <6>1. l # 1 /\ l # 2
            BY <3>4, <4>1
          <6>2. \A j \in 1..Len(calls') : j = 1 \/ j = 2 \/ (j - 2 \in 1..Len(calls)
                                                   /\ calls'[j] = calls[j - 2])
            BY <1>3
          <6> QED BY <6>1, <6>2
        <5> QED BY <5>1, <3>1
      <4>2. calls'[k].low = part.i + 2 /\ calls'[k].high = high
        BY <3>4, <3>2, <1>3
      <4> QED BY <4>1, <4>2, <1>1
    <3>5. CASE k # 1 /\ k # 2
      <4>1. k - 2 \in 1..Len(calls) /\ calls'[k] = calls[k - 2]
        BY <3>5, <1>3
      <4>2. ASSUME NEW l \in 1..Len(calls'), k < l PROVE calls'[k].high < calls'[l].low
        <5>1. l - 2 \in 1..Len(calls) /\ calls'[l] = calls[l - 2] /\ k - 2 < l - 2
          <6>1. l # 1 /\ l # 2 /\ k - 2 < l - 2
            BY <3>5, <4>2
          <6>2. \A j \in 1..Len(calls') : j = 1 \/ j = 2 \/ (j - 2 \in 1..Len(calls)
                                                   /\ calls'[j] = calls[j - 2])
            BY <1>3
          <6> QED BY <6>1, <6>2
        <5> QED BY <5>1, <4>1, <3>1
      <4> QED BY <4>1, <4>2, <3>1
    <3> QED BY <3>3, <3>4, <3>5
  <2> QED BY <2>1, <1>1 DEF Ranges
<1>7. ASSUME NEW a \in 1..Size, NEW b \in 1..Size, a < b
      PROVE  nums'[a] <= nums'[b] \/ Together(a, b)'
  <2>1. CASE \E k \in 1..Len(calls) : calls[k].low <= a /\ b <= calls[k].high
    <3>1. PICK k \in 1..Len(calls) : calls[k].low <= a /\ b <= calls[k].high
      BY <2>1
    <3>2. k + 2 \in 1..Len(calls') /\ calls'[k + 2] = calls[k]
      BY <1>2, <1>3
    <3> QED BY <3>1, <3>2 DEF Together
  <2>2. CASE low <= a /\ b <= high
    <3>1. ASSUME b < p PROVE Together(a, b)'
      <4>1. calls'[1].low <= a /\ b <= calls'[1].high /\ 1 \in 1..Len(calls')
        BY <3>1, <2>2, <1>1, <1>2, <1>3
      <4> QED BY <4>1 DEF Together
    <3>2. ASSUME p < a PROVE Together(a, b)'
      <4>1. calls'[2].low <= a /\ b <= calls'[2].high /\ 2 \in 1..Len(calls')
        BY <3>2, <2>2, <1>1, <1>2, <1>3
      <4> QED BY <4>1 DEF Together
    <3>3. /\ p \in 1..Size /\ high \in 1..Size
          /\ nums'[p] = nums[high]
          /\ nums[a] \in Int /\ nums[b] \in Int /\ nums[p] \in Int /\ nums[high] \in Int
      <4>1. p \in 1..Size /\ high \in 1..Size
        BY <1>1
      <4>2. nums'[p] = nums[high]
        <5> HIDE DEF p
        <5> QED BY <4>1, <1>4
      <4> QED BY <4>1, <4>2, <1>1, PartFacts
    <3>4. ASSUME a < p PROVE nums'[a] <= nums'[p]
      <4>1. a \in low..part.i /\ a # high /\ a # p
        BY <3>4, <2>2, <1>1
      <4>2. nums[a] <= nums[high]
        BY <4>1, <1>1 DEF Parted
      <4>3. nums'[a] = nums[a]
        <5> HIDE DEF p
        <5> QED BY <4>1, <1>4
      <4> QED BY <4>2, <4>3, <3>3
    <3>5. ASSUME p < b PROVE nums'[p] <= nums'[b]
      <4>1. CASE b = high
        <5>1. p \in (part.i + 1)..(part.j - 1)
          BY <4>1, <3>5, <1>1
        <5>2. nums[high] <= nums[p]
          BY <5>1, <1>1 DEF Parted
        <5>3. nums'[b] = nums[p]
          <6> HIDE DEF p
          <6> QED BY <4>1, <1>4
        <5> QED BY <5>2, <5>3, <3>3
      <4>2. CASE b # high
        <5>1. b \in (part.i + 1)..(part.j - 1) /\ b # p
          BY <4>2, <3>5, <2>2, <1>1
        <5>2. nums[high] <= nums[b]
          BY <5>1, <1>1 DEF Parted
        <5>3. nums'[b] = nums[b]
          <6> HIDE DEF p
          <6> QED BY <5>1, <4>2, <1>4
        <5> QED BY <5>2, <5>3, <3>3
      <4> QED BY <4>1, <4>2
    <3>6. nums'[a] \in Int /\ nums'[b] \in Int /\ nums'[p] \in Int
      BY <3>3, <1>4
    <3> HIDE DEF p
    <3>7. CASE a < p /\ p < b
      BY <3>4, <3>5, <3>6, <3>7
    <3>8. CASE a = p \/ b = p
      BY <3>4, <3>5, <3>8, <1>7
    <3> QED BY <3>1, <3>2, <3>7, <3>8, <1>1
  <2> QED BY <2>1, <2>2, <1>4, <1>7 DEF Together
<1>8. SortedBut' /\ Parted' /\ InOrderNow' /\ Counted'
  BY <1>1, <1>7 DEF SortedBut, Parted, InOrderNow, Counted
<1>9. Scanned'
  BY <1>1 DEF Scanned, SoFar, Figures!PartialSums, Figures!Quotient
<1> QED BY <1>5, <1>6, <1>8, <1>9 DEF FigureInv

-------------------------------------------------------------------------------
LEMMA FigureInit == Figures!Init => FigureInv
<1> SUFFICES ASSUME Figures!Init PROVE FigureInv
  OBVIOUS
<1>1. /\ entered \in Seq(Int) /\ entered # <<>> /\ nums = entered /\ stage = "scan"
      /\ index = 2 /\ calls = <<>>
      /\ figures = [smallest |-> entered[1], largest |-> entered[1],
                    sum |-> entered[1], average |-> 0]
      /\ part = [low |-> 0, high |-> 0, i |-> 0, j |-> 0]
      /\ most = [num |-> 0, count |-> 0, temp |-> 0]
  BY ListsAssumption DEF Figures!Init
<1>2. Len(entered) \in Nat /\ Len(entered) >= 1 /\ entered[1] \in Int /\ Size = Len(entered)
  BY <1>1 DEF Size
<1>3. FigureTypes
  <2>1. index \in 2..(Size + 1)
    BY <1>1, <1>2
  <2>2. figures \in [smallest : Int, largest : Int, sum : Int, average : Int]
    BY <1>1, <1>2
  <2>3. calls \in Seq(Call) /\ part \in Parting /\ most \in [num : Int, count : Int, temp : Int]
    BY <1>1 DEF Parting
  <2> QED BY <2>1, <2>2, <2>3, <1>1, <1>2 DEF FigureTypes
<1>4. Permuted
  BY <1>1 DEF Permuted
<1>5. Scanned
  <2>1. SoFar = 1 /\ 1 \in 1..1 /\ \A k \in 1..1 : k = 1
    BY <1>1 DEF SoFar
  <2>2. Figures!PartialSums[1] = entered[1]
    <3>1. 1 \in 1..Len(entered) /\ 1 - 1 = 0
      BY <1>2
    <3>2. Figures!PartialSums[0] = 0
          /\ Figures!PartialSums[1] = Figures!PartialSums[1 - 1] + entered[1]
      BY <3>1, <1>1, PartialSumsAddUp
    <3> QED BY <3>1, <3>2, <1>2
  <2>3. /\ figures.smallest = entered[1] /\ figures.largest = entered[1]
        /\ figures.sum = entered[1]
    BY <1>1
  <2> QED BY <2>1, <2>2, <2>3, <1>1, <1>2 DEF Scanned
<1>6. Ranges /\ SortedBut /\ Parted /\ InOrderNow /\ Counted
  BY <1>1 DEF Ranges, SortedBut, Parted, InOrderNow, Counted
<1> QED BY <1>3, <1>4, <1>5, <1>6 DEF FigureInv

LEMMA ScanKeeps ==
  ASSUME FigureInv, Figures!Scan
  PROVE  FigureInv'
<1> DEFINE n == nums[index]
<1>1. /\ stage = "scan" /\ index <= Len(nums) /\ index' = index + 1
      /\ UNCHANGED <<entered, nums, stage, calls, part, most>>
      /\ figures' = [figures EXCEPT
           !.smallest = IF n < figures.smallest THEN n ELSE figures.smallest,
           !.largest  = IF n > figures.largest THEN n ELSE figures.largest,
           !.sum      = figures.sum + n]
  BY DEF Figures!Scan
<1>2. /\ entered \in Seq(Int) /\ nums \in Seq(Int) /\ Len(nums) = Size /\ Size \in Nat
      /\ figures \in [smallest : Int, largest : Int, sum : Int, average : Int]
      /\ index \in 2..Size
  BY <1>1 DEF FigureInv, FigureTypes, Size
<1>3. /\ nums = entered /\ n \in Int /\ n = entered[index]
      /\ SoFar = index - 1 /\ SoFar' = index /\ Size' = Size
  BY <1>1, <1>2 DEF FigureInv, Scanned, SoFar, Size
<1> HIDE DEF n
<1>4. /\ figures.smallest \in Int /\ figures.largest \in Int /\ figures.sum \in Int
      /\ figures'.smallest = IF n < figures.smallest THEN n ELSE figures.smallest
      /\ figures'.largest = IF n > figures.largest THEN n ELSE figures.largest
      /\ figures'.sum = figures.sum + n
      /\ figures' \in [smallest : Int, largest : Int, sum : Int, average : Int]
  <2> DEFINE least == IF n < figures.smallest THEN n ELSE figures.smallest
             greatest == IF n > figures.largest THEN n ELSE figures.largest
             sum == figures.sum + n
  <2>1. figures.smallest \in Int /\ figures.largest \in Int /\ figures.sum \in Int
    BY <1>2
  <2>2. least \in Int /\ greatest \in Int /\ sum \in Int
    BY <2>1, <1>3
  <2>3. figures' = [figures EXCEPT !.smallest = least, !.largest = greatest, !.sum = sum]
    BY <1>1
  <2> HIDE DEF least, greatest, sum
  <2>4. /\ figures'.smallest = least /\ figures'.largest = greatest /\ figures'.sum = sum
        /\ figures' \in [smallest : Int, largest : Int, sum : Int, average : Int]
    BY <2>2, <2>3, <1>2
  <2> QED BY <2>1, <2>4 DEF least, greatest, sum
<1>5. FigureTypes'
  <2>1. index' \in 2..(Size + 1)
    BY <1>1, <1>2
  <2> QED BY <2>1, <1>1, <1>3, <1>4 DEF FigureInv, FigureTypes
<1>6. Scanned'
  <2>1. /\ \E k \in 1..(index - 1) : figures.smallest = entered[k]
        /\ \E k \in 1..(index - 1) : figures.largest = entered[k]
        /\ \A k \in 1..(index - 1) : figures.smallest <= entered[k] /\ entered[k] <= figures.largest
        /\ figures.sum = Figures!PartialSums[index - 1]
    BY <1>3 DEF FigureInv, Scanned
  <2>2. \A k \in 1..index : k = index \/ k \in 1..(index - 1)
    BY <1>2
  <2>3. \A k \in 1..(index - 1) : k \in 1..index
    BY <1>2
  <2>4. index \in 1..index /\ index \in Int
    BY <1>2
  <2>5. \E k \in 1..index : figures'.smallest = entered[k]
    BY <2>1, <2>3, <2>4, <1>3, <1>4
  <2>6. \E k \in 1..index : figures'.largest = entered[k]
    BY <2>1, <2>3, <2>4, <1>3, <1>4
  <2>7. ASSUME NEW k \in 1..index
        PROVE  figures'.smallest <= entered[k] /\ entered[k] <= figures'.largest
    <3>1. CASE k = index
      BY <3>1, <1>3, <1>4
    <3>2. CASE k # index
      <4>1. k \in 1..(index - 1) /\ k \in 1..Len(entered)
        BY <3>2, <2>2, <1>2, <1>3
      <4>2. /\ figures.smallest <= entered[k] /\ entered[k] <= figures.largest
            /\ entered[k] \in Int
        BY <4>1, <2>1, <1>2
      <4>3. figures'.smallest <= figures.smallest /\ figures.largest <= figures'.largest
            /\ figures'.smallest \in Int /\ figures'.largest \in Int
        BY <1>3, <1>4
      <4> QED BY <4>2, <4>3, <1>4
    <3> QED BY <3>1, <3>2
  <2>8. figures'.sum = Figures!PartialSums[index]
    <3>1. index \in 1..Len(entered)
      BY <1>2, <1>3
    <3>2. Figures!PartialSums[index] = Figures!PartialSums[index - 1] + entered[index]
      BY <3>1, <1>2, PartialSumsAddUp
    <3> QED BY <3>2, <2>1, <1>3, <1>4
  <2>9. Figures!PartialSums' = Figures!PartialSums
    BY <1>1 DEF Figures!PartialSums
  <2> QED BY <2>5, <2>6, <2>7, <2>8, <2>9, <1>1, <1>3 DEF Scanned
<1>7. Permuted' /\ Ranges' /\ SortedBut' /\ Parted' /\ InOrderNow' /\ Counted'
  BY <1>1, <1>3 DEF FigureInv, Permuted, Ranges, SortedBut, Parted, InOrderNow, Counted, Occ
<1> QED BY <1>5, <1>6, <1>7 DEF FigureInv

LEMMA AverageKeeps ==
  ASSUME FigureInv, Figures!Average
  PROVE  FigureInv'
<1>1. /\ stage = "scan" /\ index > Len(nums) /\ stage' = "sort"
      /\ UNCHANGED <<entered, nums, index, part, most>>
      /\ calls' = <<[low |-> 1, high |-> Len(nums)]>>
      /\ figures' = [figures EXCEPT !.average = Figures!Quotient(figures.sum, Len(nums))]
  BY DEF Figures!Average
<1>2. /\ FigureTypes /\ Permuted /\ Scanned
      /\ Size \in Nat /\ Size > 0 /\ Size' = Size /\ Len(nums) = Size
      /\ figures \in [smallest : Int, largest : Int, sum : Int, average : Int]
      /\ index \in 2..(Size + 1)
  BY <1>1 DEF FigureInv, FigureTypes, Size
<1>3. index = Size + 1 /\ SoFar = Size /\ SoFar' = Size
  BY <1>1, <1>2 DEF SoFar
<1> DEFINE c == [low |-> 1, high |-> Size]
<1>4. /\ calls' = <<c>> /\ c \in Call /\ c.low = 1 /\ c.high = Size
      /\ calls' \in Seq(Call) /\ Len(calls') = 1 /\ calls'[1] = c
  BY <1>1, <1>2 DEF Call
<1> HIDE DEF c
<1>5. /\ figures.sum \in Int
      /\ figures'.smallest = figures.smallest /\ figures'.largest = figures.largest
      /\ figures'.sum = figures.sum
      /\ figures'.average = Figures!Quotient(figures.sum, Size)
      /\ figures' \in [smallest : Int, largest : Int, sum : Int, average : Int]
  <2>1. Figures!Quotient(figures.sum, Size) \in Int
    BY <1>2 DEF Figures!Quotient
  <2> HIDE DEF Figures!Quotient
  <2> QED BY <2>1, <1>1, <1>2
<1>6. FigureTypes'
  BY <1>1, <1>2, <1>4, <1>5 DEF FigureTypes
<1>7. Permuted'
  BY <1>1, <1>2 DEF Permuted, Occ
<1>8. Scanned'
  BY <1>1, <1>2, <1>3, <1>5 DEF Scanned, Figures!PartialSums, Figures!Quotient
<1>9. Ranges'
  BY <1>1, <1>2, <1>4 DEF Ranges
<1>10. SortedBut'
  <2>1. ASSUME NEW a \in 1..Size, NEW b \in 1..Size PROVE Together(a, b)'
    <3>1. 1 \in 1..Len(calls') /\ calls'[1].low <= a /\ b <= calls'[1].high
      BY <1>2, <1>4
    <3> QED BY <3>1 DEF Together
  <2> QED BY <2>1, <1>2 DEF SortedBut
<1>11. Parted' /\ InOrderNow' /\ Counted'
  BY <1>1 DEF Parted, InOrderNow, Counted
<1> QED BY <1>6, <1>7, <1>8, <1>9, <1>10, <1>11 DEF FigureInv

LEMMA QuickSortKeeps ==
  ASSUME FigureInv, Figures!QuickSort
  PROVE  FigureInv'
<1> DEFINE c == Head(calls)
<1>1. /\ stage = "sort" /\ calls # <<>> /\ calls' = Tail(calls)
      /\ UNCHANGED <<entered, nums, index, figures, most>>
  BY DEF Figures!QuickSort
<1>2. /\ FigureTypes /\ Permuted /\ Scanned /\ Ranges /\ SortedBut
      /\ calls \in Seq(Call) /\ Size' = Size /\ Len(nums) = Size
  BY <1>1 DEF FigureInv, FigureTypes, Size
<1>3. /\ c = calls[1] /\ c \in Call /\ calls' \in Seq(Call)
      /\ Len(calls) \in Nat /\ Len(calls) >= 1 /\ Len(calls') = Len(calls) - 1
      /\ \A k \in 1..Len(calls') : calls'[k] = calls[k + 1]
  BY <1>1, <1>2
<1>4. /\ 1 \in 1..Len(calls)
      /\ \A k \in 1..Len(calls') : k + 1 \in 1..Len(calls) /\ 1 < k + 1
      /\ \A k \in 1..Len(calls) : k = 1 \/ (k - 1 \in 1..Len(calls') /\ calls'[k - 1] = calls[k])
  <2>1. 1 \in 1..Len(calls) /\ \A k \in 1..Len(calls') : k + 1 \in 1..Len(calls) /\ 1 < k + 1
    BY <1>3
  <2>2. ASSUME NEW k \in 1..Len(calls), k # 1
        PROVE  k - 1 \in 1..Len(calls') /\ calls'[k - 1] = calls[k]
    <3>1. k - 1 \in 1..Len(calls') /\ (k - 1) + 1 = k
      BY <2>2, <1>3
    <3> QED BY <3>1, <1>3
  <2> QED BY <2>1, <2>2
<1> HIDE DEF c
<1>5. /\ c.low \in Int /\ c.high \in Int /\ 1 <= c.low /\ c.high <= Size /\ Size \in Nat
      /\ \A k \in 1..Len(calls') : c.high < calls'[k].low
  BY <1>2, <1>3, <1>4, CallFacts, PartFacts
<1>6. ASSUME NEW k \in 1..Len(calls')
      PROVE  /\ calls'[k].low \in Int /\ calls'[k].high \in Int
             /\ 1 <= calls'[k].low /\ calls'[k].low <= calls'[k].high + 1
             /\ calls'[k].high <= Size
             /\ \A l \in 1..Len(calls') : k < l => calls'[k].high < calls'[l].low
  <2>1. k + 1 \in 1..Len(calls) /\ calls'[k] = calls[k + 1]
    BY <1>3, <1>4
  <2>2. ASSUME NEW l \in 1..Len(calls'), k < l PROVE calls'[k].high < calls'[l].low
    <3>1. l + 1 \in 1..Len(calls) /\ calls'[l] = calls[l + 1] /\ k + 1 < l + 1
      BY <2>2, <1>3, <1>4
    <3> QED BY <3>1, <2>1, <1>2, CallFacts
  <2> QED BY <2>1, <2>2, <1>2, CallFacts
<1>7. Permuted' /\ InOrderNow' /\ Counted'
  <2>1. stage' \in {"sort", "partition"}
    BY <1>1 DEF Figures!QuickSort
  <2> QED BY <2>1, <1>1, <1>2 DEF Permuted, InOrderNow, Counted, Occ
<1>8. Scanned'
  <2>1. stage' \in {"sort", "partition"} /\ SoFar' = SoFar
    BY <1>1, <1>2 DEF Figures!QuickSort, SoFar
  <2> QED BY <2>1, <1>1, <1>2 DEF Scanned, Figures!PartialSums, Figures!Quotient
<1>9. CASE c.low < c.high
  <2>1. /\ part' = [low |-> c.low, high |-> c.high, i |-> c.low - 1, j |-> c.low]
        /\ stage' = "partition"
    BY <1>9 DEF Figures!QuickSort, c
  <2>2. /\ part'.low = c.low /\ part'.high = c.high /\ part'.i = c.low - 1
        /\ part'.j = c.low /\ part' \in Parting
    BY <2>1, <1>5 DEF Parting
  <2>3. FigureTypes'
    BY <2>1, <2>2, <1>1, <1>2, <1>3 DEF FigureTypes
  <2>4. Ranges'
    BY <2>1, <2>2, <1>2, <1>5, <1>6, <1>9 DEF Ranges
  <2>5. SortedBut'
    <3>1. ASSUME NEW a \in 1..Size, NEW b \in 1..Size, Together(a, b) PROVE Together(a, b)'
      <4>1. PICK k \in 1..Len(calls) : calls[k].low <= a /\ b <= calls[k].high
        BY <3>1, <1>1 DEF Together
      <4>2. CASE k = 1
        BY <4>1, <4>2, <2>1, <2>2, <1>3 DEF Together
      <4>3. CASE k # 1
        BY <4>1, <4>3, <1>4 DEF Together
      <4> QED BY <4>2, <4>3
    <3> QED BY <3>1, <1>1, <1>2 DEF SortedBut
  <2>6. Parted'
    <3>1. /\ \A k \in c.low..(c.low - 1) : FALSE
          /\ \A k \in ((c.low - 1) + 1)..(c.low - 1) : FALSE
      BY <1>5
    <3> QED BY <3>1, <2>2 DEF Parted
  <2> QED BY <2>3, <2>4, <2>5, <2>6, <1>7, <1>8 DEF FigureInv
<1>10. CASE ~(c.low < c.high)
  <2>1. UNCHANGED <<part, stage>>
    BY <1>10 DEF Figures!QuickSort, c
  <2>2. FigureTypes'
    BY <2>1, <1>1, <1>2, <1>3 DEF FigureTypes
  <2>3. Ranges'
    BY <2>1, <1>1, <1>2, <1>6 DEF Ranges
  <2>4. SortedBut'
    <3>1. ASSUME NEW a \in 1..Size, NEW b \in 1..Size, a < b, Together(a, b)
          PROVE  Together(a, b)'
      <4>1. PICK k \in 1..Len(calls) : calls[k].low <= a /\ b <= calls[k].high
        BY <3>1, <1>1 DEF Together
      <4>2. k # 1
        <5>1. ~(c.low <= a /\ b <= c.high)
          BY <3>1, <1>5, <1>10
        <5> QED BY <5>1, <4>1, <1>3
      <4> QED BY <4>1, <4>2, <1>4 DEF Together
    <3> QED BY <3>1, <1>1, <1>2 DEF SortedBut
  <2>5. Parted'
    BY <2>1, <1>1 DEF Parted
  <2> QED BY <2>2, <2>3, <2>4, <2>5, <1>7, <1>8 DEF FigureInv
<1> QED BY <1>9, <1>10

LEMMA SortedKeeps ==
  ASSUME FigureInv, Figures!Sorted
  PROVE  FigureInv'
<1>1. /\ stage = "sort" /\ calls = <<>> /\ stage' = "walk" /\ index' = 2
      /\ most' = [num |-> nums[1], count |-> 1, temp |-> 1]
      /\ UNCHANGED <<entered, nums, figures, calls, part>>
  BY DEF Figures!Sorted
<1>2. /\ FigureTypes /\ Permuted /\ Scanned /\ Ranges /\ SortedBut
      /\ Size \in Nat /\ Size > 0 /\ Size' = Size /\ Len(nums) = Size
      /\ nums[1] \in Int
  BY <1>1 DEF FigureInv, FigureTypes, Size
<1>3. /\ most'.num = nums[1] /\ most'.count = 1 /\ most'.temp = 1
      /\ most' \in [num : Int, count : Int, temp : Int]
  BY <1>1, <1>2
<1>4. FigureTypes'
  <2>1. index' \in 2..(Size + 1)
    BY <1>1, <1>2
  <2> QED BY <2>1, <1>1, <1>2, <1>3 DEF FigureTypes
<1>5. Permuted' /\ Ranges' /\ SortedBut' /\ Parted'
  BY <1>1, <1>2 DEF Permuted, Occ, Ranges, SortedBut, Parted
<1>6. Scanned'
  <2>1. SoFar' = SoFar
    BY <1>1, <1>2 DEF SoFar
  <2> QED BY <2>1, <1>1, <1>2 DEF Scanned, Figures!PartialSums, Figures!Quotient
<1>7. InOrderNow'
  <2>1. \A a, b : ~Together(a, b)
    BY <1>1 DEF Together
  <2> QED BY <2>1, <1>1, <1>2 DEF SortedBut, InOrderNow
<1>8. Counted'
  <2>1. ASSUME NEW x PROVE Occ(nums, x, 1) = IF x = nums[1] THEN 1 ELSE 0
    <3>1. Occ(nums, x, 0) = 0 /\ Occ(nums, x, 0 + 1)
            = Occ(nums, x, 0) + IF nums[0 + 1] = x THEN 1 ELSE 0
      BY OccZero, OccNext
    <3> QED BY <3>1
  <2>2. index' - 1 = 1 /\ 1 \in 1..1
    BY <1>1
  <2>3. /\ \E k \in 1..1 : most'.num = nums[k]
        /\ 1 <= most'.temp /\ most'.temp <= most'.count
        /\ \A x \in Int : Occ(nums, x, 1) <= most'.count
        /\ nums[1] = most'.num
        /\ most'.count = Occ(nums, most'.num, 1)
        /\ ~(most'.temp > 1)
    BY <2>1, <2>2, <1>3
  <2>4. \A x, m : Occ(nums, x, m)' = Occ(nums, x, m)
    BY <1>1 DEF Occ
  <2>5. \E k \in 1..(index' - 1) : most'.num = nums'[k]
    BY <2>2, <2>3, <1>1
  <2>6. /\ \A x \in Int : Occ(nums', x, index' - 1) <= most'.count
        /\ nums'[index' - 1] = most'.num
        /\ most'.count = Occ(nums', most'.num, index' - 1)
    BY <2>2, <2>3, <1>1
  <2> QED BY <2>3, <2>5, <2>6, <1>1 DEF Counted
<1> QED BY <1>4, <1>5, <1>6, <1>7, <1>8 DEF FigureInv

-------------------------------------------------------------------------------
(* As long as only two numbers are repeated, temp counts the repetitions   *)
(* of the run the walk is in.                                              *)
LEMMA TempCountsRun ==
  ASSUME FigureInv, stage = "walk", AtMostTwo, NEW m \in 1..Size, m = index - 1,
         m + 1 \in 1..Size, nums[m + 1] = nums[m], nums[m] # most.num
  PROVE  Occ(nums, nums[m], m) = most.temp
<1> DEFINE y == nums[m]
<1>1. /\ Size \in Nat /\ m \in Nat /\ \A k \in 1..Size : nums[k] \in Int
      /\ most.num \in Int /\ most.count \in Int /\ most.temp \in Int
  <2>1. most \in [num : Int, count : Int, temp : Int] /\ FigureTypes /\ Ranges
    BY DEF FigureInv, FigureTypes
  <2> QED BY <2>1, PartFacts
<1>2. /\ 1 <= most.temp /\ most.temp <= most.count
      /\ Occ(nums, y, m) <= most.temp
      /\ most.count = Occ(nums, most.num, m)
      /\ most.temp > 1 => \E x \in Int : x # most.num /\ Occ(nums, x, m) = most.temp
  BY DEF FigureInv, Counted
<1>3. Occ(nums, y, m) >= 1
  BY <1>1, OccPositive
<1>4. y \in Int /\ \A x : Occ(nums, x, m) \in Nat
  BY <1>1, OccNext
<1>5. CASE most.temp = 1
  BY <1>2, <1>3, <1>4, <1>5
<1>6. CASE most.temp > 1
  <2>1. PICK z \in Int : z # most.num /\ Occ(nums, z, m) = most.temp
    BY <1>2, <1>6
  <2>2. CASE z = y
    BY <2>1, <2>2
  <2>3. CASE z # y
    <3>1. Occ(nums, y, m + 1) = Occ(nums, y, m) + 1
      BY <1>1, OccNext
    <3>2. \A x : /\ Occ(nums, x, m) <= Occ(nums, x, Size)
                 /\ Occ(nums, x, m + 1) <= Occ(nums, x, Size)
                 /\ Occ(nums, x, Size) \in Nat
      <4>1. m <= Size /\ m + 1 <= Size /\ m + 1 \in Nat
        BY <1>1
      <4> QED BY <4>1, <1>1, OccMonotone, OccNext
    <3>3. ~(Occ(nums, z, Size) <= 1)
      BY <2>1, <3>2, <1>1, <1>6
    <3>4. ~(Occ(nums, y, Size) <= 1)
      BY <3>1, <3>2, <1>3, <1>4
    <3>5. ~(Occ(nums, most.num, Size) <= 1)
      BY <3>2, <1>1, <1>2, <1>6
    <3> HIDE DEF y
    <3>6. FALSE
      <4>1. y # most.num
        BY DEF y
      <4> QED BY <4>1, <2>1, <2>3, <3>3, <3>4, <3>5, <1>1, <1>4 DEF AtMostTwo
    <3> QED BY <3>6
  <2> QED BY <2>2, <2>3
<1> QED BY <1>1, <1>2, <1>5, <1>6

LEMMA WalkKeeps ==
  ASSUME FigureInv, Figures!Walk
  PROVE  FigureInv'
<1> DEFINE m == index - 1
           x == nums[index]
           Kept(c) == 
             /\ \E k \in 1..(m + 1) : c.num = nums[k]
             /\ 1 <= c.temp /\ c.temp <= c.count
             /\ \A v \in Int : Occ(nums, v, m + 1) <= c.count
             /\ x # c.num => Occ(nums, x, m + 1) <= c.temp
             /\ AtMostTwo =>
                  /\ c.count = Occ(nums, c.num, m + 1)
                  /\ c.temp > 1 =>
                       \E v \in Int : v # c.num /\ Occ(nums, v, m + 1) = c.temp
<1>1. /\ stage = "walk" /\ index <= Len(nums) /\ index' = index + 1
      /\ most' = IF nums[index] = nums[index - 1] THEN Figures!mostOccurence(nums[index])
                 ELSE most
      /\ UNCHANGED <<entered, nums, stage, figures, calls, part>>
  BY DEF Figures!Walk
<1>2. /\ FigureTypes /\ Permuted /\ Scanned /\ Ranges /\ InOrderNow /\ Counted
      /\ Size' = Size
  BY <1>1 DEF FigureInv, Size
<1>3. /\ Size \in Nat /\ Len(nums) = Size /\ \A k \in 1..Size : nums[k] \in Int
  BY <1>2, PartFacts
<1>4. /\ index \in 2..Size /\ m \in 1..Size /\ m + 1 = index /\ m + 1 \in 1..Size
      /\ index \in Nat /\ m \in Nat
  <2>1. index \in 2..(Size + 1)
    BY <1>2 DEF FigureTypes
  <2> QED BY <2>1, <1>1, <1>3
<1>5. most \in [num : Int, count : Int, temp : Int]
  BY <1>2 DEF FigureTypes
<1>6. /\ most.num \in Int /\ most.count \in Int /\ most.temp \in Int
      /\ x \in Int /\ nums[m] \in Int
  BY <1>3, <1>4, <1>5
<1>7. /\ \E k \in 1..m : most.num = nums[k]
      /\ 1 <= most.temp /\ most.temp <= most.count
      /\ \A v \in Int : Occ(nums, v, m) <= most.count
      /\ nums[m] # most.num => Occ(nums, nums[m], m) <= most.temp
      /\ AtMostTwo =>
           /\ most.count = Occ(nums, most.num, m)
           /\ most.temp > 1 => \E v \in Int : v # most.num /\ Occ(nums, v, m) = most.temp
  BY <1>1, <1>2 DEF Counted
<1>8. \A v : /\ Occ(nums, v, m) \in Nat
             /\ Occ(nums, v, m + 1) = Occ(nums, v, m) + IF x = v THEN 1 ELSE 0
  <2>1. \A v : /\ Occ(nums, v, m) \in Nat
               /\ Occ(nums, v, m + 1) = Occ(nums, v, m) + IF nums[m + 1] = v THEN 1 ELSE 0
    BY <1>4, OccNext
  <2> QED BY <2>1, <1>4
<1>9. \A k \in 1..m : k \in 1..(m + 1)
  BY <1>4
<1>10. m + 1 \in 1..(m + 1) /\ nums[m + 1] = x
  BY <1>4
<1> HIDE DEF x, m
<1>11. ASSUME x # nums[m] PROVE Kept(most')
  <2>1. most' = most
    BY <1>1, <1>11 DEF x, m
  <2>2. ASSUME NEW k \in 1..m PROVE nums[k] # x
    <3>1. k \in 1..Size /\ k < m + 1 /\ m < m + 1 /\ (k < m \/ k = m)
      BY <1>3, <1>4
    <3>2. nums[m] <= x
      BY <3>1, <1>1, <1>2, <1>4, <1>10 DEF InOrderNow
    <3>3. nums[k] <= nums[m]
      <4>1. CASE k = m
        BY <4>1, <1>6
      <4>2. CASE k # m
        BY <4>2, <3>1, <1>1, <1>2, <1>4 DEF InOrderNow
      <4> QED BY <4>1, <4>2
    <3>4. nums[k] \in Int
      BY <3>1, <1>3
    <3> QED BY <3>2, <3>3, <3>4, <1>6, <1>11
  <2>3. Occ(nums, x, m) = 0
    BY <2>2, <1>4, OccZero
  <2>4. most.num # x
    BY <1>7, <2>2
  <2>5. \E k \in 1..(m + 1) : most.num = nums[k]
    BY <1>7, <1>9
  <2>6. Occ(nums, x, m + 1) = 1
    BY <1>8, <2>3
  <2>7. \A v \in Int : v # x => Occ(nums, v, m + 1) = Occ(nums, v, m)
    BY <1>8
  <2>8. \A v \in Int : Occ(nums, v, m + 1) <= most.count
    BY <2>6, <2>7, <1>6, <1>7
  <2>9. ASSUME AtMostTwo, most.temp > 1
        PROVE  \E v \in Int : v # most.num /\ Occ(nums, v, m + 1) = most.temp
    <3>1. PICK v \in Int : v # most.num /\ Occ(nums, v, m) = most.temp
      BY <2>9, <1>7
    <3>2. v # x
      BY <3>1, <2>3, <2>9
    <3> QED BY <3>1, <3>2, <2>7
  <2> QED BY <2>1, <2>4, <2>5, <2>6, <2>7, <2>8, <2>9, <1>6, <1>7
<1>12. ASSUME x = nums[m] PROVE most' = Figures!mostOccurence(x)
  BY <1>1, <1>12 DEF x, m
<1>13. ASSUME x = nums[m], x = most.num PROVE Kept(most')
  <2>1. most' = [most EXCEPT !.count = most.count + 1]
    BY <1>12, <1>13 DEF Figures!mostOccurence
  <2>2. most'.num = most.num /\ most'.count = most.count + 1 /\ most'.temp = most.temp
    BY <2>1, <1>5
  <2>3. \E k \in 1..(m + 1) : most.num = nums[k]
    BY <1>7, <1>9
  <2>4. \A v \in Int : v # x => Occ(nums, v, m + 1) = Occ(nums, v, m)
    BY <1>8
  <2>5. Occ(nums, x, m + 1) = Occ(nums, x, m) + 1 /\ Occ(nums, x, m) \in Nat
    BY <1>8
  <2>6. ASSUME NEW v \in Int PROVE Occ(nums, v, m + 1) <= most.count + 1
    <3>1. Occ(nums, v, m) <= most.count /\ Occ(nums, v, m) \in Nat
      BY <1>7, <1>8
    <3> QED BY <3>1, <2>4, <2>5, <1>6
  <2>7. ASSUME AtMostTwo, most.temp > 1
        PROVE  \E v \in Int : v # most.num /\ Occ(nums, v, m + 1) = most.temp
    BY <2>4, <2>7, <1>7, <1>13
  <2>8. 1 <= most.temp /\ most.temp <= most.count + 1
    BY <1>6, <1>7
  <2>9. AtMostTwo => most.count + 1 = Occ(nums, most.num, m + 1)
    BY <2>5, <1>7, <1>13
  <2> QED BY <2>2, <2>3, <2>6, <2>7, <2>8, <2>9, <1>13
<1>14. ASSUME x = nums[m], x # most.num
       PROVE  /\ Occ(nums, x, m) <= most.temp /\ Occ(nums, x, m) \in Nat
              /\ Occ(nums, x, m + 1) = Occ(nums, x, m) + 1
              /\ \A v \in Int : v # x => Occ(nums, v, m + 1) = Occ(nums, v, m)
              /\ AtMostTwo => Occ(nums, x, m) = most.temp
  <2>1. AtMostTwo => Occ(nums, nums[m], m) = most.temp
    <3>1. m = index - 1 /\ nums[m + 1] = nums[m] /\ nums[m] # most.num
      BY <1>10, <1>14 DEF m
    <3> QED BY <3>1, <1>1, <1>4, TempCountsRun
  <2> QED BY <2>1, <1>7, <1>8, <1>14
<1>15. ASSUME x = nums[m], x # most.num, most.temp + 1 > most.count PROVE Kept(most')
  <2>1. most' = [num |-> x, count |-> most.temp + 1, temp |-> 1]
    BY <1>12, <1>15 DEF Figures!mostOccurence, Figures!TempReset
  <2>2. most'.num = x /\ most'.count = most.temp + 1 /\ most'.temp = 1
    BY <2>1
  <2>3. \E k \in 1..(m + 1) : x = nums[k]
    BY <1>10
  <2>4. ASSUME NEW v \in Int PROVE Occ(nums, v, m + 1) <= most.temp + 1
    <3>1. Occ(nums, v, m) <= most.count /\ Occ(nums, v, m) \in Nat
      BY <1>7, <1>8
    <3>2. CASE v = x
      BY <3>2, <1>6, <1>14, <1>15
    <3>3. CASE v # x
      BY <3>1, <3>3, <1>6, <1>7, <1>14, <1>15
    <3> QED BY <3>2, <3>3
  <2>5. AtMostTwo => most.temp + 1 = Occ(nums, x, m + 1)
    BY <1>14, <1>15
  <2>6. 1 <= most.temp + 1
    BY <1>6, <1>7
  <2> QED BY <2>2, <2>3, <2>4, <2>5, <2>6
<1>16. ASSUME x = nums[m], x # most.num, ~(most.temp + 1 > most.count)
       PROVE  Kept(most')
  <2>1. most' = [most EXCEPT !.temp = most.temp + 1]
    BY <1>12, <1>16 DEF Figures!mostOccurence
  <2>2. most'.num = most.num /\ most'.count = most.count /\ most'.temp = most.temp + 1
    BY <2>1, <1>5
  <2>3. \E k \in 1..(m + 1) : most.num = nums[k]
    BY <1>7, <1>9
  <2>4. most.temp + 1 <= most.count /\ 1 <= most.temp + 1
    BY <1>6, <1>7, <1>16
  <2>5. Occ(nums, x, m + 1) <= most.temp + 1
    BY <1>6, <1>14, <1>16
  <2>6. ASSUME NEW v \in Int PROVE Occ(nums, v, m + 1) <= most.count
    <3>1. Occ(nums, v, m) <= most.count /\ Occ(nums, v, m) \in Nat
      BY <1>7, <1>8
    <3>2. CASE v = x
      BY <3>2, <2>4, <1>6, <1>14, <1>16
    <3>3. CASE v # x
      BY <3>1, <3>3, <1>14, <1>16
    <3> QED BY <3>2, <3>3
  <2>7. ASSUME AtMostTwo
        PROVE  /\ most.count = Occ(nums, most.num, m + 1)
               /\ \E v \in Int : v # most.num /\ Occ(nums, v, m + 1) = most.temp + 1
    <3>1. Occ(nums, x, m + 1) = most.temp + 1
      BY <2>7, <1>14, <1>16
    <3> QED BY <3>1, <2>7, <1>6, <1>7, <1>14, <1>16
  <2> QED BY <2>2, <2>3, <2>4, <2>5, <2>6, <2>7
<1>17. Kept(most')
  <2> HIDE DEF Kept
  <2> QED BY <1>11, <1>13, <1>15, <1>16
<1>18. most' \in [num : Int, count : Int, temp : Int]
  <2>1. CASE x # nums[m]
    BY <2>1, <1>1, <1>5 DEF x, m
  <2>2. CASE x = nums[m]
    BY <2>2, <1>5, <1>6, <1>12 DEF Figures!mostOccurence, Figures!TempReset
  <2> QED BY <2>1, <2>2
<1>19. FigureTypes'
  <2>1. index' \in 2..(Size + 1)
    BY <1>1, <1>3, <1>4
  <2> QED BY <2>1, <1>1, <1>2, <1>18 DEF FigureTypes
<1>20. Permuted' /\ Ranges' /\ SortedBut' /\ Parted' /\ InOrderNow'
  BY <1>1, <1>2 DEF Permuted, Occ, Ranges, SortedBut, Parted, InOrderNow
<1>21. Scanned'
  <2>1. SoFar' = SoFar
    BY <1>1, <1>2 DEF SoFar
  <2> QED BY <2>1, <1>1, <1>2 DEF Scanned, Figures!PartialSums, Figures!Quotient
<1>22. Counted'
  <2>1. index' - 1 = m + 1 /\ nums' = nums /\ stage' = "walk" /\ nums[m + 1] = x
    BY <1>1, <1>4, <1>10
  <2>2. AtMostTwo' = AtMostTwo
    BY <1>1, <1>2 DEF AtMostTwo, Occ
  <2>3. \A v, k : Occ(nums, v, k)' = Occ(nums, v, k)
    BY <1>1 DEF Occ
  <2> HIDE DEF AtMostTwo
  <2> QED BY <2>1, <2>2, <2>3, <1>17 DEF Counted
<1> QED BY <1>19, <1>20, <1>21, <1>22 DEF FigureInv

LEMMA ReportKeeps ==
  ASSUME FigureInv, Figures!Report
  PROVE  FigureInv'
<1>1. /\ stage = "walk" /\ index > Len(nums) /\ stage' = "done"
      /\ UNCHANGED <<entered, nums, index, figures, calls, part, most>>
  BY DEF Figures!Report
<1>2. /\ FigureTypes /\ Permuted /\ Scanned /\ Ranges /\ InOrderNow /\ Counted
      /\ Size' = Size
  BY <1>1 DEF FigureInv, Size
<1>3. Size \in Nat /\ Len(nums) = Size /\ index \in 2..(Size + 1)
  BY <1>2, PartFacts DEF FigureTypes
<1>4. index = Size + 1
  BY <1>1, <1>3
<1>5. FigureTypes' /\ Permuted' /\ Ranges' /\ SortedBut' /\ Parted' /\ InOrderNow'
  <2>1. FigureTypes' /\ Ranges'
    BY <1>1, <1>2 DEF FigureTypes, Ranges
  <2>2. Permuted'
    BY <1>1, <1>2 DEF Permuted, Occ
  <2>3. SortedBut' /\ Parted' /\ InOrderNow'
    BY <1>1, <1>2 DEF SortedBut, Parted, InOrderNow
  <2> QED BY <2>1, <2>2, <2>3
<1>6. Scanned'
  <2>1. SoFar' = SoFar
    BY <1>1, <1>2 DEF SoFar
  <2> QED BY <2>1, <1>1, <1>2 DEF Scanned, Figures!PartialSums, Figures!Quotient
<1>7. Counted'
  <2>1. AtMostTwo' = AtMostTwo
    BY <1>1, <1>2 DEF AtMostTwo, Occ
  <2>2. \A v, k : Occ(nums, v, k)' = Occ(nums, v, k)
    BY <1>1 DEF Occ
  <2> QED BY <2>1, <2>2, <1>1, <1>2, <1>4 DEF Counted
<1> QED BY <1>5, <1>6, <1>7 DEF FigureInv

LEMMA FigureStep == FigureInv /\ [Figures!Next]_(Figures!vars) => FigureInv'
<1> SUFFICES ASSUME FigureInv, [Figures!Next]_(Figures!vars) PROVE FigureInv'
  OBVIOUS
<1>1. CASE UNCHANGED Figures!vars
  <2>1. UNCHANGED <<entered, nums, stage, index, figures, calls, part, most>>
    BY <1>1 DEF Figures!vars
  <2>2. Size' = Size /\ SoFar' = SoFar
    BY <2>1 DEF Size, SoFar
  <2>3. \A v, k : Occ(nums, v, k)' = Occ(nums, v, k)
    BY <2>1 DEF Occ
  <2>4. FigureTypes' /\ Ranges' /\ Parted' /\ InOrderNow'
    BY <2>1, <2>2 DEF FigureInv, FigureTypes, Ranges, Parted, InOrderNow
  <2>5. Permuted'
    BY <2>1, <2>2 DEF FigureInv, Permuted, Occ
  <2>6. SortedBut'
    BY <2>1, <2>2 DEF FigureInv, SortedBut, Together
  <2>7. Scanned'
    BY <2>1, <2>2 DEF FigureInv, Scanned, Figures!PartialSums, Figures!Quotient
  <2>8. AtMostTwo' = AtMostTwo
    BY <2>1, <2>2 DEF AtMostTwo, Occ
  <2>9. Counted'
    BY <2>1, <2>2, <2>3, <2>8 DEF FigureInv, Counted
  <2> QED BY <2>4, <2>5, <2>6, <2>7, <2>9 DEF FigureInv
<1> QED BY <1>1, ScanKeeps, AverageKeeps, QuickSortKeeps, PartitionKeeps, PlacePivotKeeps,
        SortedKeeps, WalkKeeps, ReportKeeps DEF Figures!Next

-------------------------------------------------------------------------------
(* What a division towards 0 leaves.                                       *)
LEMMA RestOfQuotient ==
  ASSUME NEW a \in Int, NEW n \in Nat, n > 0
  PROVE  LET rest == a - n * Figures!Quotient(a, n)
         IN  rest \in (1 - n)..(n - 1) /\ rest * a >= 0
<1> DEFINE rest == a - n * Figures!Quotient(a, n)
<1>1. CASE a >= 0
  <2> DEFINE q == a \div n
             r == a % n
  <2>1. q \in Int /\ r \in 0..(n - 1) /\ a = n * q + r
    BY <1>1
  <2>2. Figures!Quotient(a, n) = q
    BY <1>1 DEF Figures!Quotient
  <2> HIDE DEF q, r
  <2>3. rest = r
    BY <2>1, <2>2
  <2>4. r \in Nat /\ a \in Nat
    BY <1>1, <2>1
  <2>5. r * a >= 0
    BY <2>4
  <2> QED BY <2>1, <2>3, <2>5
<1>2. CASE ~(a >= 0)
  <2> DEFINE b == -a
             q == b \div n
             r == b % n
  <2>1. b \in Nat
    BY <1>2
  <2>2. q \in Int /\ r \in 0..(n - 1) /\ b = n * q + r
    <3> HIDE DEF b
    <3> QED BY <2>1
  <2>3. Figures!Quotient(a, n) = -q
    BY <1>2 DEF Figures!Quotient
  <2> HIDE DEF q, r
  <2>4. rest = -r
    <3>1. n * (-q) = -(n * q)
      BY <2>2
    <3>2. a = -(n * q + r)
      BY <2>2
    <3> QED BY <3>1, <3>2, <2>2, <2>3
  <2>5. r \in Nat /\ r * b >= 0
    <3> HIDE DEF b
    <3> QED BY <2>1, <2>2
  <2>6. (-r) * a = r * b
    BY <2>2
  <2> QED BY <2>2, <2>4, <2>5, <2>6
<1> QED BY <1>1, <1>2

(* The instance has a Cardinality of its own, which is the same.           *)
LEMMA SameCardinality == \A S : Figures!Cardinality(S) = Cardinality(S)
<1> SUFFICES ASSUME NEW S PROVE Figures!Cardinality(S) = Cardinality(S)
  OBVIOUS
<1> QED BY Zenon DEF Figures!Cardinality, Cardinality

LEMMA TimesIsOcc == \A x : Figures!Times(x) = Occ(entered, x, Size)
<1> SUFFICES ASSUME NEW x PROVE Figures!Times(x) = Occ(entered, x, Size)
  OBVIOUS
<1>1. {k \in 1..Len(entered) : entered[k] = x} = {k \in 1..Size : entered[k] = x}
  BY DEF Size
<1> QED BY <1>1, SameCardinality DEF Figures!Times, Occ

(* Three numbers that are repeated are more than two.                      *)
LEMMA TwoAtMost ==
  ASSUME FigureInv, Cardinality(Figures!Repeated) <= 2
  PROVE  AtMostTwo
<1>1. /\ entered \in Seq(Int) /\ Size \in Nat /\ Size = Len(entered)
      /\ \A x \in Int : Occ(nums, x, Size) = Occ(entered, x, Size)
  BY DEF FigureInv, FigureTypes, Permuted, Size
<1>2. IsFiniteSet(Figures!Repeated)
  <2> DEFINE f == [k \in 1..Size |-> entered[k]]
  <2>1. IsFiniteSet(1..Size)
    BY <1>1, FS_Interval
  <2>2. IsFiniteSet({entered[k] : k \in 1..Size})
    <3>1. f \in Surjection(1..Size, {entered[k] : k \in 1..Size})
      BY DEF Surjection
    <3> QED BY <2>1, <3>1, FS_Surjection DEF ExistsSurjection
  <2>3. Figures!Entered = {entered[k] : k \in 1..Size}
    BY <1>1 DEF Figures!Entered
  <2>4. Figures!Repeated \in SUBSET Figures!Entered
    BY DEF Figures!Repeated
  <2> QED BY <2>2, <2>3, <2>4, FS_Subset
<1>3. SUFFICES ASSUME NEW x \in Int, NEW y \in Int, NEW z \in Int,
                      x # y, x # z, y # z,
                      ~(Occ(nums, x, Size) <= 1), ~(Occ(nums, y, Size) <= 1),
                      ~(Occ(nums, z, Size) <= 1)
               PROVE  FALSE
  BY DEF AtMostTwo
<1>4. ASSUME NEW v \in Int, ~(Occ(nums, v, Size) <= 1) PROVE v \in Figures!Repeated
  <2>1. Occ(entered, v, Size) \in Nat /\ ~(Occ(entered, v, Size) <= 1)
    BY <1>1, <1>4, OccNext
  <2>2. \E k \in 1..Size : entered[k] = v
    BY <2>1, <1>1, OccSome
  <2>3. v \in Figures!Entered
    BY <2>2, <1>1 DEF Figures!Entered
  <2>4. Figures!Times(v) > 1
    BY <2>1, TimesIsOcc
  <2> QED BY <2>3, <2>4 DEF Figures!Repeated
<1>5. {x, y, z} \in SUBSET Figures!Repeated
  BY <1>3, <1>4
<1>6. Cardinality({x, y, z}) = 3
  <2>1. IsFiniteSet({x}) /\ Cardinality({x}) = 1
    BY FS_Singleton
  <2>2. {x, y} = {x} \cup {y} /\ {x, y, z} = {x, y} \cup {z} /\ y \notin {x} /\ z \notin {x, y}
    BY <1>3
  <2>3. IsFiniteSet({x, y}) /\ Cardinality({x, y}) = 2
    BY <2>1, <2>2, FS_AddElement
  <2>4. Cardinality({x, y} \cup {z}) = Cardinality({x, y}) + 1
    BY <2>2, <2>3, FS_AddElement
  <2> QED BY <2>2, <2>3, <2>4
<1>7. Cardinality({x, y, z}) <= Cardinality(Figures!Repeated)
  BY <1>2, <1>5, FS_Subset
<1>8. Cardinality(Figures!Repeated) \in Nat
  BY <1>2, FS_CardinalityType
<1> QED BY <1>6, <1>7, <1>8

(* The array is left sorted and the figures are right, for lists of any    *)
(* length and any numbers: the count of the most frequent number is never  *)
(* too low, and exact as long as no three numbers are repeated.            *)
(* (main.c:49-156)                                                         *)
THEOREM FiguresAreRight == FiguresSpec => []StatisticsRight
<1>1. FigureInv => StatisticsRight
  <2> SUFFICES ASSUME FigureInv, stage = "done" PROVE StatisticsRight
    BY DEF StatisticsRight, Figures!StatisticsRight
  <2>1. /\ FigureTypes /\ Permuted /\ Scanned /\ Ranges /\ InOrderNow /\ Counted
        /\ SoFar = Size /\ Size = Len(entered) /\ index = Size + 1
    BY DEF FigureInv, SoFar, Size, Counted
  <2>2. /\ Size \in Nat /\ Size > 0 /\ entered \in Seq(Int) /\ nums \in Seq(Int)
        /\ Len(nums) = Size /\ index - 1 = Size
        /\ \A k \in 1..Size : nums[k] \in Int /\ entered[k] \in Int
    BY <2>1, PartFacts DEF FigureTypes
  <2>3. ASSUME NEW k \in 1..(Len(nums) - 1) PROVE nums[k] <= nums[k + 1]
    <3>1. k \in 1..Size /\ k + 1 \in 1..Size /\ k < k + 1
      BY <2>2
    <3> QED BY <3>1, <2>1 DEF InOrderNow
  <2>4. ASSUME NEW n \in Figures!Entered
        PROVE  /\ Cardinality({k \in 1..Len(nums) : nums[k] = n}) = Figures!Times(n)
               /\ figures.smallest <= n /\ n <= figures.largest
               /\ most.count >= Figures!Times(n)
    <3>1. PICK k \in 1..Size : entered[k] = n
      BY <2>1 DEF Figures!Entered
    <3>2. n \in Int /\ figures.smallest <= n /\ n <= figures.largest
      BY <3>1, <2>1, <2>2 DEF Scanned
    <3>3. /\ Occ(nums, n, Size) = Cardinality({l \in 1..Len(nums) : nums[l] = n})
          /\ Occ(entered, n, Size) = Figures!Times(n)
      <4>1. Occ(nums, n, Len(nums)) = Cardinality({l \in 1..Len(nums) : nums[l] = n})
        BY DEF Occ
      <4> QED BY <4>1, <2>2, TimesIsOcc
    <3>4. Occ(nums, n, Size) = Occ(entered, n, Size)
      BY <3>2, <2>1 DEF Permuted
    <3>5. Occ(nums, n, Size) <= most.count
      BY <3>2, <2>1, <2>2 DEF Counted
    <3>6. Occ(nums, n, Size) \in Nat /\ most.count \in Int
      <4>1. most \in [num : Int, count : Int, temp : Int]
        BY <2>1 DEF FigureTypes
      <4> QED BY <4>1, <2>2, OccNext
    <3> QED BY <3>2, <3>3, <3>4, <3>5, <3>6
  <2>5. most.num \in Figures!Entered /\ most.num \in Int
    <3>1. PICK k \in 1..Size : most.num = nums[k]
      BY <2>1, <2>2 DEF Counted
    <3>2. most.num \in Int /\ Occ(nums, most.num, Size) >= 1
      BY <3>1, <2>2, OccPositive
    <3>3. Occ(entered, most.num, Size) # 0
      BY <3>2, <2>1 DEF Permuted
    <3>4. \E l \in 1..Size : entered[l] = most.num
      BY <3>3, <2>2, OccSome
    <3> QED BY <3>2, <3>4, <2>1 DEF Figures!Entered
  <2>6. figures.smallest \in Figures!Entered /\ figures.largest \in Figures!Entered
    BY <2>1 DEF Scanned, Figures!Entered
  <2>7. LET sum  == Figures!PartialSums[Len(entered)]
            rest == sum - Len(entered) * figures.average
        IN  /\ rest \in (1 - Len(entered))..(Len(entered) - 1)
            /\ rest * sum >= 0
    <3>1. /\ figures.sum = Figures!PartialSums[Len(entered)]
          /\ figures.average = Figures!Quotient(figures.sum, Len(entered))
      BY <2>1 DEF Scanned
    <3>2. figures.sum \in Int
      <4>1. figures \in [smallest : Int, largest : Int, sum : Int, average : Int]
        BY <2>1 DEF FigureTypes
      <4> QED BY <4>1
    <3>3. LET rest == figures.sum - Len(entered) * Figures!Quotient(figures.sum, Len(entered))
          IN  rest \in (1 - Len(entered))..(Len(entered) - 1) /\ rest * figures.sum >= 0
      BY <3>2, <2>1, <2>2, RestOfQuotient
    <3> HIDE DEF Figures!Quotient, Figures!PartialSums
    <3> QED BY <3>1, <3>3
  <2>8. ASSUME Cardinality(Figures!Repeated) <= 2
        PROVE  most.count = Figures!Times(most.num)
    <3>1. AtMostTwo
      BY <2>8, TwoAtMost
    <3>2. most.count = Occ(nums, most.num, Size)
      BY <3>1, <2>1, <2>2 DEF Counted
    <3>3. Occ(nums, most.num, Size) = Occ(entered, most.num, Size)
      BY <2>1, <2>5 DEF Permuted
    <3> QED BY <3>2, <3>3, TimesIsOcc
  <2>9. Len(nums) = Len(entered)
    BY <2>1, <2>2
  <2>10. {figures.smallest, figures.largest, most.num} \subseteq Figures!Entered
    BY <2>5, <2>6
  <2>11. \A n \in Figures!Entered :
            /\ Cardinality({k \in 1..Len(nums) : nums[k] = n}) = Figures!Times(n)
            /\ figures.smallest <= n /\ n <= figures.largest
            /\ most.count >= Figures!Times(n)
    BY <2>4
  <2>12. \A k \in 1..(Len(nums) - 1) : nums[k] <= nums[k + 1]
    BY <2>3
  <2> QED BY <2>7, <2>8, <2>9, <2>10, <2>11, <2>12, SameCardinality
      DEF StatisticsRight, Figures!StatisticsRight
<1> QED BY <1>1, FigureInit, FigureStep, PTL DEF FiguresSpec, Figures!Spec

-------------------------------------------------------------------------------
(* The shell.  Where in buffer and argv a command is.                      *)
Indices == 0..(MaxLine + 1)

Bytes == Letters \cup {Sh!Space, Sh!NullChar, Sh!Junk}

(* The string at p ends at e; av lists c words, of which only the first    *)
(* may begin at one of the two bytes that an empty line overwrites.        *)
EndsAt(b, p, e) ==
  /\ e \in Indices /\ p <= e /\ b[e] = Sh!NullChar
  /\ \A k \in p..(e - 1) : b[k] # Sh!NullChar

Listed(av, c) ==
  /\ c \in Indices /\ c > 0 /\ av[c] = Sh!Null
  /\ \A k \in 0..(c - 1) : av[k] \in Nat /\ (k > 0 => av[k] >= 2)

Now == Sh!Words(buffer, argv)

(* What the shell promises of ws, the next words to be executed.           *)
Outcome(ws) ==
  /\ typed = Sh!EndOfInput =>
       ws \in {ran, <<ran[1]>>} /\ (Sh!Indented(command, 1) => ws = ran)
  /\ typed = <<>> =>
       ws = [ran EXCEPT ![1] = IF Sh!Indented(command, 2) THEN ran[1] ELSE <<>>]
  /\ typed \notin {<<>>, Sh!EndOfInput} => Sh!AreWords(ws, typed)

CommandTypes ==
  /\ buffer \in [Indices -> Bytes]
  /\ argv \in [Indices -> Int]
  /\ shell \in {"prompt", "ending", "blanks", "word", "compare", "fork", "exited",
                "undefined"}
  /\ ending \in Indices /\ arg \in Nat
  /\ typed \in Sh!Lines \cup {Sh!EndOfInput}

Unwritten == argv[0] = Sh!Wild /\ \A k \in Indices : buffer[k] = Sh!Junk

(* A whole command is in the buffer and in argv: blanks are cut, and the   *)
(* first word begins behind the blanks that command began with.            *)
Settled ==
  /\ \A k \in Indices : buffer[k] # Sh!Space
  /\ buffer[0] # Sh!Junk
  /\ \E c \in Indices :
       /\ Listed(argv, c)
       /\ \A k \in 0..(c - 1) : \E e \in Indices : EndsAt(buffer, argv[k], e)
  /\ argv[0] > 1 <=> Sh!Indented(command, 2)
  /\ Sh!Indented(command, 1) => buffer[0] = Sh!NullChar
  /\ buffer[0] # Sh!NullChar => argv[0] = 0

(* fix_ending after an empty line: nothing to do.                          *)
AtEmpty ==
  /\ shell = "ending" /\ ending = 0 /\ buffer[0] = Sh!NullChar
  /\ argv[0] = Sh!Wild \/ (Settled /\ Outcome(Now))

(* fix_ending after the end of the input: over what is left of the first   *)
(* word.                                                                   *)
AtEnd ==
  \/ shell = "ending" /\ ending = 0 /\ buffer[0] = Sh!Junk
  \/ /\ Settled /\ Outcome(Now)
     /\ shell = "ending" => buffer[ending] = Sh!NullChar \/ (ending = 0 /\ arg = 0)
     /\ shell = "blanks" => buffer[0] # Sh!NullChar /\ ending = 0 /\ arg = 0
     /\ shell = "word" => /\ argv[0] = 0 /\ arg = 1 /\ buffer[0] # Sh!NullChar
                          /\ \A k \in 0..(ending - 1) : buffer[k] # Sh!NullChar

(* fix_ending in a line: the words that begin up to here are in argv, the  *)
(* blanks in front of here are cut.                                        *)
Reached ==
  IF shell = "word" \/ (shell = "ending" /\ ending = Len(typed))
  THEN ending + 1 ELSE ending

ByteNow(k) ==
  IF k >= Len(typed) \/ (k < ending /\ typed[k + 1] = Sh!Space)
  THEN Sh!NullChar ELSE typed[k + 1]

InLine ==
  /\ ending <= Len(typed)
  /\ arg = Sh!Nth(typed, Reached)
  /\ \A k \in 0..(Len(typed) + 1) : buffer[k] = ByteNow(k)
  /\ \A k \in Indices : k > Len(typed) => buffer[k] # Sh!Space
  /\ \A k \in Sh!Begins(typed) : k <= Reached => argv[Sh!Nth(typed, k) - 1] = k - 1
  /\ \A u \in 0..(arg - 1) :
       argv[u] + 1 \in Sh!Begins(typed) /\ Sh!Nth(typed, argv[u] + 1) = u + 1
  /\ shell = "word" => arg > 0
  /\ shell = "ending" /\ ending = Len(typed) => arg > 0 /\ argv[arg] = Sh!Null
  /\ Reached = ending =>
       ending = 0 \/ typed[ending] = Sh!Space \/ (ending < Len(typed) /\ typed[ending + 1] = Sh!Space)
  /\ command = typed

CommandInv ==
  /\ CommandTypes
  /\ shell = "prompt" => Unwritten \/ (Settled /\ ran = Now)
  /\ shell \in {"ending", "blanks", "word"} =>
       /\ typed = Sh!EndOfInput => AtEnd
       /\ typed = <<>> => AtEmpty
       /\ typed \notin {<<>>, Sh!EndOfInput} => InLine
  /\ shell = "compare" => argv[0] = Sh!Wild \/ (Settled /\ Outcome(Now))
  /\ shell = "fork" => Settled /\ Outcome(Now)

-------------------------------------------------------------------------------
LEMMA LineFacts ==
  ASSUME NEW line \in Sh!Lines
  PROVE  /\ Len(line) \in 0..MaxLine /\ MaxLine \in Nat
         /\ line \in Seq(Letters \cup {Sh!Space})
         /\ line # Sh!EndOfInput
         /\ \A k \in 1..Len(line) : /\ line[k] \in Letters \cup {Sh!Space}
                                    /\ line[k] \notin {Sh!NullChar, Sh!Junk}
         /\ line # <<>> => Len(line) > 0
<1>1. MaxLine \in Nat
  BY MaxLineAssumption
<1>2. PICK n \in 0..MaxLine : line \in [1..n -> Letters \cup {Sh!Space}]
  BY DEF Sh!Lines
<1>3. line \in Seq(Letters \cup {Sh!Space}) /\ Len(line) = n
  <2>1. n \in Nat
    BY <1>1
  <2> QED BY <2>1, <1>2
<1>4. \A k \in 1..Len(line) : /\ line[k] \in Letters \cup {Sh!Space}
                              /\ line[k] \notin {Sh!NullChar, Sh!Junk, "EOF"}
  BY <1>2, <1>3, LettersAssumption DEF Sh!NullChar, Sh!Junk, Sh!Space
<1>5. line # Sh!EndOfInput
  <2>1. ASSUME line = Sh!EndOfInput PROVE FALSE
    <3>1. Len(line) = 1 /\ line[1] = "EOF"
      BY <2>1 DEF Sh!EndOfInput
    <3>2. 1 \in 1..Len(line)
      BY <3>1
    <3> QED BY <3>1, <3>2, <1>4
  <2> QED BY <2>1
<1>6. line # <<>> => Len(line) > 0
  <2>1. Len(line) \in Nat /\ (Len(line) = 0 => line = <<>>)
    BY <1>3, EmptySeq
  <2> QED BY <2>1
<1> QED BY <1>1, <1>2, <1>3, <1>4, <1>5, <1>6

LEMMA ShCardinality == \A S : Sh!Cardinality(S) = Cardinality(S)
<1> SUFFICES ASSUME NEW S PROVE Sh!Cardinality(S) = Cardinality(S)
  OBVIOUS
<1> QED BY Zenon DEF Sh!Cardinality, Cardinality

LEMMA BeginsRange ==
  ASSUME NEW line \in Sh!Lines
  PROVE  /\ Len(line) \in Nat
         /\ \A k \in Sh!Begins(line) : k \in Int /\ 1 <= k /\ k <= Len(line) + 1
<1>1. Len(line) \in Nat
  BY LineFacts
<1> QED BY <1>1 DEF Sh!Begins

(* Words are counted one by one.                                           *)
LEMMA NthNext ==
  ASSUME NEW line \in Sh!Lines, NEW k \in Nat
  PROVE  /\ Sh!Nth(line, k) \in Nat /\ Sh!Nth(line, k) <= k
         /\ Sh!Nth(line, k + 1) =
              Sh!Nth(line, k) + IF k + 1 \in Sh!Begins(line) THEN 1 ELSE 0
<1> DEFINE S == {j \in Sh!Begins(line) : j <= k}
           T == {j \in Sh!Begins(line) : j <= k + 1}
<1>0. \A j \in Sh!Begins(line) : j \in Int /\ 1 <= j
  BY BeginsRange
<1>1. /\ IsFiniteSet(1..k) /\ Cardinality(1..k) = k
      /\ S \in SUBSET (1..k) /\ k + 1 \notin S
  <2>1. S \in SUBSET (1..k) /\ k + 1 \notin S
    BY <1>0
  <2>2. IsFiniteSet(1..k) /\ Cardinality(1..k) = k
    <3>1. IsFiniteSet(1..k) /\ Cardinality(1..k) = IF 1 > k THEN 0 ELSE k - 1 + 1
      BY FS_Interval
    <3> QED BY <3>1
  <2> QED BY <2>1, <2>2
<1>2. Sh!Begins(line) \subseteq Int
  BY <1>0
<1>3. T = IF k + 1 \in Sh!Begins(line) THEN S \cup {k + 1} ELSE S
  BY <1>2
<1>4. Sh!Nth(line, k) = Cardinality(S) /\ Sh!Nth(line, k + 1) = Cardinality(T)
  BY ShCardinality DEF Sh!Nth
<1> HIDE DEF S, T
<1>5. IsFiniteSet(S) /\ Cardinality(S) <= k
  BY <1>1, FS_Subset
<1>6. Cardinality(S) \in Nat
  BY <1>5, FS_CardinalityType
<1>7. Cardinality(S \cup {k + 1}) = Cardinality(S) + 1
  BY <1>1, <1>5, FS_AddElement
<1> QED BY <1>3, <1>4, <1>5, <1>6, <1>7

LEMMA NthMonotone ==
  ASSUME NEW line \in Sh!Lines, NEW j \in Nat, NEW k \in Nat, j <= k
  PROVE  Sh!Nth(line, j) <= Sh!Nth(line, k)
<1> DEFINE S == {u \in Sh!Begins(line) : u <= j}
           T == {u \in Sh!Begins(line) : u <= k}
<1>1. IsFiniteSet(1..k) /\ T \in SUBSET (1..k) /\ S \in SUBSET T
  <2>1. IsFiniteSet(1..k)
    BY FS_Interval
  <2> QED BY <2>1, BeginsRange
<1>2. Sh!Nth(line, j) = Cardinality(S) /\ Sh!Nth(line, k) = Cardinality(T)
  BY ShCardinality DEF Sh!Nth
<1> HIDE DEF S, T
<1>3. IsFiniteSet(T)
  BY <1>1, FS_Subset
<1>4. Cardinality(S) <= Cardinality(T)
  BY <1>1, <1>3, FS_Subset
<1> QED BY <1>2, <1>4

LEMMA NthBegin ==
  ASSUME NEW line \in Sh!Lines, NEW k \in Sh!Begins(line)
  PROVE  /\ k \in 1..(Len(line) + 1) /\ k - 1 \in Nat
         /\ Sh!Nth(line, k) = Sh!Nth(line, k - 1) + 1
         /\ Sh!Nth(line, k) \in Nat /\ Sh!Nth(line, k) >= 1
<1>1. k \in 1..(Len(line) + 1) /\ k - 1 \in Nat
  BY BeginsRange
<1>2. Sh!Nth(line, k - 1) \in Nat
      /\ Sh!Nth(line, (k - 1) + 1) =
           Sh!Nth(line, k - 1) + IF (k - 1) + 1 \in Sh!Begins(line) THEN 1 ELSE 0
  BY <1>1, NthNext
<1>3. (k - 1) + 1 = k
  BY <1>1
<1> QED BY <1>1, <1>2, <1>3

LEMMA NthAll ==
  ASSUME NEW line \in Sh!Lines
  PROVE  Sh!Nth(line, Len(line) + 1) = Sh!Cardinality(Sh!Begins(line))
<1>1. {j \in Sh!Begins(line) : j <= Len(line) + 1} = Sh!Begins(line)
  BY BeginsRange
<1> QED BY <1>1 DEF Sh!Nth

(* The strings in the buffer, and what argv lists, are where they end.     *)
LEMMA StringIs ==
  ASSUME NEW b, DOMAIN b = Indices, NEW p \in Nat, NEW e, EndsAt(b, p, e)
  PROVE  Sh!String(b, p) = [k \in 1..(e - p) |-> b[p + k - 1]]
<1> DEFINE Q(n) == n >= p /\ b[n] = Sh!NullChar /\ \A k \in p..(n - 1) : b[k] # Sh!NullChar
           end == CHOOSE n \in DOMAIN b : Q(n)
<1>1. MaxLine \in Nat
  BY MaxLineAssumption
<1>2. e \in Indices /\ Q(e)
  BY DEF EndsAt, Indices
<1>3. \A n \in Indices : Q(n) => n = e
  <2> SUFFICES ASSUME NEW n \in Indices, Q(n) PROVE n = e
    OBVIOUS
  <2>1. n \in Int /\ e \in Int
    BY <1>1, <1>2 DEF Indices
  <2>2. ~(n < e)
    BY <1>2, <2>1
  <2>3. ~(e < n)
    BY <1>2, <2>1
  <2> QED BY <2>1, <2>2, <2>3
<1>4. end = e
  BY <1>2, <1>3
<1> QED BY <1>4 DEF Sh!String

LEMMA WordsAre ==
  ASSUME NEW b, NEW av, DOMAIN av = Indices, NEW c, Listed(av, c)
  PROVE  Sh!Words(b, av) = [k \in 1..c |-> Sh!String(b, av[k - 1])]
<1> DEFINE Q(n) == av[n] = Sh!Null /\ \A j \in 0..(n - 1) : av[j] # Sh!Null
           m == CHOOSE k \in DOMAIN av : Q(k)
<1>1. MaxLine \in Nat /\ c \in Indices
  BY MaxLineAssumption DEF Listed
<1>2. Q(c)
  BY DEF Listed, Sh!Null
<1>3. \A n \in Indices : Q(n) => n = c
  <2> SUFFICES ASSUME NEW n \in Indices, Q(n) PROVE n = c
    OBVIOUS
  <2>1. n \in Nat /\ c \in Nat
    BY <1>1 DEF Indices
  <2>2. ~(n < c)
    BY <1>2, <2>1
  <2>3. ~(c < n)
    BY <1>2, <2>1
  <2> QED BY <2>1, <2>2, <2>3
<1>4. m = c
  BY <1>1, <1>2, <1>3
<1> QED BY <1>4 DEF Sh!Words

LEMMA TypesNow ==
  ASSUME CommandTypes
  PROVE  /\ MaxLine \in Nat /\ 0 \in Indices /\ 1 \in Indices
         /\ DOMAIN buffer = Indices /\ DOMAIN argv = Indices
         /\ ending \in Nat /\ ending <= MaxLine + 1 /\ arg \in Nat
         /\ \A k \in Indices : k \in Nat /\ argv[k] \in Int /\ buffer[k] \in Bytes
<1>1. MaxLine \in Nat
  BY MaxLineAssumption
<1>2. 0 \in Indices /\ 1 \in Indices /\ \A k \in Indices : k \in Nat /\ k <= MaxLine + 1
  BY <1>1 DEF Indices
<1>3. /\ DOMAIN buffer = Indices /\ DOMAIN argv = Indices /\ ending \in Indices /\ arg \in Nat
      /\ \A k \in Indices : argv[k] \in Int /\ buffer[k] \in Bytes
  BY DEF CommandTypes
<1> QED BY <1>1, <1>2, <1>3

LEMMA NotALine == Sh!EndOfInput # <<>> /\ Sh!EndOfInput \notin Sh!Lines
<1>1. Len(Sh!EndOfInput) = 1 /\ Len(<<>>) = 0
  BY DEF Sh!EndOfInput
<1>2. Sh!EndOfInput # <<>>
  BY <1>1
<1>3. Sh!EndOfInput \notin Sh!Lines
  BY LineFacts
<1> QED BY <1>2, <1>3

(* Bytes are told apart.                                                   *)
LEMMA BytesDiffer ==
  /\ Sh!Space # Sh!NullChar /\ Sh!Space # Sh!Junk /\ Sh!NullChar # Sh!Junk
  /\ Sh!Null \in Int /\ Sh!Wild \in Int /\ Sh!Null \notin Nat /\ Sh!Wild \notin Nat
  /\ Sh!Null # Sh!Wild
BY DEF Sh!Space, Sh!NullChar, Sh!Junk, Sh!Null, Sh!Wild

LEMMA CommandInit == Sh!Init => CommandInv
<1> SUFFICES ASSUME Sh!Init PROVE CommandInv
  OBVIOUS
<1>1. /\ buffer = [k \in Indices |-> Sh!Junk] /\ argv = [k \in Indices |-> Sh!Wild]
      /\ shell = "prompt" /\ ending = 0 /\ arg = 0 /\ typed = <<>>
  BY DEF Sh!Init, Indices
<1>2. MaxLine \in Nat /\ 0 \in Indices
  BY MaxLineAssumption DEF Indices
<1>3. <<>> \in Sh!Lines
  <2>1. <<>> \in [1..0 -> Letters \cup {Sh!Space}] /\ 0 \in 0..MaxLine
    BY <1>2
  <2> QED BY <2>1 DEF Sh!Lines
<1>4. CommandTypes
  BY <1>1, <1>2, <1>3, BytesDiffer DEF CommandTypes, Bytes
<1>5. Unwritten
  BY <1>1, <1>2 DEF Unwritten
<1> QED BY <1>1, <1>4, <1>5 DEF CommandInv

(* What is settled stays so when only the two bytes of an empty line are   *)
(* written, and all that changes in the words is the name.                 *)
LEMMA EmptyLineRead ==
  ASSUME CommandTypes, Settled,
         NEW b \in [Indices -> Bytes],
         \A k \in Indices : b[k] = IF k <= 1 THEN Sh!NullChar ELSE buffer[k]
  PROVE  /\ \E c \in Indices :
              /\ Listed(argv, c)
              /\ \A k \in 0..(c - 1) : \E e \in Indices : EndsAt(b, argv[k], e)
         /\ Sh!Words(b, argv) =
              [Now EXCEPT ![1] = IF Sh!Indented(command, 2) THEN Now[1] ELSE <<>>]
<1>1. PICK c \in Indices :
         /\ Listed(argv, c)
         /\ \A k \in 0..(c - 1) : \E e \in Indices : EndsAt(buffer, argv[k], e)
  BY DEF Settled
<1>2. /\ c \in Nat /\ c > 0 /\ MaxLine \in Nat /\ 0 \in Indices /\ 1 \in Indices
      /\ DOMAIN buffer = Indices /\ DOMAIN argv = Indices /\ DOMAIN b = Indices
      /\ \A k \in 0..(c - 1) : k \in Nat /\ argv[k] \in Nat /\ (k > 0 => argv[k] >= 2)
  BY <1>1, TypesNow DEF Listed
<1>3. /\ Sh!Words(b, argv) = [k \in 1..c |-> Sh!String(b, argv[k - 1])]
      /\ Now = [k \in 1..c |-> Sh!String(buffer, argv[k - 1])]
  BY <1>1, <1>2, WordsAre DEF Now
<1>4. ASSUME NEW p \in Nat, p >= 2, NEW e, EndsAt(buffer, p, e)
      PROVE  EndsAt(b, p, e) /\ Sh!String(b, p) = Sh!String(buffer, p)
  <2>1. e \in Indices /\ e \in Nat /\ e <= MaxLine + 1 /\ p <= e
    BY <1>4, <1>2 DEF EndsAt, Indices
  <2>2. \A k \in p..e : k \in Indices /\ ~(k <= 1)
    BY <2>1, <1>2, <1>4 DEF Indices
  <2>3. \A k \in p..e : b[k] = buffer[k]
    BY <2>2
  <2>4. EndsAt(b, p, e)
    BY <2>1, <2>3, <1>4 DEF EndsAt
  <2>5. /\ Sh!String(b, p) = [k \in 1..(e - p) |-> b[p + k - 1]]
        /\ Sh!String(buffer, p) = [k \in 1..(e - p) |-> buffer[p + k - 1]]
    BY <2>4, <1>2, <1>4, StringIs
  <2>6. \A k \in 1..(e - p) : b[p + k - 1] = buffer[p + k - 1]
    BY <2>1, <2>3
  <2> QED BY <2>4, <2>5, <2>6
<1>5. ASSUME NEW p \in {0, 1}
      PROVE  EndsAt(b, p, p) /\ Sh!String(b, p) = <<>>
  <2>1. p \in Nat /\ p \in Indices /\ b[p] = Sh!NullChar
    BY <1>2, <1>5
  <2>2. EndsAt(b, p, p)
    BY <2>1 DEF EndsAt
  <2>3. Sh!String(b, p) = [k \in 1..(p - p) |-> b[p + k - 1]]
    BY <2>1, <2>2, <1>2, StringIs
  <2>4. 1..(p - p) = {}
    BY <2>1
  <2>5. [k \in 1..(p - p) |-> b[p + k - 1]] = <<>>
    BY <2>4
  <2> QED BY <2>2, <2>3, <2>5
<1>6. argv[0] > 1 <=> Sh!Indented(command, 2)
  BY DEF Settled
<1>7. ASSUME NEW k \in 0..(c - 1) PROVE \E e \in Indices : EndsAt(b, argv[k], e)
  <2>1. CASE argv[k] >= 2
    BY <2>1, <1>1, <1>2, <1>4
  <2>2. CASE ~(argv[k] >= 2)
    <3>1. argv[k] \in {0, 1}
      BY <2>2, <1>2
    <3> QED BY <3>1, <1>5, <1>2
  <2> QED BY <2>1, <2>2
<1>8. ASSUME NEW k \in 1..c
      PROVE  Sh!String(b, argv[k - 1]) =
               IF k = 1 /\ ~Sh!Indented(command, 2) THEN <<>>
               ELSE Sh!String(buffer, argv[k - 1])
  <2>1. k - 1 \in 0..(c - 1) /\ (k # 1 => k - 1 > 0)
    BY <1>2
  <2>2. CASE argv[k - 1] >= 2
    <3>1. PICK e \in Indices : EndsAt(buffer, argv[k - 1], e)
      BY <2>1, <1>1
    <3>2. Sh!String(b, argv[k - 1]) = Sh!String(buffer, argv[k - 1])
      BY <2>1, <2>2, <3>1, <1>2, <1>4
    <3>3. k = 1 => Sh!Indented(command, 2)
      <4>1. k = 1 => argv[0] > 1
        BY <2>2, <1>2, <2>1
      <4> QED BY <4>1, <1>6
    <3> QED BY <3>2, <3>3
  <2>3. CASE ~(argv[k - 1] >= 2)
    <3>1. k = 1 /\ argv[0] \in {0, 1} /\ argv[k - 1] = argv[0]
      BY <2>1, <2>3, <1>2
    <3>2. ~Sh!Indented(command, 2)
      BY <3>1, <1>6
    <3> QED BY <3>1, <3>2, <1>5
  <2> QED BY <2>2, <2>3
<1>9. Sh!Words(b, argv) =
        [Now EXCEPT ![1] = IF Sh!Indented(command, 2) THEN Now[1] ELSE <<>>]
  <2>1. 1 \in 1..c /\ 1 \in DOMAIN Now
    BY <1>2, <1>3
  <2> DEFINE name == IF Sh!Indented(command, 2) THEN Now[1] ELSE <<>>
             changed == [Now EXCEPT ![1] = name]
  <2>2. /\ changed = [k \in 1..c |-> IF k = 1 THEN name ELSE Now[k]]
    BY <1>3
  <2>3. ASSUME NEW k \in 1..c
        PROVE  Sh!String(b, argv[k - 1]) = IF k = 1 THEN name ELSE Now[k]
    <3>1. Now[k] = Sh!String(buffer, argv[k - 1])
      BY <1>3
    <3> QED BY <3>1, <1>8
  <2> QED BY <2>2, <2>3, <1>3
<1> QED BY <1>1, <1>7, <1>9

LEMMA ReadKeeps ==
  ASSUME CommandInv, NEW line \in Sh!Lines \cup {Sh!EndOfInput}, Sh!ReadLine(line)
  PROVE  CommandInv'
<1>1. /\ shell = "prompt" /\ shell' = "ending" /\ ending' = 0 /\ arg' = 0
      /\ typed' = line /\ argv' = argv /\ ran' = ran
      /\ buffer' = Sh!Stored(line)
      /\ command' = IF line \in {<<>>, Sh!EndOfInput} THEN command ELSE line
  BY DEF Sh!ReadLine
<1>2. /\ CommandTypes /\ MaxLine \in Nat /\ 0 \in Indices /\ 1 \in Indices
      /\ DOMAIN buffer = Indices /\ DOMAIN argv = Indices
      /\ \A k \in Indices : k \in Nat /\ buffer[k] \in Bytes
      /\ buffer \in [Indices -> Bytes] /\ argv \in [Indices -> Int]
      /\ Unwritten \/ (Settled /\ ran = Now)
  BY <1>1, TypesNow DEF CommandInv, CommandTypes
<1>3. line # Sh!EndOfInput =>
        /\ line \in Sh!Lines /\ Len(line) \in Nat
        /\ \A k \in 1..Len(line) : line[k] \in Letters \cup {Sh!Space}
        /\ buffer' = [k \in Indices |->
                        IF k < Len(line) THEN line[k + 1]
                        ELSE IF k <= Len(line) + 1 THEN Sh!NullChar ELSE buffer[k]]
  BY <1>1, <1>2, LineFacts DEF Sh!Stored
<1>4. buffer' \in [Indices -> Bytes]
  <2>1. CASE line = Sh!EndOfInput
    BY <2>1, <1>1, <1>2 DEF Sh!Stored
  <2>2. CASE line # Sh!EndOfInput
    <3>1. \A k \in Indices : k < Len(line) => line[k + 1] \in Bytes
      <4> SUFFICES ASSUME NEW k \in Indices, k < Len(line) PROVE line[k + 1] \in Bytes
        OBVIOUS
      <4>1. k + 1 \in 1..Len(line)
        BY <1>2, <1>3, <2>2
      <4> QED BY <4>1, <1>3, <2>2 DEF Bytes
    <3>2. Sh!NullChar \in Bytes
      BY DEF Bytes
    <3> QED BY <3>1, <3>2, <2>2, <1>2, <1>3
  <2> QED BY <2>1, <2>2
<1>5. CommandTypes'
  BY <1>1, <1>2, <1>4 DEF CommandTypes
<1>6. CASE line = Sh!EndOfInput
  <2>1. buffer' = buffer /\ command' = command /\ typed' = Sh!EndOfInput /\ typed' # <<>>
    BY <1>1, <1>6, NotALine DEF Sh!Stored
  <2>2. CASE Unwritten
    <3>1. buffer'[0] = Sh!Junk
      BY <2>1, <2>2, <1>2 DEF Unwritten
    <3>2. AtEnd'
      BY <3>1, <1>1 DEF AtEnd
    <3> QED BY <3>2, <2>1, <1>1, <1>5 DEF CommandInv
  <2>3. CASE Settled /\ ran = Now
    <3>1. Settled'
      BY <2>1, <2>3, <1>1 DEF Settled
    <3>2. Now' = Now
      BY <2>1, <1>1 DEF Now
    <3>3. Outcome(Now)'
      BY <3>2, <2>1, <2>3, <1>1 DEF Outcome
    <3>4. AtEnd'
      BY <3>1, <3>3, <1>1 DEF AtEnd
    <3> QED BY <3>4, <2>1, <1>1, <1>5 DEF CommandInv
  <2> QED BY <2>2, <2>3, <1>2
<1>7. CASE line = <<>>
  <2>1. /\ command' = command /\ typed' = <<>> /\ typed' # Sh!EndOfInput
        /\ line # Sh!EndOfInput /\ Len(line) = 0
    BY <1>1, <1>7, NotALine
  <2>2. \A k \in Indices : buffer'[k] = IF k <= 1 THEN Sh!NullChar ELSE buffer[k]
    <3>1. \A k \in Indices : ~(k < 0)
      BY <1>2
    <3> QED BY <3>1, <2>1, <1>3
  <2>3. buffer'[0] = Sh!NullChar
    BY <2>2, <1>2
  <2>4. CASE Unwritten
    <3>1. AtEmpty'
      BY <2>3, <2>4, <1>1 DEF AtEmpty, Unwritten
    <3> QED BY <3>1, <2>1, <1>1, <1>5 DEF CommandInv
  <2>5. CASE Settled /\ ran = Now
    <3>1. /\ \E c \in Indices :
               /\ Listed(argv, c)
               /\ \A k \in 0..(c - 1) : \E e \in Indices : EndsAt(buffer', argv[k], e)
          /\ Sh!Words(buffer', argv) =
               [Now EXCEPT ![1] = IF Sh!Indented(command, 2) THEN Now[1] ELSE <<>>]
      BY <2>2, <2>5, <1>2, <1>4, EmptyLineRead
    <3>2. Settled'
      <4>1. \A k \in Indices : buffer'[k] # Sh!Space
        BY <2>2, <2>5, BytesDiffer DEF Settled
      <4>2. buffer'[0] # Sh!Junk
        BY <2>3, BytesDiffer
      <4>3. argv'[0] > 1 <=> Sh!Indented(command', 2)
        BY <2>1, <2>5, <1>1 DEF Settled
      <4> QED BY <3>1, <4>1, <4>2, <4>3, <2>3, <1>1 DEF Settled
    <3>3. Now' = [ran EXCEPT ![1] = IF Sh!Indented(command, 2) THEN ran[1] ELSE <<>>]
      BY <3>1, <2>5, <1>1 DEF Now
    <3>4. Outcome(Now)'
      BY <3>3, <2>1, <1>1 DEF Outcome
    <3>5. AtEmpty'
      BY <3>2, <3>4, <2>3, <1>1 DEF AtEmpty
    <3> QED BY <3>5, <2>1, <1>1, <1>5 DEF CommandInv
  <2> QED BY <2>4, <2>5, <1>2
<1>8. CASE line \notin {<<>>, Sh!EndOfInput}
  <2>1. /\ command' = line /\ typed' = line /\ line \in Sh!Lines
        /\ Len(line) \in Nat /\ Len(line) > 0 /\ Len(line) <= MaxLine
    BY <1>1, <1>3, <1>8, <1>2, LineFacts
  <2>2. Reached' = 0
    BY <2>1, <1>1 DEF Reached
  <2>3. Sh!Nth(line, 0) = 0
    <3>1. Sh!Nth(line, 0) \in Nat /\ Sh!Nth(line, 0) <= 0
      BY <2>1, NthNext
    <3> QED BY <3>1
  <2>4. ASSUME NEW k \in 0..(Len(line) + 1)
        PROVE  buffer'[k] = IF k >= Len(line) THEN Sh!NullChar ELSE line[k + 1]
    <3>1. k \in Indices /\ k \in Nat /\ (k >= Len(line) <=> ~(k < Len(line)))
      BY <2>1, <1>2 DEF Indices
    <3> QED BY <3>1, <1>3, <1>8
  <2>5. ASSUME NEW k \in 0..(Len(line) + 1)
        PROVE  (buffer[k] = ByteNow(k))'
    <3>1. ~(k < 0)
      OBVIOUS
    <3>2. ByteNow(k)' = IF k >= Len(line) THEN Sh!NullChar ELSE line[k + 1]
      BY <3>1, <2>1, <1>1 DEF ByteNow
    <3> QED BY <3>2, <2>4
  <2>6. ASSUME NEW k \in Indices, k > Len(line) PROVE buffer'[k] # Sh!Space
    <3>1. buffer[k] # Sh!Space
      BY <1>2, BytesDiffer DEF Unwritten, Settled
    <3>2. buffer'[k] \in {Sh!NullChar, buffer[k]}
      <4>1. ~(k < Len(line))
        BY <2>1, <2>6, <1>2
      <4> QED BY <4>1, <1>3, <1>8
    <3> QED BY <3>1, <3>2, BytesDiffer
  <2>7. \A k \in Sh!Begins(line) : ~(k <= 0)
    BY <2>1, BeginsRange
  <2>8. 0..(0 - 1) = {}
    OBVIOUS
  <2>9. InLine'
    BY <2>1, <2>2, <2>3, <2>5, <2>6, <2>7, <2>8, <1>1 DEF InLine
  <2>10. typed' # <<>> /\ typed' # Sh!EndOfInput
    BY <2>1, <1>8
  <2> QED BY <2>9, <2>10, <1>1, <1>5 DEF CommandInv
<1> QED BY <1>6, <1>7, <1>8

-------------------------------------------------------------------------------
(* A line that fix_ending is in.                                           *)
LEMMA InLineFacts ==
  ASSUME CommandTypes, InLine, typed \notin {<<>>, Sh!EndOfInput}
  PROVE  /\ typed \in Sh!Lines /\ Len(typed) \in Nat /\ Len(typed) > 0
         /\ Len(typed) <= MaxLine /\ MaxLine \in Nat
         /\ ending \in Nat /\ ending <= Len(typed) /\ arg \in Nat
         /\ \A k \in 1..Len(typed) : typed[k] \notin {Sh!NullChar, Sh!Junk}
         /\ \A k \in 0..(Len(typed) + 1) :
              /\ k \in Indices
              /\ k >= Len(typed) => buffer[k] = Sh!NullChar
              /\ k < Len(typed) => /\ k + 1 \in 1..Len(typed)
                                   /\ buffer[k] = IF k < ending /\ typed[k + 1] = Sh!Space
                                                  THEN Sh!NullChar ELSE typed[k + 1]
         /\ \A k \in Indices : k \in Nat /\ k <= MaxLine + 1
<1>1. /\ typed \in Sh!Lines /\ MaxLine \in Nat /\ ending \in Nat /\ arg \in Nat
      /\ \A k \in Indices : k \in Nat /\ k <= MaxLine + 1
  BY TypesNow DEF CommandTypes, Indices
<1>2. /\ Len(typed) \in Nat /\ Len(typed) > 0 /\ Len(typed) <= MaxLine
      /\ \A k \in 1..Len(typed) : typed[k] \notin {Sh!NullChar, Sh!Junk}
  BY <1>1, LineFacts
<1>3. ASSUME NEW k \in 0..(Len(typed) + 1)
      PROVE  /\ k \in Indices
             /\ k >= Len(typed) => buffer[k] = Sh!NullChar
             /\ k < Len(typed) => /\ k + 1 \in 1..Len(typed)
                                  /\ buffer[k] = IF k < ending /\ typed[k + 1] = Sh!Space
                                                 THEN Sh!NullChar ELSE typed[k + 1]
  <2>1. k \in Indices /\ k \in Nat
    BY <1>1, <1>2 DEF Indices
  <2>2. buffer[k] = ByteNow(k)
    BY DEF InLine
  <2>3. k < Len(typed) => k + 1 \in 1..Len(typed) /\ ~(k >= Len(typed))
    BY <2>1, <1>2
  <2> QED BY <2>1, <2>2, <2>3 DEF ByteNow
<1> QED BY <1>1, <1>2, <1>3 DEF InLine

(* Where the first words begin.                                            *)
LEMMA FirstBegins ==
  ASSUME NEW line \in Sh!Lines, line # <<>>
  PROVE  /\ 1 \in Sh!Begins(line) <=> line[1] # Sh!Space
         /\ 2 \in Sh!Begins(line) <=>
              line[1] = Sh!Space /\ (Len(line) > 1 => line[2] # Sh!Space)
         /\ Sh!Nth(line, 0) = 0
         /\ Sh!Nth(line, 1) = IF line[1] # Sh!Space THEN 1 ELSE 0
         /\ Sh!Nth(line, 2) <= 1
         /\ 2 \in Sh!Begins(line) => Sh!Nth(line, 2) = 1
<1>1. Len(line) \in Nat /\ Len(line) > 0
  BY LineFacts
<1>2. 1 \in Sh!Begins(line) <=> line[1] # Sh!Space
  BY <1>1 DEF Sh!Begins
<1>3. 2 \in Sh!Begins(line) <=>
        line[1] = Sh!Space /\ (Len(line) > 1 => line[2] # Sh!Space)
  <2>1. 2 \in 1..(Len(line) + 1) /\ (2 <= Len(line) <=> Len(line) > 1) /\ 2 > 1 /\ 2 - 1 = 1
    BY <1>1
  <2> QED BY <2>1 DEF Sh!Begins
<1>4. Sh!Nth(line, 0) = 0
  <2>1. Sh!Nth(line, 0) \in Nat /\ Sh!Nth(line, 0) <= 0
    BY NthNext
  <2> QED BY <2>1
<1>5. Sh!Nth(line, 1) = IF line[1] # Sh!Space THEN 1 ELSE 0
  <2>1. Sh!Nth(line, 0 + 1) = Sh!Nth(line, 0) + IF 0 + 1 \in Sh!Begins(line) THEN 1 ELSE 0
    BY NthNext
  <2>2. 0 + 1 = 1
    OBVIOUS
  <2> QED BY <2>1, <2>2, <1>2, <1>4
<1>6. Sh!Nth(line, 2) = Sh!Nth(line, 1) + IF 2 \in Sh!Begins(line) THEN 1 ELSE 0
  <2>1. Sh!Nth(line, 1 + 1) = Sh!Nth(line, 1) + IF 1 + 1 \in Sh!Begins(line) THEN 1 ELSE 0
    BY NthNext
  <2>2. 1 + 1 = 2
    OBVIOUS
  <2> QED BY <2>1, <2>2
<1> QED BY <1>2, <1>3, <1>4, <1>5, <1>6

(* When the whole line is cut, the string where a word begins is the word. *)
LEMMA WordAt ==
  ASSUME CommandTypes, InLine, typed \notin {<<>>, Sh!EndOfInput},
         ending = Len(typed), NEW j \in 0..Len(typed)
  PROVE  /\ \E e \in Indices : EndsAt(buffer, j, e)
         /\ Sh!IsWord(Sh!String(buffer, j), typed, j + 1)
<1> DEFINE n == Len(typed)
           T == {e \in j..n : buffer[e] = Sh!NullChar}
<1>1. /\ n \in Nat /\ n > 0 /\ j \in Nat /\ j <= n
      /\ \A k \in 1..n : typed[k] \notin {Sh!NullChar, Sh!Junk}
      /\ \A k \in 0..(n + 1) :
           /\ k \in Indices
           /\ k >= n => buffer[k] = Sh!NullChar
           /\ k < n => /\ k + 1 \in 1..n
                       /\ buffer[k] = IF k < ending /\ typed[k + 1] = Sh!Space
                                      THEN Sh!NullChar ELSE typed[k + 1]
  BY InLineFacts
<1> HIDE DEF n
<1>2. ending = n
  BY DEF n
<1>3. \A k \in 0..(n - 1) : /\ k + 1 \in 1..n
                            /\ buffer[k] = IF typed[k + 1] = Sh!Space
                                           THEN Sh!NullChar ELSE typed[k + 1]
                            /\ buffer[k] = Sh!NullChar <=> typed[k + 1] = Sh!Space
  <2> SUFFICES ASSUME NEW k \in 0..(n - 1)
               PROVE  /\ k + 1 \in 1..n
                      /\ buffer[k] = IF typed[k + 1] = Sh!Space
                                     THEN Sh!NullChar ELSE typed[k + 1]
                      /\ buffer[k] = Sh!NullChar <=> typed[k + 1] = Sh!Space
    OBVIOUS
  <2>1. k \in 0..(n + 1) /\ k < n
    BY <1>1
  <2> QED BY <2>1, <1>1, <1>2
<1>4. T \in SUBSET Nat /\ n \in T
  <2>1. n \in 0..(n + 1) /\ n >= n /\ n \in j..n
    BY <1>1
  <2> QED BY <2>1, <1>1
<1>5. PICK e \in T : \A k \in T : e <= k
  BY <1>4, LeastNumber
<1>6. /\ e \in Nat /\ j <= e /\ e <= n /\ e \in Indices /\ buffer[e] = Sh!NullChar
      /\ \A k \in j..(e - 1) : buffer[k] # Sh!NullChar
  <2>1. e \in Nat /\ j <= e /\ e <= n /\ buffer[e] = Sh!NullChar
    BY <1>1, <1>5
  <2>2. e \in Indices
    <3>1. e \in 0..(n + 1)
      BY <2>1, <1>1
    <3> QED BY <3>1, <1>1
  <2>3. ASSUME NEW k \in j..(e - 1), buffer[k] = Sh!NullChar PROVE FALSE
    <3>1. k \in T /\ k < e
      BY <2>1, <2>3, <1>1
    <3> QED BY <3>1, <2>1, <1>4, <1>5
  <2> QED BY <2>1, <2>2, <2>3
<1> HIDE DEF T
<1>7. EndsAt(buffer, j, e)
  BY <1>6 DEF EndsAt
<1> DEFINE w == Sh!String(buffer, j)
<1>8. w = [k \in 1..(e - j) |-> buffer[j + k - 1]]
  BY <1>1, <1>7, TypesNow, StringIs
<1>9. Len(w) = e - j
  <2>1. e - j \in Nat
    BY <1>1, <1>6
  <2> QED BY <2>1, <1>8
<1> HIDE DEF w
<1>10. Len(w) \in 0..(n + 1 - (j + 1))
  BY <1>1, <1>6, <1>9
<1>11. ASSUME NEW k \in 1..Len(w)
       PROVE  w[k] = typed[j + 1 + k - 1] /\ w[k] # Sh!Space
  <2>1. k \in 1..(e - j) /\ w[k] = buffer[j + k - 1]
    BY <1>8, <1>9
  <2>2. j + k - 1 \in j..(e - 1) /\ j + k - 1 \in 0..(n - 1) /\ (j + k - 1) + 1 = j + 1 + k - 1
    BY <2>1, <1>1, <1>6
  <2>3. buffer[j + k - 1] # Sh!NullChar
    BY <2>2, <1>6
  <2>4. typed[(j + k - 1) + 1] # Sh!Space /\ buffer[j + k - 1] = typed[(j + k - 1) + 1]
    BY <2>2, <2>3, <1>3
  <2> QED BY <2>1, <2>2, <2>4
<1>12. ASSUME j + 1 + Len(w) <= n PROVE typed[j + 1 + Len(w)] = Sh!Space
  <2>1. j + 1 + Len(w) = e + 1 /\ e \in 0..(n - 1)
    BY <1>1, <1>6, <1>9, <1>12
  <2> QED BY <2>1, <1>3, <1>6
<1>13. Sh!IsWord(w, typed, j + 1)
  BY <1>10, <1>11, <1>12 DEF Sh!IsWord, n
<1> QED BY <1>6, <1>7, <1>13 DEF w

(* At the end of the line its words are what will be executed.             *)
LEMMA LineParsed ==
  ASSUME CommandTypes, InLine, typed \notin {<<>>, Sh!EndOfInput},
         shell = "ending", ending = Len(typed)
  PROVE  Settled /\ Outcome(Now)
<1> DEFINE n == Len(typed)
           B == Sh!Begins(typed)
<1>1. /\ typed \in Sh!Lines /\ n \in Nat /\ n > 0 /\ n <= MaxLine /\ MaxLine \in Nat
      /\ arg \in Nat /\ ending = n
      /\ \A k \in 1..n : typed[k] \notin {Sh!NullChar, Sh!Junk}
      /\ \A k \in 0..(n + 1) :
           /\ k \in Indices
           /\ k >= n => buffer[k] = Sh!NullChar
           /\ k < n => /\ k + 1 \in 1..n
                       /\ buffer[k] = IF k < ending /\ typed[k + 1] = Sh!Space
                                      THEN Sh!NullChar ELSE typed[k + 1]
      /\ \A k \in Indices : k \in Nat /\ k <= MaxLine + 1
  BY InLineFacts
<1>2. /\ command = typed /\ arg > 0 /\ argv[arg] = Sh!Null
      /\ arg = Sh!Nth(typed, n + 1)
      /\ \A k \in B : k <= n + 1 => argv[Sh!Nth(typed, k) - 1] = k - 1
      /\ \A u \in 0..(arg - 1) : argv[u] + 1 \in B /\ Sh!Nth(typed, argv[u] + 1) = u + 1
      /\ \A k \in Indices : k > n => buffer[k] # Sh!Space
  <2>1. Reached = n + 1
    BY <1>1 DEF Reached
  <2> QED BY <2>1, <1>1 DEF InLine
<1>3. \A k \in B : k \in 1..(n + 1) /\ argv[Sh!Nth(typed, k) - 1] = k - 1
  <2>1. \A k \in B : k \in Int /\ 1 <= k /\ k <= n + 1
    BY <1>1, BeginsRange
  <2> QED BY <2>1, <1>1, <1>2
<1>4. arg <= n + 1 /\ arg \in Indices /\ arg = Sh!Cardinality(B)
  <2>1. n + 1 \in Nat
    BY <1>1
  <2>2. Sh!Nth(typed, n + 1) <= n + 1
    BY <2>1, <1>1, NthNext
  <2>3. arg = Sh!Cardinality(B)
    BY <1>1, <1>2, NthAll
  <2> HIDE DEF n, B
  <2>4. arg \in 0..(n + 1)
    BY <2>2, <1>1, <1>2
  <2> QED BY <2>2, <2>3, <2>4, <1>1, <1>2
<1>5. /\ 1 \in B <=> typed[1] # Sh!Space
      /\ 2 \in B <=> typed[1] = Sh!Space /\ (n > 1 => typed[2] # Sh!Space)
      /\ Sh!Nth(typed, 0) = 0
      /\ Sh!Nth(typed, 1) = IF typed[1] # Sh!Space THEN 1 ELSE 0
      /\ Sh!Nth(typed, 2) <= 1
      /\ 2 \in B => Sh!Nth(typed, 2) = 1
  BY <1>1, FirstBegins
<1> HIDE DEF n, B
<1>6. Listed(argv, arg)
  <2>1. ASSUME NEW k \in 0..(arg - 1)
        PROVE  argv[k] \in Nat /\ (k > 0 => argv[k] >= 2)
    <3>1. argv[k] + 1 \in B /\ Sh!Nth(typed, argv[k] + 1) = k + 1
      BY <1>2
    <3>2. k \in Indices /\ k \in Nat
      <4>1. k \in 0..(n + 1)
        BY <1>1, <1>4
      <4> QED BY <4>1, <1>1
    <3>3. argv[k] \in Int
      BY <3>2, TypesNow
    <3>4. argv[k] \in Nat
      <4>1. argv[k] + 1 \in 1..(n + 1)
        BY <3>1, <1>3
      <4> QED BY <4>1, <3>3, <1>1
    <3>5. argv[k] = 0 => k = 0
      <4>1. argv[k] = 0 => Sh!Nth(typed, 1) = k + 1
        BY <3>1
      <4> QED BY <4>1, <3>2, <1>5
    <3>6. argv[k] = 1 => k = 0
      <4>1. argv[k] = 1 => Sh!Nth(typed, 2) = k + 1 /\ 2 \in B
        BY <3>1
      <4> QED BY <4>1, <3>2, <1>5
    <3> QED BY <3>2, <3>4, <3>5, <3>6
  <2> QED BY <2>1, <1>2, <1>4 DEF Listed
<1>7. ASSUME NEW j \in 0..n
      PROVE  /\ \E e \in Indices : EndsAt(buffer, j, e)
             /\ Sh!IsWord(Sh!String(buffer, j), typed, j + 1)
  BY WordAt, <1>7 DEF n
<1>8. ASSUME NEW k \in 0..(arg - 1) PROVE \E e \in Indices : EndsAt(buffer, argv[k], e)
  <2>1. argv[k] \in Nat /\ argv[k] + 1 \in 1..(n + 1)
    BY <1>2, <1>3, <1>6 DEF Listed
  <2>2. argv[k] \in 0..n
    BY <2>1, <1>1
  <2> QED BY <2>2, <1>7
<1>9. ASSUME NEW k \in Indices PROVE buffer[k] # Sh!Space
  <2>1. CASE k > n
    BY <2>1, <1>2
  <2>2. CASE ~(k > n)
    <3>1. k \in 0..(n + 1) /\ (k < n => k < ending)
      BY <2>2, <1>1
    <3>2. CASE k < n
      <4>1. buffer[k] = IF typed[k + 1] = Sh!Space THEN Sh!NullChar ELSE typed[k + 1]
        BY <3>1, <3>2, <1>1
      <4> QED BY <4>1, BytesDiffer
    <3>3. CASE ~(k < n)
      <4>1. k >= n
        BY <3>1, <3>3, <1>1
      <4> QED BY <4>1, <3>1, <1>1, BytesDiffer
    <3> QED BY <3>2, <3>3
  <2> QED BY <2>1, <2>2
<1>10. /\ buffer[0] = IF typed[1] = Sh!Space THEN Sh!NullChar ELSE typed[1]
       /\ typed[1] \notin {Sh!NullChar, Sh!Junk}
  <2>1. 0 \in 0..(n + 1) /\ 0 < n /\ 0 < ending /\ 0 + 1 = 1 /\ 1 \in 1..n
    BY <1>1
  <2> QED BY <2>1, <1>1
<1>11. buffer[0] # Sh!Junk
  BY <1>10, BytesDiffer
<1>12. typed[1] # Sh!Space => argv[0] = 0
  <2>1. typed[1] # Sh!Space => argv[1 - 1] = 1 - 1
    BY <1>3, <1>5
  <2> QED BY <2>1
<1>13. 2 \in B => argv[0] = 1
  <2>1. 2 \in B => argv[1 - 1] = 2 - 1
    BY <1>3, <1>5
  <2> QED BY <2>1
<1>14. /\ Sh!Indented(typed, 1) <=> typed[1] = Sh!Space
       /\ Sh!Indented(typed, 2) <=> n > 1 /\ typed[1] = Sh!Space /\ typed[2] = Sh!Space
  <2>1. /\ \A k \in 1..1 : k = 1
        /\ 1 \in 1..1 /\ 1 \in 1..2 /\ 2 \in 1..2
        /\ \A k \in 1..2 : k = 1 \/ k = 2
        /\ n >= 1 /\ (n >= 2 <=> n > 1)
    BY <1>1
  <2> QED BY <2>1 DEF Sh!Indented, n
<1>15. argv[0] > 1 <=> Sh!Indented(typed, 2)
  <2>1. CASE Sh!Indented(typed, 2)
    <3>1. 1 \notin B /\ 2 \notin B
      BY <2>1, <1>5, <1>14
    <3>2. 0 \in 0..(arg - 1)
      BY <1>1, <1>2
    <3>3. argv[0] + 1 \in B /\ argv[0] \in Nat
      BY <3>2, <1>2, <1>6 DEF Listed
    <3>4. argv[0] # 0 /\ argv[0] # 1
      <4>1. 0 + 1 = 1 /\ 1 + 1 = 2
        OBVIOUS
      <4> QED BY <4>1, <3>1, <3>3
    <3> QED BY <3>3, <3>4, <2>1
  <2>2. CASE ~Sh!Indented(typed, 2)
    <3>1. typed[1] # Sh!Space \/ 2 \in B
      BY <2>2, <1>5, <1>14
    <3>2. argv[0] = 0 \/ argv[0] = 1
      BY <3>1, <1>12, <1>13
    <3> QED BY <3>2, <2>2
  <2> QED BY <2>1, <2>2
<1>16. Settled
  <2>1. Sh!Indented(command, 1) => buffer[0] = Sh!NullChar
    BY <1>2, <1>10, <1>14
  <2>2. buffer[0] # Sh!NullChar => argv[0] = 0
    BY <1>10, <1>12
  <2> QED BY <2>1, <2>2, <1>2, <1>4, <1>6, <1>8, <1>9, <1>11, <1>15 DEF Settled
<1>17. Now = [k \in 1..arg |-> Sh!String(buffer, argv[k - 1])]
  BY <1>6, TypesNow, WordsAre DEF Now
<1>18. Len(Now) = Sh!Cardinality(B)
  BY <1>1, <1>4, <1>17
<1>19. ASSUME NEW k \in B PROVE Sh!IsWord(Now[Sh!Nth(typed, k)], typed, k)
  <2> DEFINE u == Sh!Nth(typed, k)
  <2>1. k \in 1..(n + 1) /\ argv[u - 1] = k - 1
    BY <1>3
  <2>2. u \in 1..arg
    <3>1. k \in Nat /\ n + 1 \in Nat /\ k <= n + 1
      BY <2>1, <1>1
    <3>2. u <= arg
      BY <3>1, <1>1, <1>2, NthMonotone
    <3>3. u \in Nat /\ u >= 1
      BY <1>1, NthBegin DEF B
    <3> HIDE DEF u
    <3> QED BY <3>2, <3>3, <1>1
  <2> HIDE DEF u
  <2>3. Now[u] = Sh!String(buffer, argv[u - 1])
    BY <2>2, <1>17
  <2>4. k - 1 \in 0..n /\ (k - 1) + 1 = k
    BY <2>1, <1>1
  <2>5. Sh!IsWord(Sh!String(buffer, k - 1), typed, (k - 1) + 1)
    BY <2>4, <1>7
  <2>6. Sh!IsWord(Now[u], typed, k)
    BY <2>1, <2>3, <2>4, <2>5
  <2> QED BY <2>6 DEF u
<1>20. Sh!AreWords(Now, typed)
  BY <1>18, <1>19 DEF Sh!AreWords, B
<1> QED BY <1>16, <1>20 DEF Outcome

-------------------------------------------------------------------------------
LEMMA AtEndingKeeps ==
  ASSUME CommandInv, Sh!AtEnding
  PROVE  CommandInv'
<1>1. /\ shell = "ending"
      /\ shell' = CASE buffer[ending] = Sh!NullChar -> "compare"
                    [] buffer[ending] = Sh!Junk -> "undefined"
                    [] OTHER -> "blanks"
      /\ UNCHANGED <<buffer, argv, ending, arg, typed, command, ran>>
  BY DEF Sh!AtEnding
<1>2. /\ buffer[ending] = Sh!NullChar => shell' = "compare"
      /\ buffer[ending] = Sh!Junk => shell' = "undefined"
      /\ buffer[ending] \notin {Sh!NullChar, Sh!Junk} => shell' = "blanks"
  BY <1>1, BytesDiffer
<1>3. /\ CommandTypes
      /\ typed = Sh!EndOfInput => AtEnd
      /\ typed = <<>> => AtEmpty
      /\ typed \notin {<<>>, Sh!EndOfInput} => InLine
  BY <1>1 DEF CommandInv
<1>4. CommandTypes'
  BY <1>1, <1>2, <1>3 DEF CommandTypes
<1>5. /\ Now' = Now /\ (Settled <=> Settled') /\ (Outcome(Now) <=> Outcome(Now)')
  <2>1. Now' = Now
    BY <1>1 DEF Now
  <2>2. Settled <=> Settled'
    BY <1>1 DEF Settled
  <2>3. Outcome(Now) <=> Outcome(Now)'
    BY <1>1, <2>1 DEF Outcome
  <2> QED BY <2>1, <2>2, <2>3
<1>6. CASE typed = Sh!EndOfInput
  <2>1. typed # <<>>
    BY <1>6, NotALine
  <2>2. CASE ending = 0 /\ buffer[0] = Sh!Junk
    BY <2>2, <1>2, <1>4 DEF CommandInv
  <2>3. CASE /\ Settled /\ Outcome(Now)
             /\ buffer[ending] = Sh!NullChar \/ (ending = 0 /\ arg = 0)
    <3>1. CASE buffer[ending] = Sh!NullChar
      BY <3>1, <2>3, <1>2, <1>4, <1>5 DEF CommandInv
    <3>2. CASE buffer[ending] # Sh!NullChar
      <4>1. ending = 0 /\ arg = 0 /\ buffer[0] # Sh!Junk /\ buffer[0] # Sh!NullChar
        BY <3>2, <2>3 DEF Settled
      <4>2. shell' = "blanks"
        BY <4>1, <1>2
      <4>3. AtEnd'
        BY <4>1, <4>2, <2>3, <1>1, <1>5 DEF AtEnd
      <4> QED BY <4>2, <4>3, <2>1, <1>1, <1>4, <1>6 DEF CommandInv
    <3> QED BY <3>1, <3>2
  <2> QED BY <2>2, <2>3, <1>1, <1>3, <1>6 DEF AtEnd
<1>7. CASE typed = <<>>
  <2>1. AtEmpty /\ shell' = "compare"
    BY <1>2, <1>3, <1>7 DEF AtEmpty
  <2> QED BY <2>1, <1>1, <1>4, <1>5 DEF CommandInv, AtEmpty
<1>8. CASE typed \notin {<<>>, Sh!EndOfInput}
  <2>1. /\ Len(typed) \in Nat /\ Len(typed) > 0
        /\ ending \in Nat /\ ending <= Len(typed)
        /\ \A k \in 1..Len(typed) : typed[k] \notin {Sh!NullChar, Sh!Junk}
        /\ \A k \in 0..(Len(typed) + 1) :
              /\ k >= Len(typed) => buffer[k] = Sh!NullChar
              /\ k < Len(typed) => /\ k + 1 \in 1..Len(typed)
                                   /\ buffer[k] = IF k < ending /\ typed[k + 1] = Sh!Space
                                                  THEN Sh!NullChar ELSE typed[k + 1]
    BY <1>3, <1>8, InLineFacts
  <2>2. ending \in 0..(Len(typed) + 1)
    BY <2>1
  <2>3. CASE ending = Len(typed)
    <3>1. shell' = "compare"
      BY <2>1, <2>2, <2>3, <1>2
    <3>2. Settled /\ Outcome(Now)
      BY <2>3, <1>1, <1>3, <1>8, LineParsed
    <3> QED BY <3>1, <3>2, <1>4, <1>5 DEF CommandInv
  <2>4. CASE ending # Len(typed)
    <3>1. ending < Len(typed) /\ ~(ending < ending)
      BY <2>1, <2>4
    <3>2. buffer[ending] = typed[ending + 1] /\ ending + 1 \in 1..Len(typed)
      BY <3>1, <2>1, <2>2
    <3>3. shell' = "blanks"
      BY <3>2, <2>1, <1>2
    <3>4. Reached = ending /\ Reached' = ending
      BY <3>3, <2>4, <1>1 DEF Reached
    <3>5. \A k : ByteNow(k)' = ByteNow(k)
      BY <1>1 DEF ByteNow
    <3>6. InLine'
      BY <3>3, <3>4, <3>5, <1>1, <1>3, <1>8 DEF InLine
    <3> QED BY <3>3, <3>6, <1>1, <1>4, <1>8 DEF CommandInv
  <2> QED BY <2>3, <2>4
<1> QED BY <1>6, <1>7, <1>8

LEMMA SkipBlankKeeps ==
  ASSUME CommandInv, Sh!SkipBlank
  PROVE  CommandInv'
<1>1. /\ shell = "blanks" /\ shell' = "blanks" /\ buffer[ending] = Sh!Space
      /\ buffer' = [buffer EXCEPT ![ending] = Sh!NullChar] /\ ending' = ending + 1
      /\ UNCHANGED <<argv, arg, typed, command, ran>>
  BY DEF Sh!SkipBlank, Sh!Cut
<1>2. /\ CommandTypes
      /\ typed = Sh!EndOfInput => AtEnd
      /\ typed = <<>> => AtEmpty
      /\ typed \notin {<<>>, Sh!EndOfInput} => InLine
  BY <1>1 DEF CommandInv
<1>3. typed \notin {<<>>, Sh!EndOfInput} /\ InLine
  <2>1. typed # <<>>
    BY <1>1, <1>2 DEF AtEmpty
  <2>2. ASSUME typed = Sh!EndOfInput PROVE FALSE
    <3>1. Settled /\ ending \in Indices
      BY <2>2, <1>1, <1>2 DEF AtEnd, CommandTypes
    <3> QED BY <3>1, <1>1 DEF Settled
  <2> QED BY <2>1, <2>2, <1>2
<1> DEFINE n == Len(typed)
<1>4. /\ typed \in Sh!Lines /\ n \in Nat /\ n > 0 /\ n <= MaxLine /\ MaxLine \in Nat
      /\ ending \in Nat /\ ending <= n /\ arg \in Nat
      /\ \A k \in 1..n : typed[k] \notin {Sh!NullChar, Sh!Junk}
      /\ \A k \in 0..(n + 1) :
           /\ k \in Indices
           /\ k >= n => buffer[k] = Sh!NullChar
           /\ k < n => /\ k + 1 \in 1..n
                       /\ buffer[k] = IF k < ending /\ typed[k + 1] = Sh!Space
                                      THEN Sh!NullChar ELSE typed[k + 1]
      /\ \A k \in Indices : k \in Nat /\ k <= MaxLine + 1
  BY <1>2, <1>3, InLineFacts
<1> HIDE DEF n
<1>5. ending < n /\ typed[ending + 1] = Sh!Space /\ ending \in Indices /\ ending + 1 \in 0..(n + 1)
  <2>1. ending \in 0..(n + 1) /\ ending \in Indices
    BY <1>4
  <2>2. ending < n
    BY <2>1, <1>1, <1>4, BytesDiffer
  <2>3. buffer[ending] = typed[ending + 1]
    <3>1. ~(ending < ending)
      BY <1>4
    <3> QED BY <2>1, <2>2, <3>1, <1>4
  <2> QED BY <2>1, <2>2, <2>3, <1>1, <1>4
<1>6. CommandTypes'
  <2>1. buffer' \in [Indices -> Bytes]
    BY <1>1, <1>2 DEF CommandTypes, Bytes
  <2>2. ending' \in Indices
    BY <1>1, <1>4, <1>5
  <2> QED BY <2>1, <2>2, <1>1, <1>2 DEF CommandTypes
<1>7. ending + 1 \notin Sh!Begins(typed)
  <2>1. ending + 1 <= n
    BY <1>4, <1>5
  <2> QED BY <2>1, <1>5 DEF Sh!Begins, n
<1>8. Reached = ending /\ Reached' = ending + 1
  BY <1>1 DEF Reached
<1>9. Sh!Nth(typed, ending + 1) = Sh!Nth(typed, ending)
  <2>1. Sh!Nth(typed, ending) \in Nat
        /\ Sh!Nth(typed, ending + 1) = Sh!Nth(typed, ending)
             + IF ending + 1 \in Sh!Begins(typed) THEN 1 ELSE 0
    BY <1>4, NthNext
  <2> QED BY <2>1, <1>7
<1>10. \A k \in Indices : buffer'[k] = IF k = ending THEN Sh!NullChar ELSE buffer[k]
  BY <1>1, <1>2 DEF CommandTypes
<1>11. ASSUME NEW k \in 0..(n + 1) PROVE buffer'[k] = ByteNow(k)'
  <2>1. ByteNow(k)' = IF k >= n \/ (k < ending + 1 /\ typed[k + 1] = Sh!Space)
                      THEN Sh!NullChar ELSE typed[k + 1]
    BY <1>1 DEF ByteNow, n
  <2>2. buffer'[k] = IF k = ending THEN Sh!NullChar ELSE buffer[k]
    BY <1>4, <1>10
  <2>3. CASE k >= n
    BY <2>1, <2>2, <2>3, <1>4
  <2>4. CASE ~(k >= n)
    <3>1. k < n /\ (k < ending + 1 <=> k < ending \/ k = ending)
      BY <2>4, <1>4
    <3> QED BY <2>1, <2>2, <2>4, <3>1, <1>4, <1>5
  <2> QED BY <2>3, <2>4
<1>12. ASSUME NEW k \in Indices, k > n PROVE buffer'[k] # Sh!Space
  BY <1>3, <1>10, <1>12, BytesDiffer DEF InLine, n
<1>13. \A k \in Sh!Begins(typed) : k <= ending + 1 => k <= ending
  <2>1. \A k \in Sh!Begins(typed) : k \in Int
    BY <1>4, BeginsRange
  <2> QED BY <2>1, <1>4, <1>7
<1>14. InLine'
  <2>1. /\ ending' <= n /\ arg' = Sh!Nth(typed', Reached')
        /\ command' = typed' /\ typed'[ending'] = Sh!Space
    <3>1. arg = Sh!Nth(typed, ending) /\ command = typed
      BY <1>3, <1>8 DEF InLine
    <3> QED BY <3>1, <1>1, <1>4, <1>5, <1>8, <1>9
  <2>2. \A k \in Sh!Begins(typed') : k <= Reached' =>
           argv'[Sh!Nth(typed', k) - 1] = k - 1
    BY <1>1, <1>3, <1>8, <1>13 DEF InLine
  <2>3. \A u \in 0..(arg' - 1) : argv'[u] + 1 \in Sh!Begins(typed')
                                 /\ Sh!Nth(typed', argv'[u] + 1) = u + 1
    BY <1>1, <1>3 DEF InLine
  <2> QED BY <2>1, <2>2, <2>3, <1>1, <1>11, <1>12 DEF InLine, n
<1> QED BY <1>1, <1>3, <1>6, <1>14 DEF CommandInv

LEMMA StartWordKeeps ==
  ASSUME CommandInv, Sh!StartWord
  PROVE  CommandInv'
<1>1. /\ shell = "blanks" /\ shell' = "word" /\ buffer[ending] # Sh!Space
      /\ argv' = [argv EXCEPT ![arg] = ending] /\ arg' = arg + 1
      /\ UNCHANGED <<buffer, ending, typed, command, ran>>
  BY DEF Sh!StartWord
<1>2. /\ CommandTypes
      /\ typed = Sh!EndOfInput => AtEnd
      /\ typed = <<>> => AtEmpty
      /\ typed \notin {<<>>, Sh!EndOfInput} => InLine
  BY <1>1 DEF CommandInv
<1>3. /\ arg \in Nat /\ ending \in Nat /\ MaxLine \in Nat /\ DOMAIN argv = Indices
      /\ 0 \in Indices /\ \A k \in Indices : k \in Nat /\ k <= MaxLine + 1
  BY <1>2, TypesNow DEF Indices
<1>4. CommandTypes'
  <2>1. argv' \in [Indices -> Int]
    <3>1. argv \in [Indices -> Int] /\ ending \in Int
      BY <1>2, <1>3 DEF CommandTypes
    <3>2. argv' = [k \in Indices |-> IF k = arg THEN ending ELSE argv[k]]
      BY <3>1, <1>1
    <3> QED BY <3>1, <3>2
  <2> QED BY <2>1, <1>1, <1>2, <1>3 DEF CommandTypes
<1>5. typed # <<>>
  BY <1>1, <1>2 DEF AtEmpty
<1>6. CASE typed = Sh!EndOfInput
  <2>1. /\ Settled /\ Outcome(Now)
        /\ buffer[0] # Sh!NullChar /\ ending = 0 /\ arg = 0
    BY <1>1, <1>2, <1>6 DEF AtEnd
  <2>2. argv[0] = 0
    BY <2>1 DEF Settled
  <2>3. argv' = argv
    BY <1>1, <1>2, <2>1, <2>2 DEF CommandTypes
  <2>4. Now' = Now
    BY <2>3, <1>1 DEF Now
  <2>5. Settled' /\ Outcome(Now)'
    <3>1. Settled'
      BY <2>1, <2>3, <1>1 DEF Settled
    <3>2. Outcome(Now)'
      BY <2>1, <2>4, <1>1 DEF Outcome
    <3> QED BY <3>1, <3>2
  <2>6. AtEnd'
    <3>1. arg' = 1 /\ argv'[0] = 0 /\ buffer'[0] # Sh!NullChar
          /\ \A k \in 0..(ending' - 1) : buffer'[k] # Sh!NullChar
      BY <2>1, <2>2, <2>3, <1>1
    <3> QED BY <3>1, <2>5, <1>1 DEF AtEnd
  <2> QED BY <2>6, <1>1, <1>4, <1>5, <1>6 DEF CommandInv
<1>7. CASE typed # Sh!EndOfInput
  <2> DEFINE n == Len(typed)
  <2>1. InLine /\ typed \notin {<<>>, Sh!EndOfInput}
    BY <1>2, <1>5, <1>7
  <2>2. /\ typed \in Sh!Lines /\ n \in Nat /\ n > 0 /\ n <= MaxLine
        /\ ending <= n
        /\ \A k \in 0..(n + 1) :
             /\ k \in Indices
             /\ k >= n => buffer[k] = Sh!NullChar
             /\ k < n => /\ k + 1 \in 1..n
                         /\ buffer[k] = IF k < ending /\ typed[k + 1] = Sh!Space
                                        THEN Sh!NullChar ELSE typed[k + 1]
    BY <2>1, <1>2, InLineFacts
  <2> HIDE DEF n
  <2>3. Reached = ending /\ Reached' = ending + 1
    BY <1>1 DEF Reached
  <2>4. /\ arg = Sh!Nth(typed, ending)
        /\ \A k \in Sh!Begins(typed) : k <= ending => argv[Sh!Nth(typed, k) - 1] = k - 1
        /\ \A u \in 0..(arg - 1) :
             argv[u] + 1 \in Sh!Begins(typed) /\ Sh!Nth(typed, argv[u] + 1) = u + 1
        /\ ending = 0 \/ typed[ending] = Sh!Space
             \/ (ending < n /\ typed[ending + 1] = Sh!Space)
    BY <2>1, <2>3 DEF InLine, n
  <2>5. ~(ending < n /\ typed[ending + 1] = Sh!Space)
    <3>1. ending \in 0..(n + 1) /\ ~(ending < ending)
      BY <2>2, <1>3
    <3> QED BY <3>1, <2>2, <1>1
  <2>6. ending + 1 \in Sh!Begins(typed)
    <3>1. ending + 1 \in 1..(n + 1)
      BY <2>2, <1>3
    <3>2. ending + 1 <= n => typed[ending + 1] # Sh!Space
      BY <2>2, <2>5, <1>3
    <3>3. ending + 1 > 1 => typed[ending + 1 - 1] = Sh!Space
      <4>1. ending + 1 > 1 => ending # 0
        BY <1>3
      <4>2. ending + 1 - 1 = ending
        BY <1>3
      <4> QED BY <4>1, <4>2, <2>4, <2>5
    <3>4. typed # <<>>
      BY <2>1
    <3>5. ending + 1 \in 1..(Len(typed) + 1) /\ ending \in Int
      BY <3>1, <1>3 DEF n
    <3>6. ending + 1 <= Len(typed) => typed[ending + 1] # Sh!Space
      BY <3>2 DEF n
    <3> QED BY <3>3, <3>4, <3>5, <3>6 DEF Sh!Begins
  <2>7. arg <= ending /\ Sh!Nth(typed, ending + 1) = arg + 1
    BY <2>2, <2>4, <2>6, <1>3, NthNext
  <2>8. arg \in Indices
    <3>1. arg \in 0..(n + 1)
      BY <2>2, <2>7, <1>3
    <3> QED BY <3>1, <2>2
  <2>9. \A k \in Indices : argv'[k] = IF k = arg THEN ending ELSE argv[k]
    BY <1>1, <1>3
  <2>10. ASSUME NEW k \in Sh!Begins(typed), k <= ending + 1
         PROVE  argv'[Sh!Nth(typed, k) - 1] = k - 1
    <3> DEFINE u == Sh!Nth(typed, k)
    <3>1. k \in Nat /\ u \in Nat /\ u >= 1
      <4>1. k \in 1..(Len(typed) + 1) /\ u \in Nat /\ u >= 1
        BY <2>2, NthBegin
      <4> QED BY <4>1, <2>2 DEF n
    <3>2. CASE k = ending + 1
      <4>1. u - 1 = arg /\ k - 1 = ending
        BY <3>2, <2>7, <1>3
      <4> QED BY <4>1, <2>8, <2>9
    <3>3. CASE k # ending + 1
      <4>1. k <= ending
        BY <3>1, <3>3, <2>10, <1>3
      <4>2. u <= arg
        BY <4>1, <3>1, <2>2, <2>4, <1>3, NthMonotone
      <4>3. argv[u - 1] = k - 1
        BY <4>1, <2>4
      <4> HIDE DEF u
      <4>4. u - 1 \in 0..(n + 1) /\ u - 1 # arg
        BY <4>2, <3>1, <2>2, <2>7, <1>3
      <4>5. u - 1 \in Indices
        BY <4>4, <2>2
      <4>6. argv'[u - 1] = k - 1
        BY <4>3, <4>4, <4>5, <2>9
      <4> QED BY <4>6 DEF u
    <3> QED BY <3>2, <3>3
  <2>11. ASSUME NEW u \in 0..arg
         PROVE  argv'[u] + 1 \in Sh!Begins(typed) /\ Sh!Nth(typed, argv'[u] + 1) = u + 1
    <3>1. u \in Indices
      <4>1. u \in 0..(n + 1)
        BY <2>2, <2>7, <1>3
      <4> QED BY <4>1, <2>2
    <3>2. CASE u = arg
      <4>1. argv'[u] = ending
        BY <3>1, <3>2, <2>9
      <4> QED BY <4>1, <3>2, <2>6, <2>7
    <3>3. CASE u # arg
      <4>1. u \in 0..(arg - 1) /\ argv'[u] = argv[u]
        BY <3>1, <3>3, <2>9, <1>3
      <4> QED BY <4>1, <2>4
    <3> QED BY <3>2, <3>3
  <2>12. \A k : ByteNow(k)' = ByteNow(k)
    BY <1>1 DEF ByteNow
  <2>13. InLine'
    <3>1. /\ ending' <= Len(typed') /\ arg' = Sh!Nth(typed', Reached') /\ arg' > 0
          /\ Reached' # ending' /\ command' = typed'
      <4>1. command = typed
        BY <2>1 DEF InLine
      <4> QED BY <4>1, <2>2, <2>3, <2>7, <1>1, <1>3 DEF n
    <3>2. /\ \A k \in 0..(Len(typed) + 1) : buffer[k] = ByteNow(k)
          /\ \A k \in Indices : k > Len(typed) => buffer[k] # Sh!Space
      BY <2>1 DEF InLine
    <3>3. \A k \in Sh!Begins(typed') : k <= Reached' => argv'[Sh!Nth(typed', k) - 1] = k - 1
      BY <2>3, <2>10, <1>1
    <3>4. \A u \in 0..(arg' - 1) : argv'[u] + 1 \in Sh!Begins(typed')
                                   /\ Sh!Nth(typed', argv'[u] + 1) = u + 1
      <4>1. arg' - 1 = arg
        BY <1>1, <1>3
      <4> QED BY <4>1, <2>11, <1>1
    <3> QED BY <3>1, <3>2, <3>3, <3>4, <2>12, <1>1 DEF InLine
  <2> QED BY <2>1, <2>13, <1>1, <1>4 DEF CommandInv
<1> QED BY <1>6, <1>7

LEMMA SkipLetterKeeps ==
  ASSUME CommandInv, Sh!SkipLetter
  PROVE  CommandInv'
<1>1. /\ shell = "word" /\ shell' = "word" /\ buffer[ending] \notin {Sh!NullChar, Sh!Space}
      /\ ending' = ending + 1
      /\ UNCHANGED <<buffer, argv, arg, typed, command, ran>>
  BY DEF Sh!SkipLetter
<1>2. /\ CommandTypes
      /\ typed = Sh!EndOfInput => AtEnd
      /\ typed = <<>> => AtEmpty
      /\ typed \notin {<<>>, Sh!EndOfInput} => InLine
  BY <1>1 DEF CommandInv
<1>3. /\ ending \in Nat /\ MaxLine \in Nat /\ 0 \in Indices
      /\ \A k \in Indices : k \in Nat /\ k <= MaxLine + 1
  BY <1>2, TypesNow DEF Indices
<1>4. typed # <<>>
  BY <1>1, <1>2 DEF AtEmpty
<1>5. CASE typed = Sh!EndOfInput
  <2>1. /\ Settled /\ Outcome(Now)
        /\ argv[0] = 0 /\ arg = 1 /\ buffer[0] # Sh!NullChar
        /\ \A k \in 0..(ending - 1) : buffer[k] # Sh!NullChar
    BY <1>1, <1>2, <1>5 DEF AtEnd
  <2>2. PICK e \in Indices : EndsAt(buffer, 0, e)
    <3>1. PICK c \in Indices :
             /\ Listed(argv, c)
             /\ \A k \in 0..(c - 1) : \E e \in Indices : EndsAt(buffer, argv[k], e)
      BY <2>1 DEF Settled
    <3>2. 0 \in 0..(c - 1)
      BY <3>1, <1>3 DEF Listed
    <3> QED BY <3>1, <3>2, <2>1
  <2>3. buffer[e] = Sh!NullChar /\ e \in Nat /\ e <= MaxLine + 1
    BY <2>2, <1>3 DEF EndsAt
  <2>4. ending < e
    <3>1. ending # e
      BY <2>3, <1>1
    <3>2. ~(e < ending)
      <4>1. e < ending => e \in 0..(ending - 1)
        BY <2>3, <1>3
      <4> QED BY <4>1, <2>1, <2>3
    <3> QED BY <3>1, <3>2, <2>3, <1>3
  <2>5. ending' \in Indices
    <3>1. ending + 1 \in 0..(MaxLine + 1)
      BY <2>3, <2>4, <1>3
    <3> QED BY <3>1, <1>1 DEF Indices
  <2>6. CommandTypes'
    BY <2>5, <1>1, <1>2 DEF CommandTypes
  <2>7. Now' = Now
    BY <1>1 DEF Now
  <2>8. Settled' /\ Outcome(Now)'
    <3>1. Settled'
      BY <2>1, <1>1 DEF Settled
    <3>2. Outcome(Now)'
      BY <2>1, <2>7, <1>1 DEF Outcome
    <3> QED BY <3>1, <3>2
  <2>9. \A k \in 0..(ending' - 1) : buffer'[k] # Sh!NullChar
    <3> SUFFICES ASSUME NEW k \in 0..(ending' - 1) PROVE buffer'[k] # Sh!NullChar
      OBVIOUS
    <3>1. k \in 0..(ending - 1) \/ k = ending
      BY <1>1, <1>3
    <3> QED BY <3>1, <2>1, <1>1
  <2>10. AtEnd'
    BY <2>1, <2>8, <2>9, <1>1 DEF AtEnd
  <2> QED BY <2>6, <2>10, <1>1, <1>4, <1>5 DEF CommandInv
<1>6. CASE typed # Sh!EndOfInput
  <2> DEFINE n == Len(typed)
  <2>1. InLine /\ typed \notin {<<>>, Sh!EndOfInput}
    BY <1>2, <1>4, <1>6
  <2>2. /\ typed \in Sh!Lines /\ n \in Nat /\ n > 0 /\ n <= MaxLine
        /\ ending <= n
        /\ \A k \in 0..(n + 1) :
             /\ k \in Indices
             /\ k >= n => buffer[k] = Sh!NullChar
             /\ k < n => /\ k + 1 \in 1..n
                         /\ buffer[k] = IF k < ending /\ typed[k + 1] = Sh!Space
                                        THEN Sh!NullChar ELSE typed[k + 1]
    BY <2>1, <1>2, InLineFacts
  <2> HIDE DEF n
  <2>3. ending < n /\ typed[ending + 1] # Sh!Space
    <3>1. ending \in 0..(n + 1) /\ ~(ending < ending)
      BY <2>2, <1>3
    <3>2. ending < n
      BY <3>1, <2>2, <1>1, <1>3
    <3> QED BY <3>1, <3>2, <2>2, <1>1
  <2>4. CommandTypes'
    <3>1. ending + 1 \in 0..(n + 1)
      BY <2>2, <2>3, <1>3
    <3> QED BY <3>1, <2>2, <1>1, <1>2 DEF CommandTypes
  <2>5. Reached = ending + 1 /\ Reached' = (ending + 1) + 1
    BY <1>1 DEF Reached
  <2>6. (ending + 1) + 1 \notin Sh!Begins(typed)
    <3>1. (ending + 1) + 1 > 1 /\ ((ending + 1) + 1) - 1 = ending + 1
      BY <1>3
    <3> QED BY <3>1, <2>3 DEF Sh!Begins
  <2>7. Sh!Nth(typed, (ending + 1) + 1) = Sh!Nth(typed, ending + 1)
    <3>1. ending + 1 \in Nat
      BY <1>3
    <3>2. Sh!Nth(typed, ending + 1) \in Nat
          /\ Sh!Nth(typed, (ending + 1) + 1) = Sh!Nth(typed, ending + 1)
               + IF (ending + 1) + 1 \in Sh!Begins(typed) THEN 1 ELSE 0
      BY <3>1, <2>2, NthNext
    <3> QED BY <3>2, <2>6
  <2>8. \A k \in Sh!Begins(typed) : k <= (ending + 1) + 1 => k <= ending + 1
    <3>1. \A k \in Sh!Begins(typed) : k \in Int
      BY <2>2, BeginsRange
    <3> QED BY <3>1, <2>6, <1>3
  <2>9. ASSUME NEW k \in 0..(Len(typed) + 1) PROVE ByteNow(k)' = ByteNow(k)
    <3>1. k < ending + 1 <=> k < ending \/ k = ending
      BY <2>2, <1>3 DEF n
    <3> QED BY <3>1, <2>3, <1>1 DEF ByteNow
  <2>10. InLine'
    <3>1. /\ ending' <= Len(typed') /\ arg' = Sh!Nth(typed', Reached') /\ arg' > 0
          /\ Reached' # ending' /\ command' = typed'
      <4>1. command = typed /\ arg = Sh!Nth(typed, ending + 1) /\ arg > 0
        BY <2>1, <2>5, <1>1 DEF InLine
      <4> QED BY <4>1, <2>2, <2>3, <2>5, <2>7, <1>1, <1>3 DEF n
    <3>2. /\ \A k \in 0..(Len(typed) + 1) : buffer[k] = ByteNow(k)
          /\ \A k \in Indices : k > Len(typed) => buffer[k] # Sh!Space
      BY <2>1 DEF InLine
    <3>3. \A k \in Sh!Begins(typed') : k <= Reached' => argv'[Sh!Nth(typed', k) - 1] = k - 1
      BY <2>1, <2>5, <2>8, <1>1 DEF InLine
    <3>4. \A u \in 0..(arg' - 1) : argv'[u] + 1 \in Sh!Begins(typed')
                                   /\ Sh!Nth(typed', argv'[u] + 1) = u + 1
      BY <2>1, <1>1 DEF InLine
    <3> QED BY <3>1, <3>2, <3>3, <3>4, <2>9, <1>1 DEF InLine
  <2> QED BY <2>1, <2>4, <2>10, <1>1 DEF CommandInv
<1> QED BY <1>5, <1>6

LEMMA EndWordKeeps ==
  ASSUME CommandInv, Sh!EndWord
  PROVE  CommandInv'
<1>1. /\ shell = "word" /\ shell' = "ending" /\ buffer[ending] \in {Sh!NullChar, Sh!Space}
      /\ argv' = IF buffer[ending] = Sh!NullChar THEN [argv EXCEPT ![arg] = Sh!Null] ELSE argv
      /\ UNCHANGED <<buffer, ending, arg, typed, command, ran>>
  BY DEF Sh!EndWord
<1>2. /\ CommandTypes
      /\ typed = Sh!EndOfInput => AtEnd
      /\ typed = <<>> => AtEmpty
      /\ typed \notin {<<>>, Sh!EndOfInput} => InLine
  BY <1>1 DEF CommandInv
<1>3. /\ ending \in Nat /\ arg \in Nat /\ MaxLine \in Nat /\ 0 \in Indices /\ 1 \in Indices
      /\ DOMAIN argv = Indices /\ argv \in [Indices -> Int]
      /\ \A k \in Indices : k \in Nat /\ k <= MaxLine + 1
  BY <1>2, TypesNow DEF Indices, CommandTypes
<1>4. /\ \A k \in Indices :
           argv'[k] = IF buffer[ending] = Sh!NullChar /\ k = arg THEN Sh!Null ELSE argv[k]
      /\ argv' \in [Indices -> Int]
  <2>1. CASE buffer[ending] = Sh!NullChar
    <3>1. argv' = [k \in Indices |-> IF k = arg THEN Sh!Null ELSE argv[k]]
      BY <2>1, <1>1, <1>3
    <3> QED BY <3>1, <2>1, <1>3, BytesDiffer
  <2>2. CASE buffer[ending] # Sh!NullChar
    BY <2>2, <1>1, <1>3
  <2> QED BY <2>1, <2>2
<1>5. CommandTypes'
  BY <1>1, <1>2, <1>4 DEF CommandTypes
<1>6. typed # <<>>
  BY <1>1, <1>2 DEF AtEmpty
<1>7. CASE typed = Sh!EndOfInput
  <2>1. /\ Settled /\ Outcome(Now)
        /\ argv[0] = 0 /\ arg = 1 /\ buffer[0] # Sh!NullChar
    BY <1>1, <1>2, <1>7 DEF AtEnd
  <2>2. buffer[ending] = Sh!NullChar
    <3>1. ending \in Indices
      BY <1>2 DEF CommandTypes
    <3> QED BY <3>1, <2>1, <1>1 DEF Settled
  <2>3. argv'[0] = 0 /\ argv'[1] = Sh!Null
    BY <2>1, <2>2, <1>3, <1>4
  <2>4. PICK c \in Indices :
           /\ Listed(argv, c)
           /\ \A k \in 0..(c - 1) : \E e \in Indices : EndsAt(buffer, argv[k], e)
    BY <2>1 DEF Settled
  <2>5. c \in Nat /\ c > 0 /\ 0 \in 0..(c - 1)
    BY <2>4, <1>3 DEF Listed
  <2>6. Listed(argv', 1)
    <3>1. \A k \in 0..(1 - 1) : k = 0
      OBVIOUS
    <3> QED BY <3>1, <2>3, <1>3 DEF Listed
  <2>7. Settled'
    <3>1. ASSUME NEW k \in 0..(1 - 1)
          PROVE  \E e \in Indices : EndsAt(buffer', argv'[k], e)
      <4>1. k = 0
        OBVIOUS
      <4>2. PICK e \in Indices : EndsAt(buffer, argv[0], e)
        BY <2>4, <2>5
      <4>3. EndsAt(buffer', argv'[k], e)
        BY <4>1, <4>2, <2>1, <2>3, <1>1
      <4> QED BY <4>3
    <3>2. \E d \in Indices :
             /\ Listed(argv', d)
             /\ \A k \in 0..(d - 1) : \E e \in Indices : EndsAt(buffer', argv'[k], e)
      BY <3>1, <2>6, <1>3
    <3>3. /\ \A k \in Indices : buffer'[k] # Sh!Space
          /\ buffer'[0] # Sh!Junk
          /\ argv'[0] > 1 <=> Sh!Indented(command', 2)
          /\ Sh!Indented(command', 1) => buffer'[0] = Sh!NullChar
          /\ buffer'[0] # Sh!NullChar => argv'[0] = 0
      BY <2>1, <2>3, <1>1 DEF Settled
    <3> QED BY <3>2, <3>3 DEF Settled
  <2>8. Now' = <<Sh!String(buffer, 0)>>
    <3>1. Sh!Words(buffer', argv') = [k \in 1..1 |-> Sh!String(buffer', argv'[k - 1])]
      BY <2>6, <1>4, WordsAre
    <3>2. \A k \in 1..1 : argv'[k - 1] = 0
      BY <2>3
    <3>3. Sh!Words(buffer', argv') = [k \in 1..1 |-> Sh!String(buffer, 0)]
      BY <3>1, <3>2, <1>1
    <3>4. [k \in 1..1 |-> Sh!String(buffer, 0)] = <<Sh!String(buffer, 0)>>
      OBVIOUS
    <3> QED BY <3>3, <3>4 DEF Now
  <2>9. ran[1] = Sh!String(buffer, 0)
    <3>1. Now = [k \in 1..c |-> Sh!String(buffer, argv[k - 1])]
      BY <2>4, <1>3, WordsAre DEF Now
    <3>2. Now[1] = Sh!String(buffer, 0)
      <4>1. 1 \in 1..c /\ 1 - 1 = 0
        BY <2>5
      <4> QED BY <4>1, <3>1, <2>1
    <3>3. Now \in {ran, <<ran[1]>>}
      BY <2>1, <1>7 DEF Outcome
    <3>4. Now[1] = ran[1]
      <4>1. <<ran[1]>>[1] = ran[1]
        OBVIOUS
      <4> QED BY <4>1, <3>3
    <3> QED BY <3>2, <3>4
  <2>10. ~Sh!Indented(command, 1)
    BY <2>1 DEF Settled
  <2>11. Outcome(Now)'
    BY <2>8, <2>9, <2>10, <1>1, <1>6, <1>7 DEF Outcome
  <2>12. AtEnd'
    BY <2>2, <2>7, <2>11, <1>1 DEF AtEnd
  <2> QED BY <2>12, <1>1, <1>5, <1>6, <1>7 DEF CommandInv
<1>8. CASE typed # Sh!EndOfInput
  <2> DEFINE n == Len(typed)
  <2>1. InLine /\ typed \notin {<<>>, Sh!EndOfInput}
    BY <1>2, <1>6, <1>8
  <2>2. /\ typed \in Sh!Lines /\ n \in Nat /\ n > 0 /\ n <= MaxLine
        /\ ending <= n
        /\ \A k \in 1..n : typed[k] \notin {Sh!NullChar, Sh!Junk}
        /\ \A k \in 0..(n + 1) :
             /\ k \in Indices
             /\ k >= n => buffer[k] = Sh!NullChar
             /\ k < n => /\ k + 1 \in 1..n
                         /\ buffer[k] = IF k < ending /\ typed[k + 1] = Sh!Space
                                        THEN Sh!NullChar ELSE typed[k + 1]
    BY <2>1, <1>2, InLineFacts
  <2> HIDE DEF n
  <2>3. Reached = ending + 1 /\ Reached' = IF ending = n THEN ending + 1 ELSE ending
    BY <1>1 DEF Reached, n
  <2>4. /\ arg = Sh!Nth(typed, ending + 1) /\ arg > 0 /\ command = typed
        /\ \A k \in Sh!Begins(typed) : k <= ending + 1 => argv[Sh!Nth(typed, k) - 1] = k - 1
        /\ \A u \in 0..(arg - 1) :
             argv[u] + 1 \in Sh!Begins(typed) /\ Sh!Nth(typed, argv[u] + 1) = u + 1
        /\ \A k \in 0..(Len(typed) + 1) : buffer[k] = ByteNow(k)
        /\ \A k \in Indices : k > Len(typed) => buffer[k] # Sh!Space
    BY <2>1, <2>3, <1>1 DEF InLine
  <2>5. \A k : ByteNow(k)' = ByteNow(k)
    BY <1>1 DEF ByteNow
  <2>6. ending \in 0..(n + 1) /\ ~(ending < ending)
    BY <2>2, <1>3
  <2>7. CASE ending = n
    <3>1. buffer[ending] = Sh!NullChar
      BY <2>2, <2>6, <2>7
    <3>2. arg <= n + 1 /\ arg \in Indices
      <4>1. ending + 1 \in Nat
        BY <1>3
      <4>2. Sh!Nth(typed, ending + 1) <= ending + 1
        BY <4>1, <2>2, NthNext
      <4>3. arg \in 0..(n + 1)
        BY <4>2, <2>2, <2>4, <2>7, <1>3
      <4> QED BY <4>3, <2>2
    <3>3. argv'[arg] = Sh!Null /\ \A k \in Indices : k # arg => argv'[k] = argv[k]
      BY <3>1, <3>2, <1>4
    <3>4. ASSUME NEW k \in Sh!Begins(typed), k <= ending + 1
          PROVE  argv'[Sh!Nth(typed, k) - 1] = k - 1
      <4> DEFINE u == Sh!Nth(typed, k)
      <4>1. k \in Nat /\ u \in Nat /\ u >= 1
        <5>1. k \in 1..(Len(typed) + 1) /\ u \in Nat /\ u >= 1
          BY <2>2, NthBegin
        <5> QED BY <5>1, <2>2 DEF n
      <4>2. u <= arg
        <5>1. ending + 1 \in Nat
          BY <1>3
        <5> QED BY <5>1, <4>1, <3>4, <2>2, <2>4, NthMonotone
      <4>3. argv[u - 1] = k - 1
        BY <3>4, <2>4
      <4> HIDE DEF u
      <4>4. u - 1 \in 0..(n + 1) /\ u - 1 # arg
        BY <4>1, <4>2, <3>2, <2>2, <1>3
      <4>5. argv'[u - 1] = k - 1
        BY <4>3, <4>4, <3>3, <2>2
      <4> QED BY <4>5 DEF u
    <3>5. ASSUME NEW u \in 0..(arg - 1)
          PROVE  argv'[u] + 1 \in Sh!Begins(typed) /\ Sh!Nth(typed, argv'[u] + 1) = u + 1
      <4>1. u \in 0..(n + 1) /\ u # arg
        BY <3>2, <2>2, <1>3
      <4>2. argv'[u] = argv[u]
        BY <4>1, <3>3, <2>2
      <4> QED BY <4>2, <2>4
    <3>6. InLine'
      <4>1. /\ ending' <= Len(typed') /\ arg' = Sh!Nth(typed', Reached') /\ arg' > 0
            /\ argv'[arg'] = Sh!Null
            /\ Reached' # ending' /\ command' = typed'
        BY <3>3, <2>2, <2>3, <2>4, <2>7, <1>1, <1>3 DEF n
      <4>2. \A k \in Sh!Begins(typed') : k <= Reached' => argv'[Sh!Nth(typed', k) - 1] = k - 1
        BY <3>4, <2>3, <2>7, <1>1
      <4>3. \A u \in 0..(arg' - 1) : argv'[u] + 1 \in Sh!Begins(typed')
                                     /\ Sh!Nth(typed', argv'[u] + 1) = u + 1
        BY <3>5, <1>1
      <4> QED BY <4>1, <4>2, <4>3, <2>4, <2>5, <1>1 DEF InLine
    <3> QED BY <3>6, <2>1, <1>1, <1>5 DEF CommandInv
  <2>8. CASE ending # n
    <3>1. ending < n /\ ending + 1 \in 1..n /\ buffer[ending] = typed[ending + 1]
      <4>1. ending < n
        BY <2>2, <2>6, <2>8
      <4> QED BY <4>1, <2>2, <2>6
    <3>2. buffer[ending] # Sh!NullChar /\ typed[ending + 1] = Sh!Space
      BY <3>1, <2>2, <1>1
    <3>3. argv' = argv
      BY <3>2, <1>1
    <3>4. ending + 1 \notin Sh!Begins(typed)
      <4>1. ending + 1 <= Len(typed)
        BY <3>1, <2>2, <1>3 DEF n
      <4> QED BY <4>1, <3>2 DEF Sh!Begins
    <3>5. Sh!Nth(typed, ending + 1) = Sh!Nth(typed, ending)
      <4>1. Sh!Nth(typed, ending) \in Nat
            /\ Sh!Nth(typed, ending + 1) = Sh!Nth(typed, ending)
                 + IF ending + 1 \in Sh!Begins(typed) THEN 1 ELSE 0
        BY <2>2, <1>3, NthNext
      <4> QED BY <4>1, <3>4
    <3>6. \A k \in Sh!Begins(typed) : k <= ending => k <= ending + 1
      <4>1. \A k \in Sh!Begins(typed) : k \in Int
        BY <2>2, BeginsRange
      <4> QED BY <4>1, <1>3
    <3>7. InLine'
      <4>1. /\ ending' < Len(typed') /\ arg' = Sh!Nth(typed', Reached')
            /\ typed'[ending' + 1] = Sh!Space /\ command' = typed'
        BY <3>1, <3>2, <3>5, <2>3, <2>4, <2>8, <1>1 DEF n
      <4>2. \A k \in Sh!Begins(typed') : k <= Reached' => argv'[Sh!Nth(typed', k) - 1] = k - 1
        BY <3>3, <3>6, <2>3, <2>4, <2>8, <1>1
      <4>3. \A u \in 0..(arg' - 1) : argv'[u] + 1 \in Sh!Begins(typed')
                                     /\ Sh!Nth(typed', argv'[u] + 1) = u + 1
        BY <3>3, <2>4, <1>1
      <4>4. ending' <= Len(typed') /\ ending' # Len(typed')
        BY <4>1, <2>2, <2>8, <1>1, <1>3 DEF n
      <4> QED BY <4>1, <4>2, <4>3, <4>4, <2>4, <2>5, <1>1 DEF InLine
    <3> QED BY <3>7, <2>1, <1>1, <1>5 DEF CommandInv
  <2> QED BY <2>7, <2>8
<1> QED BY <1>7, <1>8

LEMMA CompareKeeps ==
  ASSUME CommandInv, Sh!Compare
  PROVE  CommandInv'
<1>1. /\ shell = "compare" /\ CommandTypes
      /\ UNCHANGED <<buffer, argv, ending, arg, typed, command, ran>>
      /\ shell' \in {"undefined", "exited", "fork"}
      /\ shell' = "fork" => argv[0] # Sh!Wild
  <2>1. shell' = CASE argv[0] = Sh!Wild -> "undefined"
                   [] argv[0] # Sh!Wild /\ Sh!String(buffer, argv[0]) = <<"q">> -> "exited"
                   [] OTHER -> "fork"
    BY DEF Sh!Compare
  <2>2. shell' \in {"undefined", "exited", "fork"} /\ (shell' = "fork" => argv[0] # Sh!Wild)
    <3>1. CASE argv[0] = Sh!Wild
      BY <3>1, <2>1
    <3>2. CASE argv[0] # Sh!Wild /\ Sh!String(buffer, argv[0]) = <<"q">>
      BY <3>2, <2>1
    <3>3. CASE argv[0] # Sh!Wild /\ Sh!String(buffer, argv[0]) # <<"q">>
      BY <3>3, <2>1
    <3> QED BY <3>1, <3>2, <3>3
  <2> QED BY <2>2 DEF Sh!Compare, CommandInv
<1>2. CommandTypes'
  BY <1>1 DEF CommandTypes
<1>3. shell' = "fork" => Settled' /\ Outcome(Now)'
  <2> SUFFICES ASSUME shell' = "fork" PROVE Settled' /\ Outcome(Now)'
    OBVIOUS
  <2>1. Settled /\ Outcome(Now)
    BY <1>1 DEF CommandInv
  <2>2. Now' = Now
    BY <1>1 DEF Now
  <2>3. Settled'
    BY <2>1, <1>1 DEF Settled
  <2>4. Outcome(Now)'
    BY <2>1, <2>2, <1>1 DEF Outcome
  <2> QED BY <2>3, <2>4
<1> QED BY <1>1, <1>2, <1>3 DEF CommandInv

LEMMA RunKeeps ==
  ASSUME CommandInv, Sh!Run
  PROVE  CommandInv'
<1>1. /\ shell = "fork" /\ CommandTypes /\ Settled
      /\ UNCHANGED <<buffer, argv, ending, arg, typed, command>>
      /\ \/ ran' = Now /\ shell' = "prompt"
         \/ shell' = "exited"
  BY DEF Sh!Run, CommandInv, Now
<1>2. CommandTypes'
  BY <1>1 DEF CommandTypes
<1>3. Now' = Now
  BY <1>1 DEF Now
<1>4. Settled'
  BY <1>1 DEF Settled
<1> QED BY <1>1, <1>2, <1>3, <1>4 DEF CommandInv

LEMMA CommandStep == CommandInv /\ [Sh!Next]_(Sh!vars) => CommandInv'
<1> SUFFICES ASSUME CommandInv, [Sh!Next]_(Sh!vars) PROVE CommandInv'
  OBVIOUS
<1>1. CASE UNCHANGED Sh!vars
  <2>1. UNCHANGED <<buffer, argv, shell, ending, arg, typed, command, ran>>
    BY <1>1 DEF Sh!vars
  <2>2. Now' = Now /\ Reached' = Reached /\ \A k : ByteNow(k)' = ByteNow(k)
    BY <2>1 DEF Now, Reached, ByteNow
  <2>3. (Settled <=> Settled') /\ (Outcome(Now) <=> Outcome(Now)')
    <3>1. Settled <=> Settled'
      BY <2>1 DEF Settled
    <3>2. Outcome(Now) <=> Outcome(Now)'
      BY <2>1, <2>2 DEF Outcome
    <3> QED BY <3>1, <3>2
  <2>4. CommandTypes'
    BY <2>1 DEF CommandInv, CommandTypes
  <2>5. AtEmpty <=> AtEmpty'
    BY <2>1, <2>3 DEF AtEmpty
  <2>6. AtEnd <=> AtEnd'
    BY <2>1, <2>3 DEF AtEnd
  <2>7. InLine <=> InLine'
    BY <2>1, <2>2 DEF InLine
  <2>8. Unwritten <=> Unwritten'
    BY <2>1 DEF Unwritten
  <2> QED BY <2>1, <2>2, <2>3, <2>4, <2>5, <2>6, <2>7, <2>8 DEF CommandInv
<1> QED BY <1>1, ReadKeeps, AtEndingKeeps, SkipBlankKeeps, StartWordKeeps, SkipLetterKeeps,
        EndWordKeeps, CompareKeeps, RunKeeps DEF Sh!Next

(* A step that executes something, or comes back from it, executes what    *)
(* was promised.                                                           *)
LEMMA RunsTheOutcome ==
  ASSUME CommandInv, [Sh!Next]_(Sh!vars),
         ran' # ran \/ (shell = "fork" /\ shell' = "prompt")
  PROVE  Outcome(ran')
<1>1. Sh!Run
  BY DEF Sh!Next, Sh!vars, Sh!ReadLine, Sh!AtEnding, Sh!SkipBlank, Sh!StartWord,
         Sh!SkipLetter, Sh!EndWord, Sh!Compare
<1>2. shell = "fork" /\ ran' = Now
  BY <1>1 DEF Sh!Run, Now
<1> QED BY <1>2 DEF CommandInv

(* For any letters and any length of lines the shell executes what was     *)
(* typed, up to what an empty line and the end of the input leave of the   *)
(* last command (task4_part1.c:34-73, 83-107).                             *)
THEOREM ShellRunsWhatWasTyped == ShellSpec => RunsWhatWasTyped
<1> DEFINE Does ==
       ran' # ran \/ (shell = "fork" /\ shell' = "prompt") =>
         CASE typed = Sh!EndOfInput ->
                ran' \in {ran, <<ran[1]>>} /\ (Sh!Indented(command, 1) => ran' = ran)
           [] typed = <<>> ->
                ran' = [ran EXCEPT ![1] = IF Sh!Indented(command, 2) THEN @ ELSE <<>>]
           [] OTHER -> Sh!AreWords(ran', typed)
<1>1. CommandInv /\ [Sh!Next]_(Sh!vars) => Does
  <2> SUFFICES ASSUME CommandInv, [Sh!Next]_(Sh!vars),
                      ran' # ran \/ (shell = "fork" /\ shell' = "prompt")
               PROVE  CASE typed = Sh!EndOfInput ->
                             ran' \in {ran, <<ran[1]>>}
                               /\ (Sh!Indented(command, 1) => ran' = ran)
                        [] typed = <<>> ->
                             ran' = [ran EXCEPT ![1] = IF Sh!Indented(command, 2)
                                                       THEN @ ELSE <<>>]
                        [] OTHER -> Sh!AreWords(ran', typed)
    OBVIOUS
  <2>1. Outcome(ran')
    BY RunsTheOutcome
  <2> QED BY <2>1, NotALine DEF Outcome
<1>2. ShellSpec => []CommandInv
  BY CommandInit, CommandStep, PTL DEF ShellSpec, Sh!Spec
<1> QED BY <1>1, <1>2, PTL DEF ShellSpec, Sh!Spec, RunsWhatWasTyped, Sh!RunsWhatWasTyped

================================================================================
