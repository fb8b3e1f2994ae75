---------------------------------- MODULE Bank ---------------------------------
(***************************************************************************)
(* LAB/Task5/bank.c, the dad-and-sons problem: a father deposits and two   *)
(* sons withdraw, three processes over files (balance, attempt and a       *)
(* counter for each) guarded by one System V semaphore (sem2.h), and a     *)
(* parent that forks them, waits for them and prints the counters.         *)
(*                                                                         *)
(* Balance and attempts are read into a local variable and written back    *)
(* later, by two steps.  The files hold one number, written from offset 0  *)
(* without truncation: a shorter number is followed by a blank or newline  *)
(* of its own, so what is read back is the number last written.  The       *)
(* counters, which sons may drive up without bound while there is no       *)
(* money, stay at MaxCounter once they are there.                          *)
(***************************************************************************)
EXTENDS Integers, FiniteSets

CONSTANTS N,            \* how often dad deposits: 5 in the code
          Attempts,     \* how often sons may withdraw, together: 20
          MaxCounter    \* bound on the counters

ASSUME NAssumption == N \in Nat
ASSUME AttemptsAssumption == Attempts \in Nat
ASSUME MaxCounterAssumption == MaxCounter \in Nat

Sons     == {"son1", "son2"}
Children == {"dad"} \cup Sons

VARIABLES
  sem,                          \* the semaphore's value
  balance, attempt, counter,    \* the files
  pc,                           \* where each child is
  bal2, N_Att,                  \* what a child read
  flag,                         \* a son found no attempts left
  i,                            \* dad's loop index
  parent,                       \* what the parent does next
  reaped,                       \* how many times wait returned
  printed                       \* the totals printed, or Nothing

files    == <<balance, attempt, counter>>
locals   == <<bal2, N_Att, flag, i>>
parental == <<parent, reaped, printed>>
vars     == <<sem, files, pc, locals, parental>>

Nothing == -1

(* The slips this module is checked against: a semaphore created with 2, a *)
(* son that does not test the balance, one that does not write the attempt *)
(* back, one that never finds them used up.                                *)
SemCreateTwo        == 2
NoMoneyUntested(b)  == FALSE
NotOneLess(n)       == n
NothingLeftNever(n) == n < 0

SemCreate == 1

Init ==
  /\ sem = SemCreate
  /\ balance = 100 /\ attempt = Attempts
  /\ counter = [c \in Children |-> 0]
  /\ pc = [c \in Children |-> "unborn"]
  /\ bal2 = [c \in Children |-> 0] /\ N_Att = [s \in Sons |-> Attempts]
  /\ flag = [s \in Sons |-> FALSE] /\ i = 1
  /\ parent = "forkDad" /\ reaped = 0
  /\ printed = [c \in Children |-> Nothing]

-------------------------------------------------------------------------------
(* The children.                                                           *)
MoveTo(c, l) == pc' = [pc EXCEPT ![c] = l]

(* P(sem): blocks while the value is 0.                                    *)
P(c) ==
  /\ pc[c] = "P" /\ sem > 0
  /\ sem' = sem - 1
  /\ MoveTo(c, "counters")
  /\ UNCHANGED <<files, locals, parental>>

CountUp(n) == IF n < MaxCounter THEN n + 1 ELSE n

(* Who is in the critical section counts up the counters of the others.    *)
UpdateCounters(c) ==
  /\ pc[c] = "counters"
  /\ counter' = [o \in Children |-> IF o = c THEN counter[o]
                                             ELSE CountUp(counter[o])]
  /\ MoveTo(c, IF c = "dad" THEN "readBalance" ELSE "readAttempt")
  /\ UNCHANGED <<sem, balance, attempt, locals, parental>>

NothingLeft(n) == n = 0

ReadAttempt(s) ==
  /\ pc[s] = "readAttempt"
  /\ N_Att' = [N_Att EXCEPT ![s] = attempt]
  /\ IF NothingLeft(attempt)
     THEN flag' = [flag EXCEPT ![s] = TRUE] /\ MoveTo(s, "V")
     ELSE UNCHANGED flag /\ MoveTo(s, "readBalance")
  /\ UNCHANGED <<sem, files, bal2, i, parental>>

NoMoney(b) == b = 0

ReadBalance(c) ==
  /\ pc[c] = "readBalance"
  /\ bal2' = [bal2 EXCEPT ![c] = balance]
  /\ MoveTo(c, IF c \in Sons /\ NoMoney(balance) THEN "V" ELSE "writeBalance")
  /\ UNCHANGED <<sem, files, N_Att, flag, i, parental>>

WriteBalance(c) ==
  /\ pc[c] = "writeBalance"
  /\ balance' = IF c = "dad" THEN bal2[c] + 60 ELSE bal2[c] - 20
  /\ MoveTo(c, IF c = "dad" THEN "V" ELSE "writeAttempt")
  /\ UNCHANGED <<sem, attempt, counter, locals, parental>>

OneLess(n) == n - 1

WriteAttempt(s) ==
  /\ pc[s] = "writeAttempt"
  /\ N_Att' = [N_Att EXCEPT ![s] = OneLess(@)]
  /\ attempt' = OneLess(N_Att[s])
  /\ MoveTo(s, "V")
  /\ UNCHANGED <<sem, balance, counter, bal2, flag, i, parental>>

AfterV == sem + 1

(* V(sem), and the test of the loop.                                       *)
V(c) ==
  /\ pc[c] = "V"
  /\ sem' = AfterV
  /\ IF c = "dad"
     THEN i' = i + 1 /\ MoveTo(c, IF i + 1 <= N THEN "P" ELSE "exited")
     ELSE UNCHANGED i /\ MoveTo(c, IF flag[c] THEN "exited" ELSE "P")
  /\ UNCHANGED <<files, bal2, N_Att, flag, parental>>

Inside(c) == \/ UpdateCounters(c) \/ ReadBalance(c) \/ WriteBalance(c) \/ V(c)
             \/ c \in Sons /\ (ReadAttempt(c) \/ WriteAttempt(c))

-------------------------------------------------------------------------------
(* The parent.  A fork that fails ends it; children live on.               *)
Begins(c) == IF c = "dad" /\ N = 0 THEN "exited" ELSE "P"

Fork(c, now, next) ==
  /\ parent = now
  /\ \/ MoveTo(c, Begins(c)) /\ parent' = next
     \/ parent' = "exited" /\ UNCHANGED pc
  /\ UNCHANGED <<sem, files, locals, reaped, printed>>

ForkChildren == \/ Fork("dad", "forkDad", "forkSon1")
                \/ Fork("son1", "forkSon1", "forkSon2")
                \/ Fork("son2", "forkSon2", "wait")

Exited == {c \in Children : pc[c] = "exited"}

(* The k-th wait is followed by printing the counter of the k-th of these. *)
Printed(k) == CASE k = 1 -> "dad" [] k = 2 -> "son1" [] k = 3 -> "son2"

Wait ==
  /\ parent = "wait" /\ Cardinality(Exited) > reaped
  /\ reaped' = reaped + 1
  /\ printed' = [printed EXCEPT ![Printed(reaped')] = counter[Printed(reaped')]]
  /\ parent' = IF reaped' = 3 THEN "exited" ELSE "wait"
  /\ UNCHANGED <<sem, files, pc, locals>>

Parent == ForkChildren \/ Wait

Terminated ==
  /\ parent = "exited" /\ \A c \in Children : pc[c] \in {"unborn", "exited"}
  /\ UNCHANGED vars

Next == Parent \/ (\E c \in Children : P(c) \/ Inside(c)) \/ Terminated

(* The kernel serves processes blocked on a semaphore in turn: one that    *)
(* waits while the semaphore is freed again and again gets it.             *)
Fairness == /\ WF_vars(Parent)
            /\ \A c \in Children : SF_vars(P(c)) /\ WF_vars(Inside(c))

Spec == Init /\ [][Next]_vars /\ Fairness

-------------------------------------------------------------------------------
Locations == {"unborn", "P", "counters", "readAttempt", "readBalance",
              "writeBalance", "writeAttempt", "V", "exited"}

CriticalSection == {c \in Children : pc[c] \notin {"unborn", "P", "exited"}}

TypeOK ==
  /\ sem \in 0..1
  /\ balance \in Int /\ attempt \in Nat
  /\ counter \in [Children -> Nat]
  /\ pc \in [Children -> Locations]
  /\ pc["dad"] \notin {"readAttempt", "writeAttempt"}
  /\ bal2 \in [Children -> Int] /\ N_Att \in [Sons -> Nat]
  /\ flag \in [Sons -> BOOLEAN] /\ i \in 1..(N + 1)
  /\ parent \in {"forkDad", "forkSon1", "forkSon2", "wait", "exited"}
  /\ reaped \in 0..3
  /\ printed \in [Children -> Nat \cup {Nothing}]

(* One child at a time is between P and V, and the semaphore says so.      *)
(* (bank.c:89-123, 143-195, 215-268, sem2.h:74-105)                        *)
MutualExclusion ==
  /\ \A c, d \in CriticalSection : c = d
  /\ sem = 0 <=> CriticalSection # {}

(* No money is lost or made: the balance is what was there, what dad has   *)
(* deposited so far and what the attempts used so far have taken, although *)
(* it is read and written by three processes, balance and attempts apart;  *)
(* and the sons overdraw nothing, though each tests for exactly 0 and      *)
(* withdraws 20.  (113-118, 174-191, 246-264)                              *)
Deposited == i - 1 + IF pc["dad"] = "V" THEN 1 ELSE 0
Withdrawn == Attempts - attempt
               + IF \E s \in Sons : pc[s] = "writeAttempt" THEN 1 ELSE 0

NoMoneyLost == balance = 100 + 60 * Deposited - 20 * Withdrawn

Ledger == NoMoneyLost /\ balance >= 0

(* With as many attempts as there will be money for, every child that was  *)
(* forked exits.  The sons go round as long as attempts are left, so one   *)
(* attempt more would keep them going for ever.  (87, 141, 213)            *)
EveryoneExits ==
  /\ \A c \in Children : pc[c] = "P" ~> pc[c] = "exited"
  /\ <>(parent = "exited")

===============================================================================
