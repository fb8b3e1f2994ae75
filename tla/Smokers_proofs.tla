----------------------------- MODULE Smokers_proofs ----------------------------
(***************************************************************************)
(* What Smokers guarantees for every number of rounds, of failing forks    *)
(* and of smokers that become agents.                                      *)
(***************************************************************************)
EXTENDS Smokers, FiniteSetTheorems, TLAPS

(* Where they can be: the loops of an agent and of a smoker, and what an   *)
(* agent of the processes has before and after its loop.                   *)
Dealing   == {"lockToDeal", "deal", "unlockTable", "sleepAgent"}
Smoking   == {"sleep", "lockToPick", "tellAgent", "unlock"}
Forking   == {"fork1", "fork2", "fork3"}
Killing   == {"kill1", "kill2", "kill3"}
Locations == Dealing \cup Smoking \cup Forking \cup Killing \cup Gone

TypeOK ==
  /\ build \in {"semaphores", "threads"}
  /\ sem \in [Semaphores -> Nat]
  /\ pc \in [Processes -> Locations]
  /\ counter \in [Processes -> 0..(Forever - 1)]
  /\ main \in {"none", "create", "create1", "create2", "create3", "join",
               "kill1", "kill2", "kill3", "exited", "killed"}

(* The first agent never smokes.  Of the threads only four are born, and   *)
(* the three smokers never deal.                                           *)
Roles ==
  /\ pc[{}] \notin Smoking \cup {"failed"}
  /\ build = "threads" =>
       /\ main # "none"
       /\ pc[{}] \in Dealing \cup {"unborn", "exited", "killed"}
       /\ main # "create" => pc[{}] # "unborn"
       /\ \A p \in Processes \ {{}} :
            pc[p] \in Smoking \cup {"unborn", "exited", "killed"}
       /\ \A p \in Processes : Cardinality(p) > 1 => pc[p] = "unborn"
  /\ build = "semaphores" => main = "none"

(* Whoever can still be forked has not been: r comes out of forks that are *)
(* after those of q.                                                       *)
Later(q, r) == q \subseteq r /\ q # r /\ \A i \in q, j \in r \ q : i < j

Unborn ==
  /\ \A q, r \in Processes :
       Later(q, r) /\ pc[q] \in Smoking \cup {"unborn", "failed"}
         => pc[r] = "unborn"
  /\ \A q \in Processes, k \in Smoker :
       pc[q] = ForkAt[k] =>
         /\ \A i \in q : i < k
         /\ \A r \in Processes : Later(q, r) /\ (\A j \in r \ q : k <= j)
              => pc[r] = "unborn"
  /\ main = "create" => \A p \in Processes : pc[p] = "unborn"
  /\ \A k \in Smoker : main = CreateAt[k] =>
       \A j \in Smoker : k <= j => pc[{j}] = "unborn"

Unharmed == \A p \in Processes : pc[p] # "killed"

(* One at a time at the table.                                             *)
AtTable == {"deal", "unlockTable", "tellAgent", "unlock"}

Table ==
  Unharmed =>
    /\ sem["lock"] \in 0..1
    /\ \A p \in Processes : pc[p] \in AtTable =>
         /\ sem["lock"] = 0
         /\ \A q \in Processes : pc[q] \in AtTable => q = p

(* While the first agent is the only one no smoker has smoked more often   *)
(* than it has been told so.                                               *)
Smoked(p) == IF pc[p] = "exited" THEN Forever
             ELSE counter[p] + (IF pc[p] = "unlock" THEN 1 ELSE 0)
Told      == (IF pc[{}] = "exited" THEN Forever ELSE counter[{}]) + sem["agent"]

Rounds ==
  /\ build = "semaphores" /\ ~LastRoundDealt =>
       /\ Unharmed /\ OutOfLoop = {}
       /\ \A p \in Processes \ {{}} : Smoked(p) <= Told
  /\ build = "threads" /\ Unharmed =>
       Smoked({1}) + Smoked({2}) + Smoked({3}) <= Told

(* Whom the closing kills have passed is gone.                             *)
Passed ==
  /\ build = "semaphores" =>
       \A k \in 1..4, j \in Smoker : pc[{}] = KillAt[k] /\ j < k =>
         pc[{j}] \in Gone
  /\ build = "threads" =>
       /\ main = "killed" <=> ~Unharmed
       /\ \A k \in 1..4, j \in Smoker : main = CreateAt[k] /\ j < k =>
            pc[{j}] # "unborn"
       /\ \A k \in 1..4 : main = KillAt[k] =>
            /\ pc[{}] = "exited"
            /\ \A j \in Smoker : /\ pc[{j}] # "unborn"
                                 /\ j < k => pc[{j}] = "exited"
Inv == /\ TypeOK /\ Roles /\ Unborn /\ Table
       /\ OneDealPerAgent /\ Rounds /\ Passed

-------------------------------------------------------------------------------
(* Names and numbers.                                                      *)

LEMMA TheSemaphores ==
  /\ Semaphores = {"lock", "agent", "smoker_tobacco", "smoker_match",
                   "smoker_paper"}
  /\ \A k \in Smoker : Lacks[k] \in {"smoker_tobacco", "smoker_match",
                                     "smoker_paper"}
BY DEF Semaphores, Smoker, Lacks

(* A smoker goes by the last fork it came out of.                          *)
LEMMA NumberIsLast ==
  ASSUME NEW p \in Processes \ {{}}
  PROVE  Number(p) \in p /\ Number(p) \in Smoker /\ \A j \in p : j <= Number(p)
<1>1. p \subseteq {1, 2, 3}
  BY DEF Processes, Smoker
<1>2. \E k \in p : \A j \in p : j <= k
  <2>1. CASE 3 \in p
    BY <2>1, <1>1
  <2>2. CASE 3 \notin p /\ 2 \in p
    BY <2>2, <1>1
  <2>3. CASE 3 \notin p /\ 2 \notin p
    BY <2>3, <1>1
  <2> QED BY <2>1, <2>2, <2>3
<1>3. Number(p) \in p /\ \A j \in p : j <= Number(p)
  BY <1>2 DEF Number
<1> QED BY <1>3 DEF Processes

LEMMA ProcessesFinite == IsFiniteSet(Processes)
<1>1. 1 \in Int /\ 3 \in Int
  OBVIOUS
<1>2. IsFiniteSet(1..3)
  BY <1>1, FS_Interval, Zenon
<1> QED BY <1>2, FS_SUBSET DEF Processes, Smoker

(* Those who are at one of the locations, and how many they are.           *)
Where(f, L)   == {q \in Processes : f[q] \in L}
HowMany(f, L) == Cardinality(Where(f, L))

LEMMA Counted ==
  ASSUME NEW f, NEW L
  PROVE  /\ HowMany(f, L) \in Nat
         /\ HowMany(f, L) = 0 <=> \A p \in Processes : f[p] \notin L
<1>1. IsFiniteSet(Where(f, L))
  BY ProcessesFinite, FS_Subset DEF Where
<1>2. HowMany(f, L) \in Nat /\ (HowMany(f, L) = 0 <=> Where(f, L) = {})
  BY <1>1, FS_CardinalityType, FS_EmptySet DEF HowMany
<1> QED BY <1>2 DEF Where

(* One process that moves counts where it arrives and no more where it was.*)
LEMMA Moved ==
  ASSUME NEW f, NEW g, NEW p \in Processes, NEW L,
         \A q \in Processes : q # p => g[q] = f[q]
  PROVE  /\ HowMany(f, L) \in Nat /\ HowMany(g, L) \in Nat
         /\ f[p] \in L /\ g[p] \in L => HowMany(g, L) = HowMany(f, L)
         /\ f[p] \notin L /\ g[p] \notin L => HowMany(g, L) = HowMany(f, L)
         /\ f[p] \notin L /\ g[p] \in L => HowMany(g, L) = HowMany(f, L) + 1
         /\ f[p] \in L /\ g[p] \notin L => HowMany(f, L) = HowMany(g, L) + 1
<1> DEFINE before == Where(f, L)
           others == before \ {p}
<1>1. IsFiniteSet(before)
  BY ProcessesFinite, FS_Subset DEF Where
<1>2. /\ IsFiniteSet(others) /\ Cardinality(others) \in Nat
      /\ Cardinality(before) \in Nat
  BY <1>1, FS_RemoveElement, FS_CardinalityType
<1>3. Cardinality(others)
        = IF p \in before THEN Cardinality(before) - 1 ELSE Cardinality(before)
  BY <1>1, FS_RemoveElement
<1>4. Cardinality(others \cup {p}) = Cardinality(others) + 1
  BY <1>2, FS_AddElement
<1>5. Where(g, L) = IF g[p] \in L THEN others \cup {p} ELSE others
  BY DEF Where
<1>6. p \in before <=> f[p] \in L
  BY DEF Where
<1> HIDE DEF before, others
<1> QED BY <1>2, <1>3, <1>4, <1>5, <1>6 DEF HowMany, before

(* At most one where at most one can be.                                   *)
LEMMA CountedOne ==
  ASSUME NEW f, NEW L, NEW p \in Processes,
         \A q \in Processes : f[q] \in L => q = p
  PROVE  HowMany(f, L) \in 0..1
<1>1. Where(f, L) = {} \/ Where(f, L) = {p}
  BY DEF Where
<1>2. Cardinality({}) = 0 /\ Cardinality({p}) = 1
  BY FS_EmptySet, FS_Singleton
<1> QED BY <1>1, <1>2 DEF HowMany

(* The same of the step that moves it.                                     *)
LEMMA AtMoved ==
  ASSUME NEW p \in Processes, NEW L,
         \A q \in Processes : q # p => pc'[q] = pc[q]
  PROVE  At(L)' - At(L) = (IF pc'[p] \in L THEN 1 ELSE 0)
                            - (IF pc[p] \in L THEN 1 ELSE 0)
<1>1. HowMany(pc, L) \in Nat /\ HowMany(pc', L) \in Nat
  BY Counted
<1>2. CASE pc[p] \in L /\ pc'[p] \in L
  <2>1. HowMany(pc', L) = HowMany(pc, L)
    BY <1>2, Moved
  <2> QED BY <1>1, <1>2, <2>1 DEF At, HowMany, Where
<1>3. CASE pc[p] \notin L /\ pc'[p] \notin L
  <2>1. HowMany(pc', L) = HowMany(pc, L)
    BY <1>3, Moved
  <2> QED BY <1>1, <1>3, <2>1 DEF At, HowMany, Where
<1>4. CASE pc[p] \notin L /\ pc'[p] \in L
  <2>1. HowMany(pc', L) = HowMany(pc, L) + 1
    BY <1>4, Moved
  <2> QED BY <1>1, <1>4, <2>1 DEF At, HowMany, Where
<1>5. CASE pc[p] \in L /\ pc'[p] \notin L
  <2>1. HowMany(pc, L) = HowMany(pc', L) + 1
    BY <1>5, Moved
  <2> QED BY <1>1, <1>5, <2>1 DEF At, HowMany, Where
<1> QED BY <1>2, <1>3, <1>4, <1>5

(* A deal goes from the table to a hand, and an answer back: what a step   *)
(* adds to the semaphores and to the hands it adds to the agents waiting.  *)
Hands == {"lockToPick", "tellAgent"}
Waits == {"unlockTable", "sleepAgent"}

LEMMA Balance ==
  ASSUME Inv, NEW p \in Processes, NEW l,
         pc[p] # "killed", pc'[p] = l,
         \A q \in Processes : q # p => pc'[q] = pc[q],
         NEW d \in Int,
         LET total == sem["smoker_tobacco"] + sem["smoker_match"]
                        + sem["smoker_paper"] + sem["agent"]
         IN  total' = total + d,
         sem' \in [Semaphores -> Nat],
         d + (IF l \in Hands THEN 1 ELSE 0) - (IF pc[p] \in Hands THEN 1 ELSE 0)
           = (IF l \in Waits THEN 1 ELSE 0) - (IF pc[p] \in Waits THEN 1 ELSE 0)
  PROVE  OneDealPerAgent'
<1> SUFFICES ASSUME \A q \in Processes : pc'[q] # "killed"
             PROVE  Outstanding' = At({"unlockTable", "sleepAgent"})'
  BY DEF OneDealPerAgent
<1>1. Outstanding = At({"unlockTable", "sleepAgent"})
  BY DEF Inv, TypeOK, OneDealPerAgent
<1>3. /\ At(Hands) \in Nat /\ At(Hands)' \in Nat
      /\ At(Waits) \in Nat /\ At(Waits)' \in Nat
  BY Counted DEF At, HowMany, Where, Hands, Waits
<1>4. At(Hands)' - At(Hands) = (IF l \in Hands THEN 1 ELSE 0)
                                 - (IF pc[p] \in Hands THEN 1 ELSE 0)
  BY AtMoved
<1>5. At(Waits)' - At(Waits) = (IF l \in Waits THEN 1 ELSE 0)
                                 - (IF pc[p] \in Waits THEN 1 ELSE 0)
  BY AtMoved
<1>6. \A s \in {"agent", "smoker_tobacco", "smoker_match", "smoker_paper"} :
        sem[s] \in Nat /\ sem'[s] \in Nat
  BY TheSemaphores DEF Inv, TypeOK
<1>8. At(Hands)' - At(Hands) + d = At(Waits)' - At(Waits)
  BY <1>3, <1>4, <1>5
<1>9. /\ Outstanding = At(Waits) /\ Outstanding' \in Int
      /\ Outstanding' - Outstanding = At(Hands)' - At(Hands) + d
  BY <1>1, <1>3, <1>6 DEF Outstanding, Hands, Waits
<1> QED BY <1>3, <1>8, <1>9 DEF Waits

(* One who goes on, to be forked no more, leaves the unborn as they are.   *)
LEMMA UnbornKept ==
  ASSUME Inv, NEW p \in Processes, NEW l, pc' = [pc EXCEPT ![p] = l],
         pc[p] \notin {"unborn", "failed"}, l \notin {"unborn", "failed"},
         l \in Smoking => pc[p] \in Smoking,
         \A k \in Smoker : l = ForkAt[k] =>
           pc[p] \in Smoking /\ \A i \in p : i < k,
         main \in {"create", "create1", "create2", "create3"} => main' = main,
         main' \in {"create", "create1", "create2", "create3"} => main' = main
  PROVE  Unborn'
<1>1. \A q \in Processes : pc'[q] = IF q = p THEN l ELSE pc[q]
  BY DEF Inv, TypeOK
<1>2. \A q \in Processes : pc[q] = "unborn" => pc'[q] = "unborn"
  BY <1>1
<1>3. ASSUME NEW q \in Processes, NEW r \in Processes, Later(q, r),
             pc'[q] \in Smoking \cup {"unborn", "failed"}
      PROVE  pc'[r] = "unborn"
  BY <1>1, <1>2, <1>3 DEF Inv, Unborn
<1>4. ASSUME NEW q \in Processes, NEW k \in Smoker, pc'[q] = ForkAt[k]
      PROVE  /\ \A i \in q : i < k
             /\ \A r \in Processes : Later(q, r) /\ (\A j \in r \ q : k <= j)
                  => pc'[r] = "unborn"
  BY <1>1, <1>2, <1>4 DEF Inv, Unborn
<1>5. /\ main' = "create" => \A q \in Processes : pc'[q] = "unborn"
      /\ \A k \in Smoker : main' = CreateAt[k] =>
           \A j \in Smoker : k <= j => pc'[{j}] = "unborn"
  <2>1. \A k \in Smoker : CreateAt[k] \in {"create1", "create2", "create3"}
    BY DEF Smoker, CreateAt
  <2>2. \A j \in Smoker : {j} \in Processes
    BY DEF Processes
  <2> QED BY <1>2, <2>1, <2>2 DEF Inv, Unborn
<1> QED BY <1>3, <1>4, <1>5 DEF Unborn, Later

(* The locations of those who are out of their loop, by name.              *)
LEMMA LocationNames ==
  /\ ForkAt[1] = "fork1" /\ ForkAt[2] = "fork2" /\ ForkAt[3] = "fork3"
  /\ ForkAt[4] = "lockToDeal"
  /\ KillAt[1] = "kill1" /\ KillAt[2] = "kill2" /\ KillAt[3] = "kill3"
  /\ KillAt[4] = "exited"
  /\ {ForkAt[k] : k \in 1..4} = Forking \cup {"lockToDeal"}
  /\ {KillAt[k] : k \in 1..4} = Killing \cup {"exited"}
<1>1. \A k : k \in 1..4 <=> k \in {1, 2, 3, 4}
  OBVIOUS
<1> QED BY <1>1 DEF ForkAt, KillAt, Forking, Killing

LEMMA OutsideTheLoop ==
  /\ OutOfLoop = {} <=>
       \A p \in Processes \ {{}} :
         pc[p] \notin Forking \cup Dealing \cup Killing \cup {"exited"}
  /\ LastRoundDealt <=>
       \/ pc[{}] = "sleepAgent" /\ counter[{}] = Forever - 1
       \/ pc[{}] \in Killing \cup {"exited", "killed"}
BY LocationNames DEF OutOfLoop, LastRoundDealt, Dealing

(* One who goes on, and whom the closing kills have not passed, is not     *)
(* missed by them.                                                         *)
LEMMA PassedKept ==
  ASSUME Inv, NEW p \in Processes, NEW l, pc' = [pc EXCEPT ![p] = l],
         pc[p] \notin Gone, l \notin {"unborn", "killed"},
         build = "semaphores" => l \notin {"kill2", "kill3", "exited"},
         UNCHANGED <<build, main>>
  PROVE  Passed' /\ (Unharmed' <=> Unharmed)
<1>1. /\ pc'[p] = l /\ \A q \in Processes : q # p => pc'[q] = pc[q]
      /\ {} \in Processes /\ \A j \in Smoker : {j} \in Processes
      /\ build' = build /\ main' = main
  BY DEF Inv, TypeOK, Processes
<1>2. Unharmed' <=> Unharmed
  BY <1>1 DEF Unharmed, Gone
<1>3. ASSUME NEW q \in Processes
      PROVE  /\ \A m \in Gone : pc[q] = m => pc'[q] = m
             /\ pc[q] # "unborn" => pc'[q] # "unborn"
  BY <1>1 DEF Gone
<1>4. ASSUME build = "semaphores", NEW k \in 1..4, NEW j \in Smoker,
             pc'[{}] = KillAt[k], j < k
      PROVE  pc'[{j}] \in Gone
  <2>1. KillAt[k] \in {"kill2", "kill3", "exited"}
    BY <1>4, LocationNames DEF Smoker
  <2>2. pc[{}] = KillAt[k]
    BY <1>1, <1>4, <2>1
  <2>3. pc[{j}] \in Gone
    BY <2>2, <1>4 DEF Inv, Passed
  <2> QED BY <2>3, <1>1, <1>3
<1>5. ASSUME build = "threads"
      PROVE  /\ main = "killed" <=> ~Unharmed'
             /\ \A k \in 1..4, j \in Smoker : main = CreateAt[k] /\ j < k =>
                  pc'[{j}] # "unborn"
             /\ \A k \in 1..4 : main = KillAt[k] =>
                  /\ pc'[{}] = "exited"
                  /\ \A j \in Smoker : /\ pc'[{j}] # "unborn"
                                       /\ j < k => pc'[{j}] = "exited"
  BY <1>1, <1>2, <1>3, <1>5 DEF Inv, Passed, Gone
<1> QED BY <1>1, <1>2, <1>4, <1>5 DEF Passed

(* A step within the loop of a smoker or of an agent.                      *)
LEMMA WithinLoop ==
  ASSUME Inv, NEW p \in Processes, NEW l, pc' = [pc EXCEPT ![p] = l],
         \/ pc[p] \in Smoking /\ l \in Smoking
         \/ pc[p] \in Dealing /\ l \in Dealing,
         UNCHANGED <<build, main>>
  PROVE  Roles' /\ Unborn' /\ Passed' /\ (Unharmed' <=> Unharmed)
<1>1. /\ pc'[p] = l /\ \A q \in Processes : q # p => pc'[q] = pc[q]
  BY DEF Inv, TypeOK
<1>2. Roles'
  BY <1>1 DEF Inv, Roles, Smoking, Dealing
<1>3. Unborn'
  <2>1. \A k \in Smoker : ForkAt[k] \in Forking
    BY LocationNames DEF Smoker, Forking
  <2>2. l \in Smoking \cup Dealing /\ (Smoking \cup Dealing) \cap Forking = {}
    BY DEF Smoking, Dealing, Forking
  <2>3. pc[p] \notin {"unborn", "failed"} /\ l \notin {"unborn", "failed"}
    BY DEF Smoking, Dealing
  <2>4. l \in Smoking => pc[p] \in Smoking
    BY DEF Smoking, Dealing
  <2>5. \A k \in Smoker : l # ForkAt[k]
    BY <2>1, <2>2
  <2>6. main' = main
    OBVIOUS
  <2> QED BY <2>3, <2>4, <2>5, <2>6, UnbornKept
<1>4. Passed' /\ (Unharmed' <=> Unharmed)
  <2>1. UNCHANGED <<build, main>>
    OBVIOUS
  <2>2. /\ pc[p] \notin Gone /\ l \notin {"unborn", "killed"}
        /\ l \notin {"kill2", "kill3", "exited"}
    BY DEF Smoking, Dealing, Gone
  <2> QED BY <2>1, <2>2, PassedKept
<1> QED BY <1>2, <1>3, <1>4

(* Nor does a step within the loop let a smoker smoke more often than the  *)
(* first agent is told of.                                                 *)
LEMMA RoundsKept ==
  ASSUME Inv, NEW p \in Processes, NEW l, pc' = [pc EXCEPT ![p] = l],
         \/ pc[p] \in Smoking \ {"unlock"} /\ l \in Smoking
         \/ pc[p] \in Dealing \ {"sleepAgent"} /\ l \in Dealing,
         UNCHANGED <<build, counter>>, sem' \in [Semaphores -> Nat],
         sem["agent"] <= sem'["agent"],
         l = "unlock" => sem["agent"] + 1 <= sem'["agent"]
  PROVE  Rounds'
<1>1. /\ pc'[p] = l /\ \A q \in Processes : q # p => pc'[q] = pc[q]
      /\ {} \in Processes /\ \A j \in Smoker : {j} \in Processes \ {{}}
      /\ counter' = counter /\ build' = build
  BY DEF Inv, TypeOK, Processes
<1>2. /\ sem["agent"] \in Nat /\ sem'["agent"] \in Nat
      /\ \A q \in Processes : counter[q] \in Nat
  BY TheSemaphores DEF Inv, TypeOK
<1>3. /\ pc[p] \notin {"unlock", "killed", "exited"} /\ l \notin {"killed", "exited"}
      /\ pc[p] \notin Killing /\ l \notin Killing
  BY DEF Smoking, Dealing, Killing
<1>4. ASSUME NEW q \in Processes \ {{}}
      PROVE  /\ Smoked(q) \in Nat /\ Smoked(q)' \in Nat
             /\ Smoked(q)' = Smoked(q) + (IF q = p /\ l = "unlock" THEN 1 ELSE 0)
  <2>1. q # p => Smoked(q)' = Smoked(q)
    BY <1>1 DEF Smoked
  <2>2. Smoked(p) = counter[p]
    BY <1>2, <1>3 DEF Smoked
  <2>3. Smoked(p)' = counter[p] + (IF l = "unlock" THEN 1 ELSE 0)
    BY <1>1, <1>3 DEF Smoked
  <2>4. Smoked(q) \in Nat
    BY <1>2, ForeverAssumption DEF Smoked
  <2> QED BY <1>2, <2>1, <2>2, <2>3, <2>4
<1>5. pc'[{}] = "exited" <=> pc[{}] = "exited"
  BY <1>1, <1>3
<1>6. /\ Told \in Nat /\ Told' \in Nat
      /\ Told' >= Told + (IF l = "unlock" THEN 1 ELSE 0)
  <2>1. Told' - Told = sem'["agent"] - sem["agent"] /\ Told \in Nat /\ Told' \in Nat
    BY <1>1, <1>2, <1>5, ForeverAssumption DEF Told
  <2> QED BY <1>2, <2>1
<1>7. ASSUME build = "semaphores", ~LastRoundDealt'
      PROVE  /\ Unharmed' /\ (OutOfLoop = {})'
             /\ \A q \in Processes \ {{}} : Smoked(q)' <= Told'
  <2>1. ~LastRoundDealt
    <3>1. pc[{}] = "sleepAgent" => pc'[{}] = "sleepAgent"
      BY <1>1 DEF Smoking, Dealing
    <3>2. \A m \in Killing \cup {"exited", "killed"} :
            pc[{}] = m => pc'[{}] = m
      BY <1>1, <1>3
    <3> QED BY <1>1, <1>7, <3>1, <3>2, LocationNames DEF LastRoundDealt
  <2>2. /\ Unharmed /\ OutOfLoop = {}
        /\ \A q \in Processes \ {{}} : Smoked(q) <= Told
    BY <1>7, <2>1 DEF Inv, Rounds
  <2>3. \A q \in Processes \ {{}} : Smoked(q)' <= Told'
    BY <1>4, <1>6, <2>2
  <2>4. Unharmed'
    BY <1>1, <1>3, <2>2 DEF Unharmed
  <2>5. \A q \in Processes \ {{}} :
          pc'[q] \notin Forking \cup Dealing \cup Killing \cup {"exited"}
    BY <1>1, <2>2, OutsideTheLoop DEF Forking, Dealing, Killing, Smoking
  <2>6. (OutOfLoop = {})'
    BY <2>5, LocationNames DEF OutOfLoop, Dealing
  <2> QED BY <2>3, <2>4, <2>6
<1>8. ASSUME build = "threads", Unharmed'
      PROVE  (Smoked({1}) + Smoked({2}) + Smoked({3}) <= Told)'
  <2>1. Unharmed
    BY <1>1, <1>3, <1>8 DEF Unharmed
  <2>2. Smoked({1}) + Smoked({2}) + Smoked({3}) <= Told
    BY <1>8, <2>1 DEF Inv, Rounds
  <2>3. {1} # {2} /\ {1} # {3} /\ {2} # {3}
    BY \A i, j : {i} = {j} => i = j
  <2>4. {1} \in Processes \ {{}} /\ {2} \in Processes \ {{}} /\ {3} \in Processes \ {{}}
    BY <1>1 DEF Smoker
  <2> QED BY <1>4, <1>6, <2>2, <2>3, <2>4
<1> QED BY <1>1, <1>7, <1>8 DEF Rounds

(* A smoker takes what it lacks off the table.                             *)
LEMMA PickUpInv ==
  ASSUME Inv, NEW p \in Processes \ {{}}, Still,
         P(p, Lacks[Number(p)], "sleep", "lockToPick")
  PROVE  Inv'
<1>1. /\ Lacks[Number(p)] \in {"smoker_tobacco", "smoker_match", "smoker_paper"}
      /\ pc[p] = "sleep" /\ pc' = [pc EXCEPT ![p] = "lockToPick"]
      /\ sem[Lacks[Number(p)]] > 0
      /\ sem' = [sem EXCEPT ![Lacks[Number(p)]] = @ - 1]
      /\ UNCHANGED <<build, counter, main>>
  BY NumberIsLast, TheSemaphores DEF P, Still
<1>2. TypeOK'
  BY <1>1, TheSemaphores DEF Inv, TypeOK, Locations, Smoking, Dealing
<1>3. Roles' /\ Unborn' /\ Passed' /\ (Unharmed' <=> Unharmed)
  <2>1. UNCHANGED <<build, main>>
    BY <1>1
  <2> QED BY <1>1, <2>1, WithinLoop DEF Smoking, Dealing
<1>4. Table'
  BY <1>1, <1>3, TheSemaphores DEF Inv, Table, AtTable, TypeOK, Raised
<1>5. OneDealPerAgent'
  <2>1. /\ pc'[p] = "lockToPick" /\ pc[p] # "killed"
        /\ \A q \in Processes : q # p => pc'[q] = pc[q]
    BY <1>1 DEF Inv, TypeOK
  <2>2. LET total == sem["smoker_tobacco"] + sem["smoker_match"]
                       + sem["smoker_paper"] + sem["agent"]
        IN  total' = total + (-1)
    BY <1>1, TheSemaphores DEF Inv, TypeOK
  <2>3. sem' \in [Semaphores -> Nat]
    BY <1>2 DEF TypeOK
  <2> QED BY <1>1, <2>1, <2>2, <2>3, Balance DEF Hands, Waits
<1>6. Rounds'
  <2>1. sem' \in [Semaphores -> Nat]
    BY <1>2 DEF TypeOK
  <2>2. sem["agent"] <= sem'["agent"]
    BY <1>1, TheSemaphores DEF Inv, TypeOK
  <2>3. UNCHANGED <<build, counter>>
    BY <1>1
  <2> QED BY <1>1, <2>1, <2>2, <2>3, RoundsKept DEF Smoking, Dealing
<1> QED BY <1>2, <1>3, <1>4, <1>5, <1>6 DEF Inv

(* The smoker takes its turn at the table.                                 *)
LEMMA LockToPickInv ==
  ASSUME Inv, NEW p \in Processes \ {{}}, Still, P(p, "lock", "lockToPick", "tellAgent")
  PROVE  Inv'
<1>1. /\ pc[p] = "lockToPick" /\ pc' = [pc EXCEPT ![p] = "tellAgent"]
      /\ sem["lock"] > 0
      /\ sem' = [sem EXCEPT !["lock"] = @ - 1]
      /\ UNCHANGED <<build, counter, main>>
  BY TheSemaphores DEF Inv, TypeOK, P, V, Raised, Still
<1>2. TypeOK'
  BY <1>1, TheSemaphores DEF Inv, TypeOK, Locations, Smoking, Dealing
<1>3. Roles' /\ Unborn' /\ Passed' /\ (Unharmed' <=> Unharmed)
  <2>1. UNCHANGED <<build, main>>
    BY <1>1
  <2> QED BY <1>1, <2>1, WithinLoop DEF Smoking, Dealing
<1>4. Table'
  BY <1>1, <1>3, TheSemaphores DEF Inv, Table, AtTable, TypeOK, Raised
<1>5. OneDealPerAgent'
  <2>1. /\ pc'[p] = "tellAgent" /\ pc[p] # "killed"
        /\ \A q \in Processes : q # p => pc'[q] = pc[q]
    BY <1>1 DEF Inv, TypeOK
  <2>2. LET total == sem["smoker_tobacco"] + sem["smoker_match"]
                       + sem["smoker_paper"] + sem["agent"]
        IN  total' = total + 0
    BY <1>1, TheSemaphores DEF Inv, TypeOK
  <2>3. sem' \in [Semaphores -> Nat]
    BY <1>2 DEF TypeOK
  <2> QED BY <1>1, <2>1, <2>2, <2>3, Balance DEF Hands, Waits
<1>6. Rounds'
  <2>1. sem' \in [Semaphores -> Nat]
    BY <1>2 DEF TypeOK
  <2>2. sem["agent"] <= sem'["agent"]
    BY <1>1, TheSemaphores DEF Inv, TypeOK
  <2>3. UNCHANGED <<build, counter>>
    BY <1>1
  <2> QED BY <1>1, <2>1, <2>2, <2>3, RoundsKept DEF Smoking, Dealing
<1> QED BY <1>2, <1>3, <1>4, <1>5, <1>6 DEF Inv

(* So does the agent.                                                      *)
LEMMA LockToDealInv ==
  ASSUME Inv, NEW p \in Processes, Still, P(p, "lock", "lockToDeal", "deal")
  PROVE  Inv'
<1>1. /\ pc[p] = "lockToDeal" /\ pc' = [pc EXCEPT ![p] = "deal"]
      /\ sem["lock"] > 0
      /\ sem' = [sem EXCEPT !["lock"] = @ - 1]
      /\ UNCHANGED <<build, counter, main>>
  BY TheSemaphores DEF Inv, TypeOK, P, V, Raised, Still
<1>2. TypeOK'
  BY <1>1, TheSemaphores DEF Inv, TypeOK, Locations, Smoking, Dealing
<1>3. Roles' /\ Unborn' /\ Passed' /\ (Unharmed' <=> Unharmed)
  <2>1. UNCHANGED <<build, main>>
    BY <1>1
  <2> QED BY <1>1, <2>1, WithinLoop DEF Smoking, Dealing
<1>4. Table'
  BY <1>1, <1>3, TheSemaphores DEF Inv, Table, AtTable, TypeOK, Raised
<1>5. OneDealPerAgent'
  <2>1. /\ pc'[p] = "deal" /\ pc[p] # "killed"
        /\ \A q \in Processes : q # p => pc'[q] = pc[q]
    BY <1>1 DEF Inv, TypeOK
  <2>2. LET total == sem["smoker_tobacco"] + sem["smoker_match"]
                       + sem["smoker_paper"] + sem["agent"]
        IN  total' = total + 0
    BY <1>1, TheSemaphores DEF Inv, TypeOK
  <2>3. sem' \in [Semaphores -> Nat]
    BY <1>2 DEF TypeOK
  <2> QED BY <1>1, <2>1, <2>2, <2>3, Balance DEF Hands, Waits
<1>6. Rounds'
  <2>1. sem' \in [Semaphores -> Nat]
    BY <1>2 DEF TypeOK
  <2>2. sem["agent"] <= sem'["agent"]
    BY <1>1, TheSemaphores DEF Inv, TypeOK
  <2>3. UNCHANGED <<build, counter>>
    BY <1>1
  <2> QED BY <1>1, <2>1, <2>2, <2>3, RoundsKept DEF Smoking, Dealing
<1> QED BY <1>2, <1>3, <1>4, <1>5, <1>6 DEF Inv

(* With its deal on the table the agent goes to sleep.                     *)
LEMMA UnlockTableInv ==
  ASSUME Inv, NEW p \in Processes, Still, V(p, "lock", "unlockTable", "sleepAgent")
  PROVE  Inv'
<1>1. /\ pc[p] = "unlockTable" /\ pc' = [pc EXCEPT ![p] = "sleepAgent"]
      /\ Raised(sem["lock"]) \in Nat
      /\ sem' = [sem EXCEPT !["lock"] = Raised(@)]
      /\ UNCHANGED <<build, counter, main>>
  BY TheSemaphores DEF Inv, TypeOK, P, V, Raised, Still
<1>2. TypeOK'
  BY <1>1, TheSemaphores DEF Inv, TypeOK, Locations, Smoking, Dealing
<1>3. Roles' /\ Unborn' /\ Passed' /\ (Unharmed' <=> Unharmed)
  <2>1. UNCHANGED <<build, main>>
    BY <1>1
  <2> QED BY <1>1, <2>1, WithinLoop DEF Smoking, Dealing
<1>4. Table'
  BY <1>1, <1>3, TheSemaphores DEF Inv, Table, AtTable, TypeOK, Raised
<1>5. OneDealPerAgent'
  <2>1. /\ pc'[p] = "sleepAgent" /\ pc[p] # "killed"
        /\ \A q \in Processes : q # p => pc'[q] = pc[q]
    BY <1>1 DEF Inv, TypeOK
  <2>2. LET total == sem["smoker_tobacco"] + sem["smoker_match"]
                       + sem["smoker_paper"] + sem["agent"]
        IN  total' = total + 0
    BY <1>1, TheSemaphores DEF Inv, TypeOK
  <2>3. sem' \in [Semaphores -> Nat]
    BY <1>2 DEF TypeOK
  <2> QED BY <1>1, <2>1, <2>2, <2>3, Balance DEF Hands, Waits
<1>6. Rounds'
  <2>1. sem' \in [Semaphores -> Nat]
    BY <1>2 DEF TypeOK
  <2>2. sem["agent"] <= sem'["agent"]
    BY <1>1, TheSemaphores DEF Inv, TypeOK
  <2>3. UNCHANGED <<build, counter>>
    BY <1>1
  <2> QED BY <1>1, <2>1, <2>2, <2>3, RoundsKept DEF Smoking, Dealing
<1> QED BY <1>2, <1>3, <1>4, <1>5, <1>6 DEF Inv

(* While the first agent is the only one at most one deal is about.        *)
LEMMA OneAgent ==
  ASSUME Inv, Unharmed,
         \A p \in Processes \ {{}} : pc[p] \notin Waits
  PROVE  /\ Outstanding \in 0..1
         /\ pc[{}] \notin Waits => Outstanding = 0
         /\ \A s \in {"agent", "smoker_tobacco", "smoker_match", "smoker_paper"} :
              /\ sem[s] \in 0..Outstanding
              /\ (\E p \in Processes : pc[p] \in Hands) => sem[s] = 0
<1>1. {} \in Processes
  BY DEF Processes
<1>2. Outstanding = At(Waits)
  BY DEF Inv, OneDealPerAgent, Unharmed, Waits
<1>3. At(Waits) = HowMany(pc, Waits) /\ At(Hands) = HowMany(pc, Hands)
  BY DEF At, HowMany, Where
<1>4. At(Waits) \in 0..1
  BY <1>1, <1>3, CountedOne
<1>5. pc[{}] \notin Waits => At(Waits) = 0
  BY <1>3, Counted
<1>6. At(Hands) \in Nat /\ ((\E p \in Processes : pc[p] \in Hands) => At(Hands) # 0)
  BY <1>3, Counted
<1>7. /\ sem["agent"] \in Nat /\ sem["smoker_tobacco"] \in Nat
      /\ sem["smoker_match"] \in Nat /\ sem["smoker_paper"] \in Nat
  BY TheSemaphores DEF Inv, TypeOK
<1>8. Outstanding = sem["smoker_tobacco"] + sem["smoker_match"]
                      + sem["smoker_paper"] + At(Hands) + sem["agent"]
  BY DEF Outstanding, Hands
<1>9. /\ sem["agent"] + At(Hands) <= Outstanding
      /\ sem["smoker_tobacco"] + At(Hands) <= Outstanding
      /\ sem["smoker_match"] + At(Hands) <= Outstanding
      /\ sem["smoker_paper"] + At(Hands) <= Outstanding
  BY <1>6, <1>7, <1>8
<1>10. Outstanding \in 0..1 /\ (pc[{}] \notin Waits => Outstanding = 0)
  BY <1>2, <1>4, <1>5
<1>11. ASSUME NEW n \in Nat, n + At(Hands) <= Outstanding
       PROVE  /\ n \in 0..Outstanding
              /\ (\E p \in Processes : pc[p] \in Hands) => n = 0
  BY <1>6, <1>10, <1>11
<1> QED BY <1>7, <1>9, <1>10, <1>11

(* With threads it is.                                                     *)
LEMMA ThreadsWait ==
  ASSUME Inv, build = "threads"
  PROVE  \A p \in Processes \ {{}} : pc[p] \notin Waits
BY DEF Inv, Roles, Waits, Smoking

(* The agent's deal.                                                       *)
LEMMA DealInv ==
  ASSUME Inv, NEW p \in Processes, Still, Deal(p)
  PROVE  Inv'
<1>1. PICK k \in Smoker : V(p, Lacks[k], "deal", "unlockTable")
  BY DEF Deal
<1> DEFINE s == Lacks[k]
<1>2. /\ s \in {"smoker_tobacco", "smoker_match", "smoker_paper"}
      /\ pc[p] = "deal" /\ pc' = [pc EXCEPT ![p] = "unlockTable"]
      /\ sem' = [sem EXCEPT ![s] = Raised(sem[s])]
      /\ Raised(sem[s]) \in Nat
      /\ UNCHANGED <<build, counter, main>>
  BY <1>1, TheSemaphores DEF Inv, TypeOK, V, Raised, Still
<1> HIDE DEF s
<1>3. TypeOK'
  BY <1>2, TheSemaphores DEF Inv, TypeOK, Locations, Dealing
<1>4. Roles' /\ Unborn' /\ Passed' /\ (Unharmed' <=> Unharmed)
  <2>1. UNCHANGED <<build, main>>
    BY <1>2
  <2> QED BY <1>2, <2>1, WithinLoop DEF Smoking, Dealing
<1>5. Table'
  BY <1>2, <1>4, TheSemaphores DEF Inv, Table, AtTable, TypeOK
<1>6. OneDealPerAgent'
  <2>1. SUFFICES ASSUME Unharmed PROVE OneDealPerAgent'
    BY <1>4 DEF OneDealPerAgent, Unharmed
  <2>2. build = "threads" => sem[s] = 0
    <3> SUFFICES ASSUME build = "threads" PROVE sem[s] = 0
      OBVIOUS
    <3>1. p = {}
      BY <1>2 DEF Inv, Roles, Smoking
    <3>2. Outstanding = 0 /\ sem[s] \in 0..Outstanding
      BY <1>2, <2>1, <3>1, OneAgent, ThreadsWait DEF Waits
    <3> QED BY <3>2
  <2>3. Raised(sem[s]) = sem[s] + 1 /\ sem[s] \in Nat
    BY <1>2, <2>2, TheSemaphores DEF Raised, Inv, TypeOK
  <2>4. LET total == sem["smoker_tobacco"] + sem["smoker_match"]
                       + sem["smoker_paper"] + sem["agent"]
        IN  total' = total + 1
    BY <1>2, <2>3, TheSemaphores DEF Inv, TypeOK
  <2>5. /\ pc'[p] = "unlockTable" /\ pc[p] # "killed"
        /\ \A q \in Processes : q # p => pc'[q] = pc[q]
    BY <1>2 DEF Inv, TypeOK
  <2>6. sem' \in [Semaphores -> Nat]
    BY <1>3 DEF TypeOK
  <2> QED BY <1>2, <2>4, <2>5, <2>6, Balance DEF Hands, Waits
<1>7. Rounds'
  <2>1. sem' \in [Semaphores -> Nat] /\ sem["agent"] <= sem'["agent"]
    BY <1>2, <1>3, TheSemaphores DEF Inv, TypeOK
  <2>2. UNCHANGED <<build, counter>>
    BY <1>2
  <2> QED BY <1>2, <2>1, <2>2, RoundsKept DEF Dealing
<1> QED BY <1>3, <1>4, <1>5, <1>6, <1>7 DEF Inv

(* The answer: with a mutex it must not come on top of another.            *)
LEMMA TellAgentInv ==
  ASSUME Inv, NEW p \in Processes \ {{}}, Still, TellAgent(p)
  PROVE  Inv'
<1>1. /\ pc[p] = "tellAgent" /\ pc' = [pc EXCEPT ![p] = "unlock"]
      /\ sem' = [sem EXCEPT !["agent"] = Raised(sem["agent"])]
      /\ Raised(sem["agent"]) \in Nat
      /\ UNCHANGED <<build, counter, main>>
  BY TheSemaphores DEF Inv, TypeOK, TellAgent, WakesAgent, Raised, Still
<1>2. TypeOK'
  BY <1>1, TheSemaphores DEF Inv, TypeOK, Locations, Smoking
<1>3. Roles' /\ Unborn' /\ Passed' /\ (Unharmed' <=> Unharmed)
  <2>1. UNCHANGED <<build, main>>
    BY <1>1
  <2> QED BY <1>1, <2>1, WithinLoop DEF Smoking, Dealing
<1>4. Table'
  BY <1>1, <1>3, TheSemaphores DEF Inv, Table, AtTable, TypeOK
<1>5. Unharmed => Raised(sem["agent"]) = sem["agent"] + 1 /\ sem["agent"] \in Nat
  <2>1. build = "threads" /\ Unharmed => sem["agent"] = 0
    BY <1>1, OneAgent, ThreadsWait DEF Hands
  <2> QED BY <2>1, TheSemaphores DEF Raised, Inv, TypeOK
<1>6. OneDealPerAgent'
  <2>1. SUFFICES ASSUME Unharmed PROVE OneDealPerAgent'
    BY <1>3 DEF OneDealPerAgent, Unharmed
  <2>2. LET total == sem["smoker_tobacco"] + sem["smoker_match"]
                       + sem["smoker_paper"] + sem["agent"]
        IN  total' = total + 1
    BY <1>1, <1>5, <2>1, TheSemaphores DEF Inv, TypeOK
  <2>3. /\ pc'[p] = "unlock" /\ pc[p] # "killed"
        /\ \A q \in Processes : q # p => pc'[q] = pc[q]
    BY <1>1 DEF Inv, TypeOK
  <2>4. sem' \in [Semaphores -> Nat]
    BY <1>2 DEF TypeOK
  <2> QED BY <1>1, <2>2, <2>3, <2>4, Balance DEF Hands, Waits
<1>7. Rounds'
  <2>1. CASE Unharmed
    <3>1. /\ sem' \in [Semaphores -> Nat] /\ sem["agent"] <= sem'["agent"]
          /\ sem["agent"] + 1 <= sem'["agent"]
      BY <1>1, <1>2, <1>5, <2>1, TheSemaphores DEF Inv, TypeOK
    <3>2. UNCHANGED <<build, counter>>
      BY <1>1
    <3> QED BY <1>1, <3>1, <3>2, RoundsKept DEF Smoking
  <2>2. CASE ~Unharmed
    <3>1. build = "semaphores" => LastRoundDealt
      BY <2>2 DEF Inv, Rounds
    <3>2. pc'[{}] = pc[{}] /\ counter' = counter /\ build' = build
      BY <1>1 DEF Inv, TypeOK, Processes
    <3>3. LastRoundDealt' <=> LastRoundDealt
      BY <3>2 DEF LastRoundDealt
    <3> QED BY <1>3, <2>2, <3>1, <3>2, <3>3 DEF Rounds
  <2> QED BY <2>1, <2>2
<1> QED BY <1>2, <1>3, <1>4, <1>6, <1>7 DEF Inv

(* A round that is done, and what it leaves.                               *)
LEMMA RoundDone ==
  ASSUME Inv, NEW p \in Processes, NEW again, NEW out
  PROVE  LET r == Round(p, again, out) IN
         /\ r.done \in 0..(Forever - 1)
         /\ \/ counter[p] + 1 < Forever /\ r.to = again /\ r.done = counter[p] + 1
            \/ counter[p] + 1 = Forever /\ r.to = out /\ r.done = 0
<1>1. counter[p] \in 0..(Forever - 1)
  BY DEF Inv, TypeOK
<1> QED BY <1>1, ForeverAssumption DEF Round

(* A smoker leaves its loop only when the first agent has dealt its last   *)
(* round: the smoker has been paid for Forever deals, and the agent makes  *)
(* no more.                                                                *)
LEMMA LastSmoke ==
  ASSUME Inv, build = "semaphores", NEW p \in Processes \ {{}},
         pc[p] = "unlock", counter[p] + 1 = Forever
  PROVE  LastRoundDealt
<1> SUFFICES ASSUME ~LastRoundDealt PROVE FALSE
  OBVIOUS
<1>1. {} \in Processes
  BY DEF Processes
<1>2. /\ Unharmed /\ Smoked(p) <= Told
      /\ \A q \in Processes \ {{}} :
           pc[q] \notin Forking \cup Dealing \cup Killing \cup {"exited"}
  BY OutsideTheLoop DEF Inv, Rounds
<1>3. pc[{}] # "exited" /\ ~(pc[{}] = "sleepAgent" /\ counter[{}] = Forever - 1)
  BY OutsideTheLoop
<1>4. /\ Outstanding \in 0..1 /\ sem["agent"] \in 0..Outstanding
      /\ pc[{}] \notin Waits => Outstanding = 0
  BY <1>2, OneAgent DEF Waits, Dealing
<1>5. Forever <= counter[{}] + sem["agent"]
  BY <1>2, <1>3 DEF Smoked, Told
<1>6. counter[{}] \in 0..(Forever - 1)
  BY <1>1 DEF Inv, TypeOK
<1>7. counter[{}] = Forever - 1 /\ pc[{}] \in Waits
  BY <1>4, <1>5, <1>6, ForeverAssumption
<1>8. pc[{}] # "unlockTable"
  BY <1>1, <1>2 DEF Inv, Table, AtTable
<1> QED BY <1>3, <1>7, <1>8 DEF Waits

(* The smoker gives the table back and smokes.                             *)
LEMMA SmokeInv ==
  ASSUME Inv, NEW p \in Processes \ {{}}, Smoke(p)
  PROVE  Inv'
<1> DEFINE r == Round(p, "sleep", AfterLoop(p))
<1>1. /\ pc[p] = "unlock" /\ pc' = [pc EXCEPT ![p] = r.to]
      /\ sem' = [sem EXCEPT !["lock"] = Raised(sem["lock"])]
      /\ Raised(sem["lock"]) \in Nat
      /\ counter' = [counter EXCEPT ![p] = r.done]
      /\ UNCHANGED <<build, main>>
  BY TheSemaphores DEF Inv, TypeOK, Smoke, V, Raised
<1>2. /\ r.done \in 0..(Forever - 1)
      /\ \/ counter[p] + 1 < Forever /\ r.to = "sleep" /\ r.done = counter[p] + 1
         \/ counter[p] + 1 = Forever /\ r.to = AfterLoop(p) /\ r.done = 0
  BY RoundDone
<1>3. /\ Number(p) \in 1..3 /\ \A j \in p : j < Number(p) + 1
      /\ build = "threads" => AfterLoop(p) = "exited"
      /\ build = "semaphores" =>
           AfterLoop(p) = ForkAt[Number(p) + 1] /\ Number(p) + 1 \in 2..4
  BY NumberIsLast DEF Inv, TypeOK, AfterLoop, Smoker, Processes
<1>4. /\ AfterLoop(p) \in {"exited", "fork2", "fork3", "lockToDeal"}
      /\ build = "semaphores" => AfterLoop(p) # "exited"
      /\ \A k \in Smoker : AfterLoop(p) = ForkAt[k] => k = Number(p) + 1
  <2>1. CASE build = "threads"
    BY <1>3, <2>1, LocationNames DEF Smoker
  <2>2. CASE build = "semaphores"
    BY <1>3, <2>2, LocationNames DEF Smoker
  <2> QED BY <2>1, <2>2 DEF Inv, TypeOK
<1> HIDE DEF r
<1>5. r.to \in {"sleep", "exited", "fork2", "fork3", "lockToDeal"}
  BY <1>2, <1>4
<1>6. TypeOK'
  BY <1>1, <1>2, <1>5, TheSemaphores
     DEF Inv, TypeOK, Locations, Smoking, Forking, Dealing, Gone
<1>7. /\ pc'[p] = r.to /\ \A q \in Processes : q # p => pc'[q] = pc[q]
      /\ counter'[p] = r.done
      /\ \A q \in Processes : q # p => counter'[q] = counter[q]
      /\ sem'["agent"] = sem["agent"] /\ {} \in Processes
  BY <1>1, TheSemaphores DEF Inv, TypeOK, Processes
<1>8. Roles'
  <2>1. build = "threads" => r.to \in Smoking \cup {"exited"}
    BY <1>2, <1>3 DEF Smoking
  <2> QED BY <1>1, <1>7, <2>1 DEF Inv, Roles, Smoking
<1>9. Unborn'
  <2>1. ASSUME NEW k \in Smoker, r.to = ForkAt[k]
        PROVE  \A i \in p : i < k
    BY <1>2, <1>3, <1>4, <2>1, LocationNames DEF Smoker
  <2>2. main' = main /\ pc[p] \in Smoking
    BY <1>1 DEF Smoking
  <2>3. pc[p] \notin {"unborn", "failed"} /\ r.to \notin {"unborn", "failed"}
    BY <1>1, <1>5
  <2> QED BY <1>1, <2>1, <2>2, <2>3, UnbornKept
<1>10. Table'
  BY <1>1, <1>5, <1>7, TheSemaphores DEF Inv, Table, AtTable, TypeOK, Raised,
     Unharmed
<1>11. Passed' /\ (Unharmed' <=> Unharmed)
  <2>1. UNCHANGED <<build, main>>
    BY <1>1
  <2>2. build = "semaphores" => r.to \notin {"kill2", "kill3", "exited"}
    BY <1>2, <1>4, <1>5
  <2> QED BY <1>1, <1>5, <2>1, <2>2, PassedKept DEF Gone
<1>12. OneDealPerAgent'
  <2>1. LET total == sem["smoker_tobacco"] + sem["smoker_match"]
                       + sem["smoker_paper"] + sem["agent"]
        IN  total' = total + 0
    BY <1>1, TheSemaphores DEF Inv, TypeOK
  <2>2. sem' \in [Semaphores -> Nat] /\ pc[p] # "killed"
    BY <1>1, <1>6 DEF TypeOK
  <2>3. r.to \notin Hands \cup Waits /\ pc[p] \notin Hands \cup Waits
    BY <1>1, <1>5 DEF Hands, Waits
  <2> QED BY <1>7, <2>1, <2>2, <2>3, Balance
<1>13. Rounds'
  <2>1. Told' = Told
    BY <1>7 DEF Told
  <2>2. ASSUME NEW q \in Processes \ {{}}
        PROVE  Smoked(q) \in Nat /\ Smoked(q)' \in Nat /\ Smoked(q)' <= Smoked(q)
    <3>1. counter[q] \in Nat /\ Forever \in Nat
      BY ForeverAssumption DEF Inv, TypeOK
    <3>2. CASE q # p
      BY <1>7, <3>1, <3>2 DEF Smoked
    <3>3. CASE q = p
      <4>1. Smoked(p) = counter[p] + 1
        BY <1>1 DEF Smoked
      <4>2. Smoked(p)' = IF r.to = "exited" THEN Forever ELSE r.done
        BY <1>2, <1>5, <1>7 DEF Smoked
      <4>3. r.to = "exited" => counter[p] + 1 = Forever
        BY <1>2
      <4> QED BY <1>2, <3>1, <3>3, <4>1, <4>2, <4>3
    <3> QED BY <3>2, <3>3
  <2>3. Told \in Nat
    BY <1>7, TheSemaphores, ForeverAssumption DEF Told, Inv, TypeOK
  <2>4. ASSUME build = "semaphores", ~LastRoundDealt'
        PROVE  /\ Unharmed' /\ (OutOfLoop = {})'
               /\ \A q \in Processes \ {{}} : Smoked(q)' <= Told'
    <3>1. ~LastRoundDealt
      BY <1>7, <2>4 DEF LastRoundDealt
    <3>2. /\ Unharmed /\ OutOfLoop = {}
          /\ \A q \in Processes \ {{}} : Smoked(q) <= Told
      BY <2>4, <3>1 DEF Inv, Rounds
    <3>3. r.to = "sleep"
      BY <1>1, <1>2, <2>4, <3>1, LastSmoke
    <3>4. \A q \in Processes \ {{}} :
            pc'[q] \notin Forking \cup Dealing \cup Killing \cup {"exited"}
      BY <1>7, <3>2, <3>3, OutsideTheLoop DEF Forking, Dealing, Killing
    <3>5. (OutOfLoop = {})'
      BY <3>4, LocationNames DEF OutOfLoop, Dealing
    <3> QED BY <1>11, <2>1, <2>2, <2>3, <3>2, <3>5
  <2>5. ASSUME build = "threads", Unharmed'
        PROVE  (Smoked({1}) + Smoked({2}) + Smoked({3}) <= Told)'
    <3>1. Smoked({1}) + Smoked({2}) + Smoked({3}) <= Told
      BY <1>11, <2>5 DEF Inv, Rounds
    <3>2. \A j \in 1..3 : {j} \in Processes \ {{}}
      BY DEF Processes, Smoker
    <3>3. \A j \in 1..3 : /\ Smoked({j}) \in Nat /\ Smoked({j})' \in Nat
                          /\ Smoked({j})' <= Smoked({j})
      BY <2>2, <3>2
    <3> QED BY <2>1, <2>3, <3>1, <3>3
  <2> QED BY <1>1, <2>4, <2>5 DEF Rounds
<1> QED BY <1>6, <1>8, <1>9, <1>10, <1>11, <1>12, <1>13 DEF Inv

(* The agent wakes to the answer.                                          *)
LEMMA WokenInv ==
  ASSUME Inv, NEW p \in Processes, Woken(p)
  PROVE  Inv'
<1> DEFINE r == Round(p, "lockToDeal", AfterBusiness)
<1>1. /\ pc[p] = "sleepAgent" /\ pc' = [pc EXCEPT ![p] = r.to]
      /\ sem["agent"] > 0 /\ sem' = [sem EXCEPT !["agent"] = sem["agent"] - 1]
      /\ counter' = [counter EXCEPT ![p] = r.done]
      /\ UNCHANGED <<build, main>>
  BY DEF Woken, P, Round
<1>2. /\ r.done \in 0..(Forever - 1)
      /\ \/ counter[p] + 1 < Forever /\ r.to = "lockToDeal" /\ r.done = counter[p] + 1
         \/ counter[p] + 1 = Forever /\ r.to = AfterBusiness /\ r.done = 0
  BY RoundDone
<1>3. AfterBusiness = IF build = "threads" THEN "exited" ELSE "kill1"
  BY LocationNames DEF AfterBusiness
<1> HIDE DEF r
<1>4. r.to \in {"lockToDeal", "exited", "kill1"}
  BY <1>2, <1>3
<1>5. TypeOK'
  BY <1>1, <1>2, <1>4, TheSemaphores
     DEF Inv, TypeOK, Locations, Killing, Dealing, Gone
<1>6. /\ pc'[p] = r.to /\ \A q \in Processes : q # p => pc'[q] = pc[q]
      /\ counter'[p] = r.done
      /\ \A q \in Processes : q # p => counter'[q] = counter[q]
      /\ sem["agent"] \in Nat \ {0} /\ sem'["agent"] = sem["agent"] - 1
      /\ sem'["lock"] = sem["lock"] /\ {} \in Processes
  BY <1>1, TheSemaphores DEF Inv, TypeOK, Processes
<1>7. build = "threads" => p = {} /\ r.to \in {"lockToDeal", "exited"}
  BY <1>1, <1>2, <1>3 DEF Inv, Roles, Smoking
<1>8. Roles'
  BY <1>1, <1>4, <1>6, <1>7 DEF Inv, Roles, Smoking, Dealing
<1>9. Unborn'
  <2>1. \A k \in Smoker : r.to # ForkAt[k]
    BY <1>4, LocationNames DEF Smoker
  <2>2. main' = main
    BY <1>1
  <2>3. /\ pc[p] \notin {"unborn", "failed"} /\ r.to \notin {"unborn", "failed"}
        /\ r.to \notin Smoking
    BY <1>1, <1>4 DEF Smoking
  <2> QED BY <1>1, <2>1, <2>2, <2>3, UnbornKept
<1>10. Table'
  BY <1>1, <1>4, <1>6 DEF Inv, Table, AtTable, Unharmed
<1>11. Passed' /\ (Unharmed' <=> Unharmed)
  <2>1. UNCHANGED <<build, main>>
    BY <1>1
  <2>2. build = "semaphores" => r.to \notin {"kill2", "kill3", "exited"}
    BY <1>2, <1>3
  <2> QED BY <1>1, <1>4, <2>1, <2>2, PassedKept DEF Gone
<1>12. OneDealPerAgent'
  <2>1. LET total == sem["smoker_tobacco"] + sem["smoker_match"]
                       + sem["smoker_paper"] + sem["agent"]
        IN  total' = total + (-1)
    BY <1>1, TheSemaphores DEF Inv, TypeOK
  <2>2. sem' \in [Semaphores -> Nat] /\ pc[p] # "killed"
    BY <1>1, <1>5 DEF TypeOK
  <2>3. /\ r.to \notin Hands \cup Waits
        /\ pc[p] \notin Hands /\ pc[p] \in Waits
    BY <1>1, <1>4 DEF Hands, Waits
  <2> QED BY <1>6, <2>1, <2>2, <2>3, Balance
<1>13. Rounds'
  <2>1. \A q \in Processes \ {{}} : q # p => Smoked(q)' = Smoked(q)
    BY <1>6 DEF Smoked
  <2>2. ASSUME p = {}, r.to # "kill1"
        PROVE  Told' = Told
    <3>1. counter[{}] \in Nat /\ Forever \in Nat
      BY <1>6, ForeverAssumption DEF Inv, TypeOK
    <3>2. Told = counter[{}] + sem["agent"]
      BY <1>1, <2>2 DEF Told
    <3>3. Told' = counter[{}] + 1 + (sem["agent"] - 1)
      BY <1>2, <1>3, <1>4, <1>6, <2>2 DEF Told
    <3> QED BY <1>6, <3>1, <3>2, <3>3
  <2>3. ASSUME build = "semaphores", ~LastRoundDealt'
        PROVE  /\ Unharmed' /\ (OutOfLoop = {})'
               /\ \A q \in Processes \ {{}} : Smoked(q)' <= Told'
    <3>1. ~LastRoundDealt
      <4>1. CASE p = {}
        <5>1. r.to # "kill1" /\ pc[{}] = "sleepAgent"
          BY <1>1, <1>6, <2>3, <4>1, LocationNames DEF LastRoundDealt, Killing
        <5>2. counter[{}] # Forever - 1
          BY <1>2, <1>3, <2>3, <4>1, <5>1, ForeverAssumption
        <5> QED BY <5>1, <5>2, OutsideTheLoop DEF Killing
      <4>2. CASE p # {}
        BY <1>6, <2>3, <4>2 DEF LastRoundDealt
      <4> QED BY <4>1, <4>2
    <3>2. /\ Unharmed /\ OutOfLoop = {}
          /\ \A q \in Processes \ {{}} : Smoked(q) <= Told
      BY <2>3, <3>1 DEF Inv, Rounds
    <3>3. p = {}
      BY <1>1, <3>2, OutsideTheLoop DEF Dealing
    <3>4. r.to # "kill1"
      BY <1>6, <2>3, <3>3, LocationNames DEF LastRoundDealt, Killing
    <3>5. \A q \in Processes \ {{}} :
            pc'[q] \notin Forking \cup Dealing \cup Killing \cup {"exited"}
      BY <1>6, <3>2, <3>3, OutsideTheLoop
    <3>6. (OutOfLoop = {})'
      BY <3>5, LocationNames DEF OutOfLoop, Dealing
    <3> QED BY <1>11, <2>1, <2>2, <3>2, <3>3, <3>4, <3>6
  <2>4. ASSUME build = "threads", Unharmed'
        PROVE  (Smoked({1}) + Smoked({2}) + Smoked({3}) <= Told)'
    <3>1. Smoked({1}) + Smoked({2}) + Smoked({3}) <= Told
      BY <1>11, <2>4 DEF Inv, Rounds
    <3>2. \A j \in 1..3 : {j} \in Processes \ {{}}
      BY DEF Processes, Smoker
    <3>3. \A j \in 1..3 : Smoked({j})' = Smoked({j})
      BY <1>7, <2>1, <2>4, <3>2
    <3>4. Told' = Told
      BY <1>7, <2>2, <2>4
    <3> QED BY <3>1, <3>3, <3>4
  <2> QED BY <1>1, <2>3, <2>4 DEF Rounds
<1> QED BY <1>5, <1>8, <1>9, <1>10, <1>11, <1>12, <1>13 DEF Inv

(* Who is forked in time before the k-th child of p is so before p itself. *)
LEMMA LaterFork ==
  ASSUME NEW q \in Processes, NEW p \in Processes, NEW k \in Smoker,
         \A i \in p : i < k, Later(q, p \cup {k}), q # p
  PROVE  Later(q, p) /\ p \ q \subseteq (p \cup {k}) \ q
<1>1. PICK j \in (p \cup {k}) \ q : TRUE
  BY DEF Later
<1>2. k \notin q
  <2> SUFFICES ASSUME k \in q PROVE FALSE
    OBVIOUS
  <2>1. j \in p /\ k < j
    BY <1>1 DEF Later
  <2> QED BY <2>1 DEF Processes, Smoker
<1> QED BY <1>2 DEF Later

(* fork: the child was never born before, nor will it be again.            *)
LEMMA ForkInv ==
  ASSUME Inv, NEW p \in Processes, NEW k \in Smoker, Fork(p, k)
  PROVE  Inv'
<1>1. PICK child \in {"sleep", "failed"} :
        pc' = [pc EXCEPT ![p] = ForkAt[k + 1], ![p \cup {k}] = child]
  BY DEF Fork
<1>2. /\ pc[p] = ForkAt[k] /\ UNCHANGED <<build, sem, counter, main>>
      /\ p \cup {k} \in Processes /\ {} \in Processes
  BY DEF Fork, Processes
<1>3. /\ ForkAt[k] \in Forking /\ ForkAt[k + 1] \in {"fork2", "fork3", "lockToDeal"}
      /\ \A j \in Smoker : ForkAt[k + 1] = ForkAt[j] => j = k + 1
  <2>1. k \in {1, 2, 3}
    BY DEF Smoker
  <2> QED BY <2>1, LocationNames DEF Smoker, Forking
<1>4. (\A i \in p : i < k) /\ k \notin p
  BY <1>2 DEF Inv, Unborn, Smoker
<1>5. Later(p, p \cup {k}) /\ (p \cup {k}) \ p = {k}
  BY <1>4 DEF Later
<1>6. pc[p \cup {k}] = "unborn"
  BY <1>2, <1>5 DEF Inv, Unborn, Smoker
<1>7. /\ pc'[p] = ForkAt[k + 1] /\ pc'[p \cup {k}] = child /\ p # p \cup {k}
      /\ \A q \in Processes : q # p /\ q # p \cup {k} => pc'[q] = pc[q]
  BY <1>1, <1>2, <1>4 DEF Inv, TypeOK
<1>8. build = "semaphores" /\ main = "none"
  BY <1>2, <1>3 DEF Inv, TypeOK, Roles, Forking, Dealing, Smoking
<1>9. Unharmed' <=> Unharmed
  BY <1>2, <1>3, <1>6, <1>7 DEF Unharmed, Forking
<1>10. TypeOK'
  BY <1>1, <1>2, <1>3 DEF Inv, TypeOK, Locations, Smoking, Dealing, Forking, Gone
<1>11. Roles'
  BY <1>2, <1>3, <1>7, <1>8 DEF Inv, Roles, Smoking
<1>12. Unborn'
  <2>1. ASSUME NEW q \in Processes, NEW r \in Processes, Later(q, r),
               pc'[q] \in Smoking \cup {"unborn", "failed"}
        PROVE  pc'[r] = "unborn"
    <3>1. q # p
      BY <1>3, <1>7, <2>1 DEF Smoking
    <3>2. CASE q = p \cup {k}
      <4>1. Later(p, r) /\ \A j \in r \ p : k <= j
        BY <1>4, <2>1, <3>2 DEF Later, Processes, Smoker
      <4>2. pc[r] = "unborn" /\ r # p /\ r # p \cup {k}
        BY <1>2, <2>1, <3>2, <4>1 DEF Inv, Unborn, Later
      <4> QED BY <1>7, <4>2
    <3>3. CASE q # p \cup {k}
      <4>1. pc[q] \in Smoking \cup {"unborn", "failed"} /\ pc[r] = "unborn"
        BY <1>7, <2>1, <3>1, <3>3 DEF Inv, Unborn
      <4>2. r # p
        BY <1>2, <1>3, <4>1 DEF Forking
      <4>3. r # p \cup {k}
        <5>1. r = p \cup {k} => Later(q, p)
          BY <1>4, <2>1, <3>1, LaterFork
        <5> QED BY <1>2, <1>3, <4>1, <5>1 DEF Inv, Unborn, Forking
      <4> QED BY <1>7, <4>1, <4>2, <4>3
    <3> QED BY <3>2, <3>3
  <2>2. ASSUME NEW q \in Processes, NEW m \in Smoker, pc'[q] = ForkAt[m]
        PROVE  /\ \A i \in q : i < m
               /\ \A r \in Processes : Later(q, r) /\ (\A j \in r \ q : m <= j)
                    => pc'[r] = "unborn"
    <3>0. ForkAt[m] \in Forking
      BY LocationNames DEF Smoker, Forking
    <3>1. CASE q = p
      <4>1. m = k + 1
        BY <1>3, <1>7, <2>2, <3>1
      <4>2. \A i \in q : i < m
        BY <1>4, <3>1, <4>1 DEF Processes, Smoker
      <4>3. ASSUME NEW r \in Processes, Later(q, r), \A j \in r \ q : m <= j
            PROVE  pc'[r] = "unborn"
        <5>1. \A j \in r \ p : k <= j
          BY <3>1, <4>1, <4>3 DEF Smoker, Processes
        <5>2. pc[r] = "unborn" /\ r # p
          BY <1>2, <3>1, <4>3, <5>1 DEF Inv, Unborn, Later
        <5>3. r # p \cup {k}
          BY <1>5, <3>1, <4>1, <4>3 DEF Smoker
        <5> QED BY <1>7, <5>2, <5>3
      <4> QED BY <4>2, <4>3
    <3>2. CASE q # p
      <4>1. q # p \cup {k} /\ pc[q] = ForkAt[m]
        BY <1>7, <2>2, <3>0, <3>2 DEF Forking
      <4>2. ASSUME NEW r \in Processes, Later(q, r), \A j \in r \ q : m <= j
            PROVE  pc'[r] = "unborn"
        <5>1. pc[r] = "unborn"
          BY <4>1, <4>2 DEF Inv, Unborn
        <5>2. r # p
          BY <1>2, <1>3, <5>1 DEF Forking
        <5>3. r # p \cup {k}
          <6>1. r = p \cup {k} => Later(q, p) /\ \A j \in p \ q : m <= j
            BY <1>4, <3>2, <4>2, LaterFork
          <6> QED BY <1>2, <1>3, <4>1, <6>1 DEF Inv, Unborn, Forking
        <5> QED BY <1>7, <5>1, <5>2, <5>3
      <4> QED BY <4>1, <4>2 DEF Inv, Unborn
    <3> QED BY <3>1, <3>2
  <2>3. /\ main' # "create" /\ \A j \in Smoker : main' # CreateAt[j]
    BY <1>2, <1>8 DEF CreateAt, Smoker
  <2> QED BY <2>1, <2>2, <2>3 DEF Unborn, Later
<1>13. Table'
  BY <1>2, <1>3, <1>7, <1>9 DEF Inv, Table, AtTable, Forking
<1>14. OneDealPerAgent'
  <2>1. \A L : At(L) = HowMany(pc, L) /\ At(L)' = HowMany(pc', L)
    BY DEF At, HowMany, Where
  <2>2. /\ Where(pc', Hands) = Where(pc, Hands)
        /\ Where(pc', Waits) = Where(pc, Waits)
    BY <1>2, <1>3, <1>6, <1>7 DEF Where, Hands, Waits, Forking
  <2>3. At(Hands)' = At(Hands) /\ At(Waits)' = At(Waits)
    BY <2>2 DEF At, Where
  <2>4. Outstanding' = Outstanding
    BY <1>2, <2>3 DEF Outstanding, Hands
  <2> QED BY <1>9, <2>3, <2>4 DEF Inv, OneDealPerAgent, Unharmed, Waits
<1>15. Rounds'
  <2>1. ~LastRoundDealt' => ~LastRoundDealt
    <3>1. CASE p = {}
      BY <1>2, <1>3, <3>1, OutsideTheLoop DEF Forking, Killing
    <3>2. CASE p # {}
      <4>1. pc'[{}] = pc[{}] /\ counter' = counter
        BY <1>2, <1>7, <3>2
      <4> QED BY <4>1 DEF LastRoundDealt
    <3> QED BY <3>1, <3>2
  <2>2. OutOfLoop = {} => (OutOfLoop = {})'
    <3> SUFFICES ASSUME OutOfLoop = {} PROVE (OutOfLoop = {})'
      OBVIOUS
    <3>1. p = {} /\ \A q \in Processes \ {{}} :
            pc[q] \notin Forking \cup Dealing \cup Killing \cup {"exited"}
      BY <1>2, <1>3, OutsideTheLoop
    <3>2. \A q \in Processes \ {{}} :
            pc'[q] \notin Forking \cup Dealing \cup Killing \cup {"exited"}
      BY <1>7, <3>1 DEF Forking, Dealing, Killing
    <3> QED BY <3>2, LocationNames DEF OutOfLoop, Dealing
  <2>3. Told' = Told
    BY <1>2, <1>3, <1>6, <1>7 DEF Told, Forking
  <2>4. \A q \in Processes : Smoked(q)' = Smoked(q)
    BY <1>2, <1>3, <1>6, <1>7 DEF Smoked, Forking
  <2> QED BY <1>2, <1>8, <1>9, <2>1, <2>2, <2>3, <2>4 DEF Inv, Rounds
<1>16. Passed'
  <2>1. ForkAt[k + 1] # KillAt[1] /\ \A j \in 1..4 : ForkAt[k + 1] # KillAt[j]
    BY <1>3, LocationNames
  <2>2. ASSUME NEW m \in 1..4, NEW j \in Smoker, pc'[{}] = KillAt[m], j < m
        PROVE  pc'[{j}] \in Gone
    <3>1. {} # p /\ {} # p \cup {k}
      BY <1>7, <2>1, <2>2
    <3>2. pc[{j}] \in Gone /\ {j} \in Processes
      BY <1>2, <1>7, <1>8, <2>2, <3>1 DEF Inv, Passed, Processes
    <3>3. {j} # p /\ {j} # p \cup {k}
      BY <1>2, <1>3, <1>4, <3>1, <3>2 DEF Forking, Gone
    <3> QED BY <1>7, <3>2, <3>3
  <2> QED BY <1>2, <1>8, <2>2 DEF Passed
<1> QED BY <1>10, <1>11, <1>12, <1>13, <1>14, <1>15, <1>16 DEF Inv

(* The closing kills.                                                      *)
LEMMA KillInv ==
  ASSUME Inv, NEW p \in Processes, NEW k \in Smoker, Kill(p, k)
  PROVE  Inv'
<1>1. /\ pc[p] = KillAt[k] /\ UNCHANGED <<build, sem, counter, main>>
      /\ pc' = [q \in Processes |->
                  IF q \in Targets(p, k) \cap Alive THEN "killed"
                  ELSE IF q = p THEN KillAt[k + 1] ELSE pc[q]]
      /\ {} \in Processes
  BY DEF Kill, Processes
<1>2. /\ KillAt[k] \in Killing /\ KillAt[k + 1] \in {"kill2", "kill3", "exited"}
      /\ \A j \in 1..4 : KillAt[k + 1] = KillAt[j] => j = k + 1
  <2>1. k \in {1, 2, 3}
    BY DEF Smoker
  <2> QED BY <2>1, LocationNames DEF Killing
<1>3. build = "semaphores" /\ main = "none"
  BY <1>1, <1>2 DEF Inv, TypeOK, Roles, Killing, Dealing, Smoking
<1>4. ASSUME NEW q \in Processes
      PROVE  \/ pc'[q] = pc[q] /\ q # p
             \/ pc'[q] = "killed" /\ pc[q] \notin Gone
             \/ pc'[q] = KillAt[k + 1] /\ q = p
  BY <1>1 DEF Alive
<1>5. \A q \in Processes : pc[q] = "killed" => pc'[q] = "killed"
  BY <1>1, <1>2 DEF Alive, Gone, Killing
<1>6. TypeOK'
  BY <1>1, <1>2 DEF Inv, TypeOK, Locations, Killing, Gone
<1>7. Roles'
  BY <1>1, <1>2, <1>3, <1>4 DEF Inv, Roles, Smoking
<1>8. Unborn'
  <2>1. \A q \in Processes : pc[q] = "unborn" => pc'[q] = "unborn"
    BY <1>1, <1>2, <1>4 DEF Gone, Killing
  <2>2. \A q \in Processes : pc'[q] \in Smoking \cup {"unborn", "failed"} => pc'[q] = pc[q]
    BY <1>2, <1>4 DEF Smoking
  <2>3. \A q \in Processes, j \in Smoker : pc'[q] = ForkAt[j] => pc'[q] = pc[q]
    BY <1>2, <1>4, LocationNames DEF Smoker
  <2>4. /\ main' # "create" /\ \A j \in Smoker : main' # CreateAt[j]
    BY <1>1, <1>3 DEF CreateAt, Smoker
  <2>5. ASSUME NEW q \in Processes, NEW r \in Processes, Later(q, r),
               pc'[q] \in Smoking \cup {"unborn", "failed"}
        PROVE  pc'[r] = "unborn"
    BY <2>1, <2>2, <2>5 DEF Inv, Unborn
  <2>6. ASSUME NEW q \in Processes, NEW j \in Smoker, pc'[q] = ForkAt[j]
        PROVE  /\ \A i \in q : i < j
               /\ \A r \in Processes : Later(q, r) /\ (\A i \in r \ q : j <= i)
                    => pc'[r] = "unborn"
    BY <2>1, <2>3, <2>6 DEF Inv, Unborn
  <2> QED BY <2>4, <2>5, <2>6 DEF Unborn, Later
<1>9. LastRoundDealt'
  <2>1. LastRoundDealt
    <3> SUFFICES ASSUME ~LastRoundDealt PROVE FALSE
      OBVIOUS
    <3>1. \A q \in Processes \ {{}} :
            pc[q] \notin Forking \cup Dealing \cup Killing \cup {"exited"}
      BY <1>3, OutsideTheLoop DEF Inv, Rounds
    <3>2. p = {}
      BY <1>1, <1>2, <3>1
    <3> QED BY <1>1, <1>2, <3>2, OutsideTheLoop
  <2> QED BY <1>1, <1>2, <1>4, <2>1, LocationNames DEF LastRoundDealt, Killing
<1>10. Rounds'
  BY <1>1, <1>3, <1>9 DEF Rounds
<1>11. ASSUME \E q \in Processes : pc'[q] = "killed"
       PROVE  Table' /\ OneDealPerAgent'
  BY <1>11 DEF Table, OneDealPerAgent, Unharmed
<1>12. ASSUME \A q \in Processes : pc'[q] # "killed"
       PROVE  Table' /\ OneDealPerAgent'
  <2>1. /\ pc'[p] = KillAt[k + 1] /\ \A q \in Processes : q # p => pc'[q] = pc[q]
        /\ Unharmed
    BY <1>4, <1>5, <1>12 DEF Unharmed
  <2>2. Table'
    BY <1>1, <1>2, <2>1 DEF Inv, Table, AtTable, Killing
  <2>3. OneDealPerAgent'
    <3>1. /\ Where(pc', Hands) = Where(pc, Hands)
          /\ Where(pc', Waits) = Where(pc, Waits)
      BY <1>1, <1>2, <2>1 DEF Where, Hands, Waits, Killing
    <3>2. At(Hands)' = At(Hands) /\ At(Waits)' = At(Waits)
      BY <3>1 DEF At, Where
    <3>3. Outstanding' = Outstanding
      BY <1>1, <3>2 DEF Outstanding, Hands
    <3> QED BY <2>1, <3>2, <3>3 DEF Inv, OneDealPerAgent, Unharmed, Waits
  <2> QED BY <2>2, <2>3
<1>13. Passed'
  <2>1. ASSUME NEW m \in 1..4, NEW j \in Smoker, pc'[{}] = KillAt[m], j < m
        PROVE  pc'[{j}] \in Gone
    <3>1. {j} \in Processes
      BY DEF Processes
    <3>2. pc[{j}] \in Gone =>
            pc'[{j}] \in Gone
      BY <1>1, <1>2, <1>4, <3>1 DEF Killing, Gone
    <3>3. KillAt[m] # "killed"
      BY LocationNames
    <3>4. CASE p # {}
      <4>1. pc[{}] = KillAt[m]
        BY <1>1, <1>4, <2>1, <3>3, <3>4
      <4> QED BY <1>3, <2>1, <3>2, <4>1 DEF Inv, Passed
    <3>5. CASE p = {}
      <4>1. m = k + 1
        BY <1>1, <1>2, <1>4, <2>1, <3>3, <3>5
      <4>2. CASE j < k
        <5>1. k \in 1..4 /\ pc[{}] = KillAt[k]
          BY <1>1, <3>5 DEF Smoker
        <5>2. pc[{j}] \in Gone
          BY <1>3, <4>2, <5>1 DEF Inv, Passed
        <5> QED BY <3>2, <5>2
      <4>3. CASE j = k
        <5>1. Forked(p, k) = {k}
          BY <3>5 DEF Forked
        <5>2. {j} \in Targets(p, k)
          BY <3>1, <3>5, <4>3, <5>1 DEF Targets
        <5>3. {j} \in Alive => pc'[{j}] = "killed"
          BY <1>1, <3>1, <5>2
        <5> QED BY <3>1, <3>2, <5>3 DEF Alive, Gone
      <4> QED BY <2>1, <4>1, <4>2, <4>3 DEF Smoker
    <3> QED BY <3>4, <3>5
  <2> QED BY <1>1, <1>3, <2>1 DEF Passed
<1> QED BY <1>6, <1>7, <1>8, <1>10, <1>11, <1>12, <1>13 DEF Inv

(* A step of the threads' main that moves nobody about the table.          *)
LEMMA WhereKept ==
  ASSUME Inv, UNCHANGED sem, Unharmed' <=> Unharmed,
         \A q \in Processes : \/ pc'[q] = pc[q]
                              \/ /\ pc[q] = "unborn"
                                 /\ pc'[q] \in {"lockToDeal", "sleep"}
  PROVE  Table' /\ OneDealPerAgent'
<1>1. Table'
  BY DEF Inv, Table, AtTable
<1>2. /\ Where(pc', Hands) = Where(pc, Hands)
      /\ Where(pc', Waits) = Where(pc, Waits)
  BY DEF Where, Hands, Waits
<1>3. At(Hands)' = At(Hands) /\ At(Waits)' = At(Waits)
  BY <1>2 DEF At, Where
<1>4. Outstanding' = Outstanding
  BY <1>3 DEF Outstanding, Hands
<1> QED BY <1>1, <1>3, <1>4 DEF Inv, OneDealPerAgent, Unharmed, Waits

(* Each call of pthread_create by its own name.                            *)
LEMMA CreateNames ==
  \A a, b \in 1..4 : /\ CreateAt[a] = CreateAt[b] => a = b
                     /\ CreateAt[a] # "create"
                     /\ CreateAt[a] = "join" => a = 4
<1>1. \A a : a \in 1..4 <=> a \in {1, 2, 3, 4}
  OBVIOUS
<1> QED BY <1>1 DEF CreateAt

(* main creates the four threads.                                          *)
LEMMA CreateInv ==
  ASSUME Inv, Create
  PROVE  Inv'
<1>1. PICK p \in Processes, l \in {"lockToDeal", "sleep"} :
        /\ pc' = [pc EXCEPT ![p] = l]
        /\ \/ main = "create" /\ main' = "create1" /\ p = {} /\ l = "lockToDeal"
           \/ \E k \in Smoker : /\ main = CreateAt[k] /\ main' = CreateAt[k + 1]
                                /\ p = {k} /\ l = "sleep"
  <2>1. CreateAt[1] = "create1" /\ {} \in Processes /\ \A k \in Smoker : {k} \in Processes
    BY DEF CreateAt, Processes
  <2> QED BY <2>1 DEF Create
<1>2. /\ UNCHANGED <<build, sem, counter>>
      /\ {} \in Processes /\ \A k \in Smoker : {k} \in Processes
      /\ pc'[p] = l /\ \A q \in Processes : q # p => pc'[q] = pc[q]
  BY <1>1 DEF Create, Inv, TypeOK, Processes
<1>3. /\ CreateAt[1] = "create1" /\ CreateAt[2] = "create2"
      /\ CreateAt[3] = "create3" /\ CreateAt[4] = "join"
  BY DEF CreateAt
<1>4. main' \in {"create1", "create2", "create3", "join"}
  BY <1>1, <1>3 DEF Smoker
<1>5. build = "threads" /\ pc[p] = "unborn" /\ main # "killed"
  <2>1. main # "none" /\ main # "killed"
    BY <1>1, CreateNames DEF CreateAt, Smoker
  <2>2. build = "threads"
    BY <2>1 DEF Inv, TypeOK, Roles
  <2>3. CASE p = {}
    <3>1. main = "create"
      BY <1>1, <2>3
    <3>2. \A q \in Processes : pc[q] = "unborn"
      BY <3>1 DEF Inv, Unborn
    <3> QED BY <2>1, <2>2, <3>2
  <2>4. CASE p # {}
    <3>1. PICK k \in Smoker : main = CreateAt[k] /\ p = {k}
      BY <1>1, <2>4
    <3>2. k <= k
      BY DEF Smoker
    <3>3. pc[{k}] = "unborn"
      BY <3>1, <3>2 DEF Inv, Unborn
    <3> QED BY <2>1, <2>2, <3>1, <3>3
  <2> QED BY <2>3, <2>4
<1>6. Unharmed' <=> Unharmed
  BY <1>2, <1>5 DEF Unharmed
<1>7. TypeOK'
  BY <1>1, <1>2, <1>4 DEF Inv, TypeOK, Locations, Smoking, Dealing
<1>8. Roles'
  <2>1. Cardinality(p) \in {0, 1}
    BY <1>1, FS_Singleton, FS_EmptySet, Zenon
  <2>2. ~(Cardinality(p) > 1)
    BY <2>1
  <2>3. p = {} <=> l = "lockToDeal"
    BY <1>1
  <2>4. main = "create" => p = {}
    BY <1>1, <1>3 DEF Smoker
  <2>5. main' # "none" /\ main' # "create" /\ build' = "threads"
    BY <1>2, <1>4, <1>5
  <2>6. pc'[{}] \in Dealing \cup {"unborn", "exited", "killed"} /\ pc'[{}] # "unborn"
    BY <1>1, <1>2, <1>5, <2>3, <2>4 DEF Inv, Roles, Dealing
  <2>7. \A q \in Processes \ {{}} :
          pc'[q] \in Smoking \cup {"unborn", "exited", "killed"}
    BY <1>1, <1>2, <1>5, <2>3 DEF Inv, Roles, Smoking
  <2>8. \A q \in Processes : Cardinality(q) > 1 => pc'[q] = "unborn"
    BY <1>2, <1>5, <2>2 DEF Inv, Roles
  <2> QED BY <2>5, <2>6, <2>7, <2>8 DEF Roles, Smoking, Dealing
<1>9. Unborn'
  <2>1. p # {} => pc[{}] # "unborn" /\ pc[{}] \notin Smoking \cup {"failed"}
    BY <1>1, <1>3, <1>5 DEF Inv, Roles, Smoker
  <2>2. ASSUME NEW q \in Processes, NEW r \in Processes, Later(q, r),
               pc'[q] \in Smoking \cup {"unborn", "failed"}
        PROVE  pc'[r] = "unborn"
    <3>1. pc[q] \in Smoking \cup {"unborn", "failed"}
      BY <1>2, <1>5, <2>2
    <3>2. pc[r] = "unborn"
      BY <2>2, <3>1 DEF Inv, Unborn
    <3>3. r # p
      <4>1. CASE p = {}
        BY <2>2, <4>1 DEF Later
      <4>2. CASE p # {}
        <5>1. q # {}
          BY <2>1, <3>1, <4>2
        <5>2. PICK k : p = {k}
          BY <1>1, <4>2
        <5> QED BY <2>2, <5>1, <5>2 DEF Later
      <4> QED BY <4>1, <4>2
    <3> QED BY <1>2, <3>2, <3>3
  <2>3. ASSUME NEW q \in Processes, NEW m \in Smoker
        PROVE  pc'[q] # ForkAt[m]
    <3>1. ForkAt[m] \in {"fork1", "fork2", "fork3"}
      BY LocationNames DEF Smoker
    <3>2. pc[q] # ForkAt[m]
      BY <1>2, <1>5, <3>1 DEF Inv, Roles, Dealing, Smoking
    <3> QED BY <1>2, <3>1, <3>2
  <2>4. ASSUME NEW m \in Smoker, main' = CreateAt[m], NEW j \in Smoker, m <= j
        PROVE  pc'[{j}] = "unborn"
    <3>1. CASE main = "create"
      <4>1. p = {} /\ p # {j} /\ {j} \in Processes
        BY <1>1, <1>2, <3>1, CreateNames DEF Smoker
      <4> QED BY <1>2, <3>1, <4>1 DEF Inv, Unborn
    <3>2. CASE main # "create"
      <4>1. PICK k \in Smoker : main = CreateAt[k] /\ main' = CreateAt[k + 1] /\ p = {k}
        BY <1>1, <3>2
      <4>2. m = k + 1
        <5>1. k + 1 \in 1..4 /\ m \in 1..4
          BY DEF Smoker
        <5>2. CreateAt[m] = CreateAt[k + 1]
          BY <2>4, <4>1
        <5> QED BY <5>1, <5>2, CreateNames
      <4>3. pc[{j}] = "unborn"
        <5>1. k <= j
          BY <2>4, <4>2 DEF Smoker
        <5> QED BY <2>4, <4>1, <5>1 DEF Inv, Unborn
      <4>4. {j} # p
        <5>1. j # k
          BY <2>4, <4>2 DEF Smoker
        <5> QED BY <4>1, <5>1
      <4> QED BY <1>2, <4>3, <4>4
    <3> QED BY <3>1, <3>2
  <2> QED BY <1>4, <2>2, <2>3, <2>4 DEF Unborn, Later
<1>10. Table' /\ OneDealPerAgent'
  BY <1>2, <1>5, <1>6, WhereKept
<1>11. Rounds'
  <2>1. Told' = Told
    BY <1>2, <1>5 DEF Told
  <2>2. \A q \in Processes : Smoked(q)' = Smoked(q)
    BY <1>2, <1>5 DEF Smoked
  <2>3. {1} \in Processes /\ {2} \in Processes /\ {3} \in Processes
    BY <1>2 DEF Smoker
  <2> QED BY <1>2, <1>5, <1>6, <2>1, <2>2, <2>3 DEF Inv, Rounds
<1>12. Passed'
  <2>1. main' # "killed" /\ Unharmed
    BY <1>4, <1>5 DEF Inv, Passed
  <2>2. \A k \in 1..4 : main' # KillAt[k]
    BY <1>4, LocationNames
  <2>3. ASSUME NEW m \in 1..4, main' = CreateAt[m], NEW j \in Smoker, j < m
        PROVE  pc'[{j}] # "unborn"
    <3>1. CASE main = "create"
      BY <1>1, <1>3, <2>3, <3>1 DEF Smoker
    <3>2. CASE main # "create"
      <4>1. PICK k \in Smoker : main = CreateAt[k] /\ main' = CreateAt[k + 1] /\ p = {k}
        BY <1>1, <3>2
      <4>2. m = k + 1
        <5>1. k + 1 \in 1..4 /\ m \in 1..4
          BY DEF Smoker
        <5>2. CreateAt[m] = CreateAt[k + 1]
          BY <2>3, <4>1
        <5> QED BY <5>1, <5>2, CreateNames
      <4>3. j < k => pc[{j}] # "unborn"
        BY <1>5, <4>1 DEF Inv, Passed, Smoker
      <4>4. j = k \/ j < k
        BY <2>3, <4>2 DEF Smoker
      <4> QED BY <1>1, <1>2, <4>1, <4>3, <4>4
    <3> QED BY <3>1, <3>2
  <2> QED BY <1>2, <1>5, <1>6, <2>1, <2>2, <2>3 DEF Passed
<1> QED BY <1>7, <1>8, <1>9, <1>10, <1>11, <1>12 DEF Inv

(* main waits for the agent, and for nobody else.                          *)
LEMMA JoinInv ==
  ASSUME Inv, Join
  PROVE  Inv'
<1>1. /\ main = "join" /\ pc[{}] = "exited" /\ main' = "kill1"
      /\ UNCHANGED <<build, sem, pc, counter>>
  BY LocationNames DEF Join
<1>2. build = "threads"
  BY <1>1 DEF Inv, TypeOK, Roles
<1>3. /\ \A m \in Smoker : CreateAt[m] \in {"create1", "create2", "create3"}
      /\ \A m \in 1..4 : CreateAt[m] # "kill1"
      /\ \A m \in 1..4 : KillAt[m] = "kill1" => m = 1
      /\ CreateAt[4] = "join"
  BY LocationNames DEF CreateAt, Smoker
<1>4. TypeOK' /\ Roles' /\ Unharmed' = Unharmed
  BY <1>1, <1>2 DEF Inv, TypeOK, Roles, Unharmed
<1>5. Unborn'
  BY <1>1, <1>3 DEF Inv, Unborn, Later
<1>6. Table' /\ OneDealPerAgent'
  BY <1>1, <1>4, WhereKept
<1>7. Rounds'
  BY <1>1, <1>2, <1>4 DEF Inv, Rounds, Smoked, Told
<1>8. Passed'
  <2>1. \A j \in Smoker : pc[{j}] # "unborn"
    BY <1>1, <1>2, <1>3 DEF Inv, Passed, Smoker
  <2> QED BY <1>1, <1>2, <1>3, <1>4, <2>1 DEF Inv, Passed, Smoker
<1> QED BY <1>4, <1>5, <1>6, <1>7, <1>8 DEF Inv

(* SIGTERM ends all threads, or, sent to none, nothing.                    *)
LEMMA PthreadKillInv ==
  ASSUME Inv, NEW k \in Smoker, PthreadKill(k)
  PROVE  Inv'
<1>1. /\ main = KillAt[k] /\ UNCHANGED <<build, sem, counter>>
      /\ {k} \in Processes /\ {} \in Processes
  BY DEF PthreadKill, Processes
<1>2. main \in Killing /\ build = "threads"
  BY <1>1, LocationNames DEF Inv, TypeOK, Roles, Smoker, Killing
<1>3. /\ pc[{}] = "exited" /\ Unharmed /\ k \in 1..4
      /\ \A j \in Smoker : pc[{j}] # "unborn" /\ (j < k => pc[{j}] = "exited")
  BY <1>1, <1>2 DEF Inv, Passed, Smoker, Killing
<1>4. ASSUME {k} \in Alive
      PROVE  Inv'
  <2>1. /\ main' = "killed"
        /\ pc' = [q \in Processes |-> IF q \in Alive THEN "killed" ELSE pc[q]]
    BY <1>4 DEF PthreadKill
  <2>2. \A q \in Processes : \/ pc'[q] = "killed" /\ pc[q] \notin Gone
                             \/ pc'[q] = pc[q] /\ pc[q] \in Gone
    BY <2>1 DEF Alive
  <2>3. ~Unharmed'
    BY <1>1, <1>4, <2>1 DEF Unharmed
  <2>4. TypeOK'
    BY <1>1, <2>1 DEF Inv, TypeOK, Locations, Gone
  <2>5. Roles'
    BY <1>1, <1>2, <2>1, <2>2 DEF Inv, Roles, Gone, Smoking, Killing
  <2>6. Unborn'
    <3>1. /\ main' # "create" /\ \A j \in Smoker : main' # CreateAt[j]
      BY <2>1 DEF CreateAt, Smoker
    <3>2. \A q \in Processes : pc[q] = "unborn" => pc'[q] = "unborn"
      BY <2>2 DEF Gone
    <3>3. \A q \in Processes :
            pc'[q] \in Smoking \cup {"unborn", "failed"} => pc'[q] = pc[q]
      BY <2>2 DEF Smoking
    <3>4. \A q \in Processes, j \in Smoker : pc'[q] # ForkAt[j]
      BY <2>2, LocationNames DEF Gone, Smoker
    <3>5. ASSUME NEW q \in Processes, NEW r \in Processes, Later(q, r),
                 pc'[q] \in Smoking \cup {"unborn", "failed"}
          PROVE  pc'[r] = "unborn"
      BY <3>2, <3>3, <3>5 DEF Inv, Unborn
    <3> QED BY <3>1, <3>4, <3>5 DEF Unborn, Later
  <2>7. Table' /\ OneDealPerAgent' /\ Rounds'
    BY <1>1, <1>2, <2>3 DEF Table, OneDealPerAgent, Rounds, Unharmed
  <2>8. Passed'
    <3>1. \A m \in 1..4 : "killed" # KillAt[m] /\ "killed" # CreateAt[m]
      BY LocationNames DEF CreateAt
    <3> QED BY <1>1, <1>2, <2>1, <2>3, <3>1 DEF Passed
  <2> QED BY <2>4, <2>5, <2>6, <2>7, <2>8 DEF Inv
<1>5. ASSUME {k} \notin Alive
      PROVE  Inv'
  <2>1. main' = KillAt[k + 1] /\ pc' = pc
    BY <1>5 DEF PthreadKill
  <2>2. /\ KillAt[k + 1] \in {"kill2", "kill3", "exited"}
        /\ \A m \in 1..4 : KillAt[m] = KillAt[k + 1] => m = k + 1
        /\ \A m \in 1..4 : CreateAt[m] \in {"create1", "create2", "create3", "join"}
    <3>1. k \in {1, 2, 3}
      BY DEF Smoker
    <3> QED BY <3>1, LocationNames DEF CreateAt
  <2>3. pc[{k}] = "exited"
    <3>1. pc[{k}] \in {"failed", "exited", "killed"}
      BY <1>1, <1>3, <1>5 DEF Alive, Gone
    <3>2. pc[{k}] # "failed"
      <4>1. {k} \in Processes \ {{}}
        BY <1>1
      <4> QED BY <1>2, <4>1 DEF Inv, Roles, Smoking
    <3> QED BY <1>1, <1>3, <3>1, <3>2 DEF Unharmed
  <2>4. TypeOK' /\ Roles' /\ Unharmed'
    BY <1>1, <1>2, <1>3, <2>1, <2>2 DEF Inv, TypeOK, Roles, Unharmed, Killing
  <2>5. Unborn'
    BY <1>1, <2>1, <2>2 DEF Inv, Unborn, Later, Smoker
  <2>6. Table' /\ OneDealPerAgent'
    BY <1>1, <1>3, <2>1, <2>4, WhereKept
  <2>7. Rounds'
    BY <1>1, <1>2, <1>3, <2>1 DEF Inv, Rounds, Smoked, Told
  <2>8. Passed'
    <3>1. \A j \in Smoker : j < k + 1 => pc[{j}] = "exited"
      BY <1>3, <2>3 DEF Smoker
    <3> QED BY <1>1, <1>2, <1>3, <2>1, <2>2, <2>4, <3>1 DEF Passed
  <2> QED BY <2>4, <2>5, <2>6, <2>7, <2>8 DEF Inv
<1> QED BY <1>4, <1>5

-------------------------------------------------------------------------------
(* At first there is nobody, or the first agent alone.                     *)
LEMMA InitInv == Init => Inv
<1> SUFFICES ASSUME Init PROVE Inv
  OBVIOUS
<1>1. /\ build \in {"semaphores", "threads"}
      /\ \A s \in Semaphores : sem[s] = IF s = "lock" THEN 1 ELSE 0
      /\ \A p \in Processes :
           /\ pc[p] = IF p = {} /\ build = "semaphores" THEN "fork1" ELSE "unborn"
           /\ counter[p] = 0
      /\ main = IF build = "threads" THEN "create" ELSE "none"
      /\ {} \in Processes
  BY LocationNames DEF Init, SemCreate, Processes
<1>2. TypeOK
  BY LocationNames, ForeverAssumption
     DEF Init, SemCreate, TypeOK, Locations, Forking, Gone
<1>3. Roles
  BY <1>1 DEF Roles, Smoking
<1>4. Unborn
  <2>1. \A k \in Smoker : /\ ForkAt[k] \in Forking /\ (ForkAt[k] = "fork1" => k = 1)
                          /\ CreateAt[k] \notin {"create", "none"}
    BY LocationNames DEF Smoker, Forking, CreateAt
  <2>2. ASSUME NEW q \in Processes, NEW r \in Processes, Later(q, r)
        PROVE  pc[r] = "unborn"
    BY <1>1, <2>2 DEF Later
  <2>3. ASSUME NEW q \in Processes, NEW k \in Smoker, pc[q] = ForkAt[k]
        PROVE  q = {}
    BY <1>1, <2>1, <2>3 DEF Forking
  <2> QED BY <1>1, <2>1, <2>2, <2>3 DEF Unborn
<1>5. Table /\ Unharmed
  BY <1>1, TheSemaphores DEF Table, AtTable, Unharmed
<1>6. OneDealPerAgent
  <2>1. HowMany(pc, Hands) = 0 /\ HowMany(pc, Waits) = 0
    BY <1>1, Counted DEF Hands, Waits
  <2>2. At(Hands) = 0 /\ At(Waits) = 0
    BY <2>1 DEF At, HowMany, Where
  <2>3. Outstanding = 0
    BY <1>1, <2>2, TheSemaphores DEF Outstanding, Hands
  <2> QED BY <2>2, <2>3 DEF OneDealPerAgent, Waits
<1>7. Rounds
  <2>1. \A p \in Processes : Smoked(p) = 0
    BY <1>1 DEF Smoked
  <2>2. Told = 0
    BY <1>1, TheSemaphores DEF Told
  <2>3. \A p \in Processes \ {{}} :
          pc[p] \notin Forking \cup Dealing \cup Killing \cup {"exited"}
    BY <1>1 DEF Forking, Dealing, Killing
  <2>4. {1} \in Processes /\ {2} \in Processes /\ {3} \in Processes
    BY DEF Processes, Smoker
  <2> QED BY <1>5, <2>1, <2>2, <2>3, <2>4, OutsideTheLoop DEF Rounds
<1>8. Passed
  <2>1. \A k \in 1..4 : /\ KillAt[k] \notin {"fork1", "unborn", "create"}
                        /\ CreateAt[k] # "create"
    BY LocationNames DEF CreateAt
  <2> QED BY <1>1, <1>5, <2>1 DEF Passed
<1> QED BY <1>2, <1>3, <1>4, <1>5, <1>6, <1>7, <1>8 DEF Inv

(* The invariant is inductive.                                             *)
LEMMA StepInv == Inv /\ [Next]_vars => Inv'
<1> SUFFICES ASSUME Inv, [Next]_vars PROVE Inv'
  OBVIOUS
<1>1. CASE Main
  BY <1>1, CreateInv, JoinInv, PthreadKillInv DEF Main
<1>2. ASSUME NEW p \in Processes, Step(p)
      PROVE  Inv'
  <2>1. CASE p # {} /\ SmokerStep(p)
    BY <2>1, PickUpInv, LockToPickInv, TellAgentInv, SmokeInv DEF SmokerStep
  <2>2. CASE AgentStep(p)
    BY <2>2, LockToDealInv, DealInv, UnlockTableInv, WokenInv DEF AgentStep
  <2>3. CASE \E k \in Smoker : Fork(p, k) \/ Kill(p, k)
    BY <2>3, ForkInv, KillInv
  <2> QED BY <1>2, <2>1, <2>2, <2>3 DEF Step
<1>3. CASE UNCHANGED vars
  <2>1. UNCHANGED <<build, sem, pc, counter, main>>
    BY <1>3 DEF vars
  <2> QED BY <2>1 DEF Inv, TypeOK, Roles, Unborn, Later, Table, Unharmed,
          OneDealPerAgent, Outstanding, At, Rounds, LastRoundDealt, OutOfLoop,
          Smoked, Told, Passed
<1> QED BY <1>1, <1>2, <1>3 DEF Next

(* The invariant holds in every reachable state of both programs.          *)
THEOREM Invariance == Spec => []Inv
BY InitInv, StepInv, PTL DEF Spec

(* However many smokers have become agents: until somebody is killed, the  *)
(* deals on the table, in the hands of smokers and answered are as many as *)
(* the agents that wait, though not one each.                              *)
THEOREM DealsAnswered == Spec => []OneDealPerAgent
<1>1. Inv => OneDealPerAgent
  BY DEF Inv
<1> QED BY <1>1, Invariance, PTL

(* Who is neither the first agent nor one of its smokers has come out of   *)
(* more than one fork.                                                     *)
LEMMA OtherProcesses ==
  ASSUME NEW p \in Processes, p # {}, \A j \in Smoker : p # {j}
  PROVE  Cardinality(p) > 1
<1>1. IsFiniteSet(Smoker)
  <2>1. 1 \in Int /\ 3 \in Int
    OBVIOUS
  <2> QED BY <2>1, FS_Interval, Zenon DEF Smoker
<1>2. IsFiniteSet(p)
  BY <1>1, FS_Subset DEF Processes
<1>3. Cardinality(p) \in Nat /\ Cardinality(p) # 0
  BY <1>2, FS_CardinalityType, FS_EmptySet
<1>4. Cardinality(p) # 1
  BY <1>2, FS_Singleton DEF Processes
<1> QED BY <1>3, <1>4

(* Smokers become agents only when the first agent has dealt its last      *)
(* round; its closing kills leave none of its own smokers; and the threads *)
(* never get as far as exit(EXIT_SUCCESS), for one that is there to be     *)
(* killed takes all with it.                                               *)
THEOREM Endings == Spec => []HowItEnds
<1>1. Inv => HowItEnds
  <2> SUFFICES ASSUME Inv PROVE HowItEnds
    OBVIOUS
  <2>1. ASSUME build = "semaphores", OutOfLoop # {}
        PROVE  LastRoundDealt
    BY <2>1 DEF Inv, Rounds
  <2>2. ASSUME build = "semaphores", pc[{}] = "exited", NEW p \in Alive
        PROVE  Cardinality(p) > 1
    <3>1. \A j \in Smoker : pc[{j}] \in Gone
      BY <2>2, LocationNames DEF Inv, Passed, Smoker
    <3>2. p \in Processes /\ p # {} /\ \A j \in Smoker : p # {j}
      BY <2>2, <3>1 DEF Alive, Gone
    <3> QED BY <3>2, OtherProcesses
  <2>3. main # "exited"
    <3> SUFFICES ASSUME main = "exited" PROVE FALSE
      OBVIOUS
    <3>1. build = "threads"
      BY DEF Inv, TypeOK, Roles
    <3>2. Unharmed /\ pc[{}] = "exited" /\ \A j \in Smoker : pc[{j}] = "exited"
      BY <3>1, LocationNames DEF Inv, Passed, Smoker
    <3>3. Forever + Forever + Forever <= Forever + sem["agent"]
      BY <3>1, <3>2 DEF Inv, Rounds, Smoked, Told, Smoker
    <3>4. sem["agent"] = 0
      <4>1. Outstanding = 0 /\ sem["agent"] \in 0..Outstanding
        BY <3>1, <3>2, OneAgent, ThreadsWait DEF Waits
      <4> QED BY <4>1
    <3> QED BY <3>3, <3>4, ForeverAssumption
  <2> QED BY <2>1, <2>2, <2>3 DEF HowItEnds
<1> QED BY <1>1, Invariance, PTL
===============================================================================
