--------------------------------- MODULE Smokers --------------------------------
(***************************************************************************)
(* LAB/Task6, the cigarette smokers: an agent puts two ingredients on the  *)
(* table, the smoker who has the third picks them up and wakes the agent.  *)
(* There are two programs with the same loops, and build says which.       *)
(*                                                                         *)
(* "semaphores" (task6_semaphores.c): processes that are forked one after  *)
(* the other, over System V semaphores (sem.h).  A smoker that has smoked  *)
(* FOREVER times leaves its loop, and nothing stops it there: it forks the *)
(* smokers that come after it in the text and becomes an agent.  A process *)
(* is named by the set of forks it came out of as the child: {} is the     *)
(* first agent, {1} its smoker1, {1, 3} the smoker3 that smoker1 forked.   *)
(*                                                                         *)
(* "threads" (task6_pthreadlib.c): four threads of one process, {} the     *)
(* agent, over mutexes that one thread locks and another unlocks.  A       *)
(* default mutex keeps no count: unlocking it once more changes nothing.   *)
(*                                                                         *)
(* Semaphores and threads are always created; forks may fail.              *)
(***************************************************************************)
EXTENDS Integers, FiniteSets

CONSTANTS Forever,      \* FOREVER, how often each of them goes round: 10
          MaxFailed,    \* bound on the forks that fail
          MaxJoin       \* bound on the smokers that become agents

ASSUME ForeverAssumption == Forever \in Nat \ {0}
ASSUME MaxFailedAssumption == MaxFailed \in Nat
ASSUME MaxJoinAssumption == MaxJoin \in Nat

VARIABLES
  build,        \* which of the two programs
  sem,          \* values of the semaphores; a mutex is 1 if it is unlocked
  pc,           \* where each process or thread is
  counter,      \* how many rounds it has behind it
  main          \* where main is, with threads

vars == <<build, sem, pc, counter, main>>

Smoker    == 1..3
Processes == SUBSET Smoker

(* What smoker k waits for; what the agent's number stands for is another  *)
(* order of the same, get_rand(1, 3) being one of 1, 2 and 3.              *)
Lacks == <<"smoker_tobacco", "smoker_match", "smoker_paper">>

Semaphores == {"lock", "agent"} \cup {Lacks[k] : k \in Smoker}

(* The slips this module is checked against: the agent's semaphore created *)
(* with 1, a pid forgotten by the agent that closes, a smoker that leaves  *)
(* without waking the agent.                                               *)
SemCreateOne      == [s \in Semaphores |-> IF s \in {"lock", "agent"} THEN 1 ELSE 0]
TargetsNot3(p, k) == IF k = 3 THEN {} ELSE {p \cup {k}}
WakesNobody(v)    == v

SemCreate == [s \in Semaphores |-> IF s = "lock" THEN 1 ELSE 0]

ForkAt == <<"fork1", "fork2", "fork3", "lockToDeal">>
KillAt == <<"kill1", "kill2", "kill3", "exited">>

Init ==
  /\ build \in {"semaphores", "threads"}
  /\ sem = SemCreate
  /\ pc = [p \in Processes |->
             IF p = {} /\ build = "semaphores" THEN ForkAt[1] ELSE "unborn"]
  /\ counter = [p \in Processes |-> 0]
  /\ main = IF build = "threads" THEN "create" ELSE "none"

Gone  == {"unborn", "failed", "exited", "killed"}
Alive == {p \in Processes : pc[p] \notin Gone}

-------------------------------------------------------------------------------
(* The semaphore calls, which go from one location to the next.            *)
P(p, s, from, to) ==
  /\ pc[p] = from /\ sem[s] > 0
  /\ sem' = [sem EXCEPT ![s] = @ - 1]
  /\ pc' = [pc EXCEPT ![p] = to]

Raised(v) == IF build = "threads" THEN 1 ELSE v + 1

V(p, s, from, to) ==
  /\ pc[p] = from
  /\ sem' = [sem EXCEPT ![s] = Raised(@)]
  /\ pc' = [pc EXCEPT ![p] = to]

(* One more round is done: on to the next, or out of the loop.             *)
Round(p, again, out) ==
  LET more == counter[p] + 1 < Forever
  IN  [to   |-> IF more THEN again ELSE out,
       done |-> IF more THEN counter[p] + 1 ELSE 0]

-------------------------------------------------------------------------------
(* A smoker.                                                               *)
Number(p) == CHOOSE k \in p : \A j \in p : j <= k

Still == UNCHANGED <<build, counter, main>>

AfterLoop(p) == IF build = "threads" THEN "exited" ELSE ForkAt[Number(p) + 1]

WakesAgent(v) == Raised(v)

TellAgent(p) ==
  /\ pc[p] = "tellAgent"
  /\ sem' = [sem EXCEPT !["agent"] = WakesAgent(@)]
  /\ pc' = [pc EXCEPT ![p] = "unlock"]

(* Smokers that have become agents.                                      *)
OutOfLoop == {p \in Processes \ {{}} :
                pc[p] \in {ForkAt[k] : k \in 1..4} \cup {KillAt[k] : k \in 1..4}
                            \cup {"deal", "unlockTable", "sleepAgent"}}

(* V(lock); what follows up to the next call, smoking included, is nobody  *)
(* else's business.                                                        *)
Smoke(p) ==
  LET r == Round(p, "sleep", AfterLoop(p))
  IN  /\ r.to = ForkAt[Number(p) + 1] => Cardinality(OutOfLoop) < MaxJoin
      /\ V(p, "lock", "unlock", r.to)
      /\ counter' = [counter EXCEPT ![p] = r.done]
      /\ UNCHANGED <<build, main>>

SmokerStep(p) ==
  \/ Still /\ P(p, Lacks[Number(p)], "sleep", "lockToPick")
  \/ Still /\ P(p, "lock", "lockToPick", "tellAgent")
  \/ Still /\ TellAgent(p)
  \/ Smoke(p)

-------------------------------------------------------------------------------
(* An agent.                                                               *)
Deal(p) == \E k \in Smoker : V(p, Lacks[k], "deal", "unlockTable")

AfterBusiness == IF build = "threads" THEN "exited" ELSE KillAt[1]

Woken(p) ==
  /\ P(p, "agent", "sleepAgent", Round(p, "lockToDeal", AfterBusiness).to)
  /\ counter' = [counter EXCEPT ![p] = Round(p, "", "").done]
  /\ UNCHANGED <<build, main>>

AgentStep(p) ==
  \/ Still /\ P(p, "lock", "lockToDeal", "deal")
  \/ Still /\ Deal(p)
  \/ Still /\ V(p, "lock", "unlockTable", "sleepAgent")
  \/ Woken(p)

-------------------------------------------------------------------------------
(* fork: the child starts the k-th smoker's loop, the parent goes on.  It  *)
(* does so as well when there is no child.                                 *)
At(locations) == Cardinality({p \in Processes : pc[p] \in locations})

Fork(p, k) ==
  /\ pc[p] = ForkAt[k]
  /\ \E child \in {"sleep", "failed"} :
       /\ child = "failed" => At({"failed"}) < MaxFailed
       /\ pc' = [pc EXCEPT ![p] = ForkAt[k + 1], ![p \cup {k}] = child]
  /\ UNCHANGED <<build, sem, counter, main>>

(* Whom kill(smoker_k, SIGKILL) reaches.  The variable smoker_k of p is 0, *)
(* the process group, if p came out of that fork as the child; otherwise   *)
(* it was set by the process that p was at the time, to a pid, or to -1,   *)
(* which is everybody else.                                                *)
Forked(p, k) == {j \in p : j < k} \cup {k}

Targets(p, k) ==
  IF k \in p THEN Processes
  ELSE IF pc[Forked(p, k)] = "failed" THEN Processes \ {p}
  ELSE {Forked(p, k)}

Kill(p, k) ==
  /\ pc[p] = KillAt[k]
  /\ pc' = [q \in Processes |->
              IF q \in Targets(p, k) \cap Alive THEN "killed"
              ELSE IF q = p THEN KillAt[k + 1] ELSE pc[q]]
  /\ UNCHANGED <<build, sem, counter, main>>

-------------------------------------------------------------------------------
(* main, with threads.                                                     *)
CreateAt == <<"create1", "create2", "create3", "join">>

Create ==
  /\ \/ main = "create" /\ main' = CreateAt[1]
        /\ pc' = [pc EXCEPT ![{}] = "lockToDeal"]
     \/ \E k \in Smoker : main = CreateAt[k] /\ main' = CreateAt[k + 1]
                          /\ pc' = [pc EXCEPT ![{k}] = "sleep"]
  /\ UNCHANGED <<build, sem, counter>>

Join ==
  /\ main = "join" /\ pc[{}] = "exited"
  /\ main' = KillAt[1]
  /\ UNCHANGED <<build, sem, pc, counter>>

(* SIGTERM ends the process, not the thread it is sent to.  A thread that  *)
(* has returned gets no signal.                                            *)
PthreadKill(k) ==
  /\ main = KillAt[k]
  /\ IF {k} \in Alive
     THEN /\ main' = "killed"
          /\ pc' = [p \in Processes |-> IF p \in Alive THEN "killed" ELSE pc[p]]
     ELSE main' = KillAt[k + 1] /\ UNCHANGED pc
  /\ UNCHANGED <<build, sem, counter>>

Main == Create \/ Join \/ \E k \in Smoker : PthreadKill(k)

-------------------------------------------------------------------------------
Step(p) == \/ p # {} /\ SmokerStep(p)
           \/ AgentStep(p)
           \/ \E k \in Smoker : Fork(p, k) \/ Kill(p, k)

Next == Main \/ \E p \in Processes : Step(p)

(* Everybody who can go on does so.  Rounds are counted, so nobody can be  *)
(* passed over for ever at the lock.                                       *)
Spec == Init /\ [][Next]_vars /\ WF_vars(Main)
             /\ \A p \in Processes : WF_vars(Step(p))

-------------------------------------------------------------------------------
(* As many deals are under way - on the table, in the hands of a smoker,   *)
(* or answered and the answer not yet seen - as there are agents who have  *)
(* dealt and wait.  Whose deal is whose is not kept: an agent that came    *)
(* out of a smoker may wake up by the answer to the first, and deal again  *)
(* with its own deal still on the table.  But none is lost or answered     *)
(* twice, until somebody is killed, who may take a deal or an agent away.  *)
(* (task6_semaphores.c:72-156, task6_pthreadlib.c:66-95, 107-152)          *)
Outstanding == sem["smoker_tobacco"] + sem["smoker_match"] + sem["smoker_paper"]
                 + At({"lockToPick", "tellAgent"}) + sem["agent"]

OneDealPerAgent ==
  (\A p \in Processes : pc[p] # "killed")
     => Outstanding = At({"unlockTable", "sleepAgent"})

(* How it ends.  A smoker becomes an agent only when the first agent has   *)
(* dealt its last round, all of them to this smoker.  When the first agent *)
(* has closed the business it has left no smoker of its own behind; those  *)
(* that live were forked by a smoker that had become an agent.  With       *)
(* threads the program never gets to its exit(EXIT_SUCCESS): one of the    *)
(* smokers is there to be killed, and all die with it.                     *)
(* (task6_semaphores.c:72, 90, 108, 161-163, task6_pthreadlib.c:49-54)     *)
LastRoundDealt ==
  \/ pc[{}] = "sleepAgent" /\ counter[{}] = Forever - 1
  \/ pc[{}] \in {KillAt[k] : k \in 1..4} \cup {"killed"}

HowItEnds ==
  /\ build = "semaphores" /\ OutOfLoop # {} => LastRoundDealt
  /\ build = "semaphores" /\ pc[{}] = "exited"
       => \A p \in Alive : Cardinality(p) > 1
  /\ main # "exited"

(* The business closes: every deal is picked up by the one smoker who can, *)
(* for as many rounds as the agent makes, and nobody blocks for good.  Not *)
(* so when a fork has failed, or when a smoker that became an agent takes  *)
(* the answer meant for the first.                                         *)
(* (task6_semaphores.c:128-164, task6_pthreadlib.c:66-98, 49-52)           *)
Closed == pc[{}] \in {"exited", "killed"} /\ main \in {"none", "killed"}

BusinessCloses ==
  <>(Closed \/ OutOfLoop # {} \/ \E p \in Processes : pc[p] = "failed")

===============================================================================
