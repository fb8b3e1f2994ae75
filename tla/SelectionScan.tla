----------------------------- MODULE SelectionScan -----------------------------
(***************************************************************************)
(* How Assignment3's scheduler picks a process: getShortestJob, getShort-  *)
(* estRemainingTimeNext and getLowestPriorityJob (scheduler.cpp:92-185)    *)
(* are one loop over three keys.  A first pass pops the whole queue into a *)
(* vector, remembering the index of the smallest key; a second pass pushes *)
(* everything but that index back.  "No key yet" is coded as -1, in the    *)
(* same variable as the keys.  CpuScheduler takes the selection in one     *)
(* step (Best, RemoveAt); this module shows when that is right.            *)
(*                                                                         *)
(* A PCB is its position in the queue the function was called with.        *)
(* Indices count from 1.                                                   *)
(***************************************************************************)
EXTENDS Integers, Sequences, SequencesExt

CONSTANT Queues     \* the keys of the queued processes, front first: some

VARIABLES
  key,                       \* the argument: the key of each queued process
  pc,                        \* "scan", "rebuild" or "returned"
  processQueue, checked,
  temp,                      \* 0 until it is assigned
  shortest_run_time, shortest_index,
  i

vars == <<key, pc, processQueue, checked, temp, shortest_run_time,
          shortest_index, i>>

None == -1

(* The slips this module is checked against: loops that count from one     *)
(* place too early, a loop bound that is read again from the queue being   *)
(* emptied, a later equal key that wins, and a scan that does not start    *)
(* over at a key that looks like "no key yet".                             *)
FirstIndexEarly == 0
NReread         == Len(processQueue)
SmallerOrEqual(k) == shortest_run_time = None \/ k <= shortest_run_time
SmallerOnly(k)    == i = 1 \/ k < shortest_run_time

FirstIndex == 1
N          == Len(key)
Smaller(k) == shortest_run_time = None \/ k < shortest_run_time

Positions == [p \in DOMAIN key |-> p]

Init ==
  /\ key \in Queues
  /\ pc = "scan" /\ i = FirstIndex
  /\ processQueue = Positions /\ checked = <<>>
  /\ temp = 0
  /\ shortest_run_time = None /\ shortest_index = 1

Scan ==
  /\ pc = "scan" /\ i <= N
  /\ temp' = Head(processQueue) /\ processQueue' = Tail(processQueue)
  /\ IF Smaller(key[temp'])
     THEN shortest_run_time' = key[temp'] /\ shortest_index' = i
     ELSE UNCHANGED <<shortest_run_time, shortest_index>>
  /\ checked' = Append(checked, temp')
  /\ i' = i + 1
  /\ UNCHANGED <<key, pc>>

StartRebuild ==
  /\ pc = "scan" /\ i > N
  /\ pc' = "rebuild" /\ i' = FirstIndex
  /\ UNCHANGED <<key, processQueue, checked, temp, shortest_run_time,
                 shortest_index>>

Rebuild ==
  /\ pc = "rebuild" /\ i <= Len(checked)
  /\ IF i = shortest_index
     THEN temp' = checked[i] /\ UNCHANGED processQueue
     ELSE processQueue' = Append(processQueue, checked[i]) /\ UNCHANGED temp
  /\ i' = i + 1
  /\ UNCHANGED <<key, pc, checked, shortest_run_time, shortest_index>>

Return ==
  /\ pc = "rebuild" /\ i > Len(checked)
  /\ pc' = "returned"
  /\ UNCHANGED <<key, processQueue, checked, temp, shortest_run_time,
                 shortest_index, i>>

Next == Scan \/ StartRebuild \/ Rebuild \/ Return

Spec == Init /\ [][Next]_vars

-------------------------------------------------------------------------------
(* p is the first of the smallest keys of positions a to b.                *)
FirstLeast(p, a, b) ==
  /\ p \in a..b
  /\ \A j \in a..b : key[p] <= key[j] /\ (j < p => key[p] < key[j])

TypeOK ==
  /\ key \in Queues /\ pc \in {"scan", "rebuild", "returned"}
  /\ processQueue \in Seq(DOMAIN key) /\ checked \in Seq(DOMAIN key)
  /\ temp \in DOMAIN key \cup {0}
  /\ shortest_run_time \in Int /\ shortest_index \in DOMAIN key
  /\ i \in 1..(Len(key) + 1)

Ambiguous == \E p \in DOMAIN key : key[p] = None
Below     == \E p \in DOMAIN key : key[p] < None

(* What CpuScheduler's Best says: the returned process is the first of the *)
(* smallest, provided no process has the key -1 or one has a key below it. *)
(* (96-110, 128-142, 160-173)                                              *)
SelectsFirstLeast ==
  pc = "returned" /\ (Ambiguous => Below) => FirstLeast(temp, 1, Len(key))

(* With -1 as the smallest key (a priority column may hold it) the scan    *)
(* forgets what it had and starts over behind it: of all processes with    *)
(* the key -1 only one at the very end of the queue is ever selected.      *)
(* (104, 136, 167)                                                         *)
StartsOverAfterNone ==
  pc = "returned" /\ ~Below =>
    \A m \in DOMAIN key :
      key[m] = None /\ (\A j \in (m + 1)..Len(key) : key[j] # None) =>
        IF m = Len(key) THEN temp = m ELSE FirstLeast(temp, m + 1, Len(key))

(* What CpuScheduler's RemoveAt says: the other processes stay in the      *)
(* queue, each once and in their order, whatever the keys.  (112-119)      *)
LeavesOthersInOrder ==
  pc = "returned" =>
    temp # 0 /\ processQueue = RemoveAt(Positions, temp)

===============================================================================
