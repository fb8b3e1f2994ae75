----------------------------- MODULE CpuScheduler -----------------------------
(***************************************************************************)
(* The CPU-scheduling simulator of Assignment3: the scheduler process      *)
(* (scheduler.cpp), the CPU emulator it drives (cpu_emulator.cpp) and the  *)
(* TCP connection between them.                                            *)
(*                                                                         *)
(* The scheduler keeps a simulated clock TIME, moves the processes of a    *)
(* batch from waitQueue to processQueue as they arrive, picks one by its   *)
(* policy and sends that process's control block (PCB) to the CPU, which   *)
(* runs it for one quantum and sends the block back.  FCFS, SJN, Priority  *)
(* and roundRobin are four copies of one loop; here they are one loop with *)
(* a mode.  A PCB is the index of its row in the process file; the fields  *)
(* the program changes are functions of that index.                        *)
(***************************************************************************)
EXTENDS Integers, Sequences, SequencesExt

CONSTANTS Batches,   \* the process files: sequences of rows, in file order
          Modes,     \* the command lines: [policy, schedule, quantum]
          Stop       \* the PCB named "stop"

Row  == [arrival_time : Nat, priority : Nat, est_runtime : Nat]
Mode == [policy : {"FCFS", "SJN", "Priority", "RR"},
         schedule : {"none", "FCFS", "SRTN", "Priority"},
         quantum : Nat \ {0}]
PCB  == [process : Nat \ {0}, est_remaining_runtime : Nat,
         context_switches : Nat]

(* A row's est_remaining_runtime column repeats its est_runtime column, as *)
(* in processes_3.txt.  The numbers of a row are not negative.             *)
ASSUME BatchesAssumption == \A b \in Batches : b \in Seq(Row)

(* RR is given one of the three schedules roundRobin knows.                *)
ASSUME ModesAssumption ==
  \A m \in Modes : m \in Mode /\ (m.policy = "RR" => m.schedule # "none")

ASSUME StopAssumption == Stop \notin PCB

VARIABLES
  batch, mode,           \* process and the arguments of main
  pc,                    \* "schedule": top of the loop; "await": blocked in
                         \* dispatchToCPU's read; "stopped": main has returned
  TIME,
  waitQueue,             \* rows not admitted yet
  processQueue,          \* rows ready to run
  temp,                  \* the row taken from processQueue, or None
  est_remaining_runtime, context_switches, turnaround_time, wait_time,
  completedProcesses,
  cpu,                   \* "running" or "halted"
  toCPU, toScheduler     \* the two directions of the connection

input == <<batch, mode>>
pcbs  == <<est_remaining_runtime, context_switches, turnaround_time, wait_time>>
wire  == <<toCPU, toScheduler>>
vars  == <<input, pc, TIME, waitQueue, processQueue, temp, pcbs,
           completedProcesses, cpu, wire>>

Processes == DOMAIN batch
None      == 0

-------------------------------------------------------------------------------
(* The pieces the four scheduling loops share.  LastBest, HasArrivedEarly, *)
(* AdmittedInFront, StillWaitingPopTwice, SendFreshCounter, TimePassed-    *)
(* WholeQuanta, TimePassedQuantum, LoopDoneEarly and the two AfterBurst-   *)
(* variants are slips of the code the properties must catch; no action     *)
(* uses them.                                                              *)

(* The rule the front of a selection goes by: getShortestJob,              *)
(* getShortestRemainingTimeNext and getLowestPriorityJob scan for the      *)
(* smallest key; FCFS takes the front, that is, all keys are equal.        *)
Discipline == IF mode.policy = "RR" THEN mode.schedule ELSE mode.policy

Key(p) == CASE Discipline = "SJN"      -> batch[p].est_runtime
            [] Discipline = "SRTN"     -> est_remaining_runtime[p]
            [] Discipline = "Priority" -> batch[p].priority
            [] OTHER                   -> 0

(* Each scan keeps the first of the smallest.                              *)
LastBest(q, i) == \A j \in DOMAIN q : /\ Key(q[i]) <= Key(q[j])
                                      /\ j > i => Key(q[i]) < Key(q[j])

Best(q, i) == \A j \in DOMAIN q : /\ Key(q[i]) <= Key(q[j])
                                  /\ j < i => Key(q[i]) < Key(q[j])

(* updateProcessQueue at time t moves exactly the first k rows: it stops   *)
(* at the first row of waitQueue that has not arrived.                     *)
HasArrivedEarly(p, t) == batch[p].arrival_time <= t + 1

HasArrived(p, t) == batch[p].arrival_time <= t

Arrived(k, t) ==
  /\ k \in 0..Len(waitQueue)
  /\ \A j \in 1..k : HasArrived(waitQueue[j], t)
  /\ k < Len(waitQueue) => ~HasArrived(waitQueue[k + 1], t)

AdmittedInFront(k)     == SubSeq(waitQueue, 1, k) \o processQueue
StillWaitingPopTwice(k) == SubSeq(waitQueue, k + 2, Len(waitQueue))

Admitted(k)     == processQueue \o SubSeq(waitQueue, 1, k)
StillWaiting(k) == SubSeq(waitQueue, k + 1, Len(waitQueue))

(* dispatchToCPU sends the whole block of p.                               *)
SendFreshCounter(p, rem, switches) ==
  toCPU' = Append(toCPU, [process |-> p, est_remaining_runtime |-> rem,
                          context_switches |-> 0])

Send(p, rem, switches) ==
  toCPU' = Append(toCPU, [process |-> p, est_remaining_runtime |-> rem,
                          context_switches |-> switches])

(* What a visit to the CPU adds to TIME: roundRobin counts the quantum or, *)
(* if less is left, what was left; the other loops add one.                *)
TimePassedWholeQuanta(p) ==
  IF mode.policy = "RR" /\ est_remaining_runtime[p] < mode.quantum
  THEN 0 ELSE mode.quantum
TimePassedQuantum(p) == IF mode.policy = "RR" THEN mode.quantum ELSE 1

TimePassed(p) ==
  IF mode.policy # "RR" THEN 1
  ELSE IF est_remaining_runtime[p] < mode.quantum
       THEN est_remaining_runtime[p] ELSE mode.quantum

(* The process leaves at time t, with one more tick on the clock.          *)
ProcessCompleted(p, t) ==
  /\ turnaround_time' = [turnaround_time EXCEPT ![p] =
                           t - batch[p].arrival_time]
  /\ wait_time' = [wait_time EXCEPT ![p] =
                     t - batch[p].arrival_time - batch[p].est_runtime]
  /\ completedProcesses' = Append(completedProcesses, p)
  /\ temp' = None
  /\ TIME' = t + 1
  /\ pc' = "schedule"

Returned == Head(toScheduler)

(* temp = dispatchToCPU(temp): the read returns the block the CPU sent.    *)
Receive ==
  /\ pc = "await" /\ toScheduler # <<>>
  /\ toScheduler' = Tail(toScheduler)
  /\ est_remaining_runtime' = [est_remaining_runtime EXCEPT
       ![Returned.process] = Returned.est_remaining_runtime]
  /\ context_switches' = [context_switches EXCEPT
       ![Returned.process] = Returned.context_switches]

-------------------------------------------------------------------------------
Init ==
  /\ batch \in Batches /\ mode \in Modes
  /\ pc = "schedule" /\ TIME = 0
  /\ waitQueue = [p \in Processes |-> p] /\ processQueue = <<>>
  /\ temp = None
  /\ est_remaining_runtime = [p \in Processes |-> batch[p].est_runtime]
  /\ context_switches = [p \in Processes |-> 0]
  /\ turnaround_time = [p \in Processes |-> 0]
  /\ wait_time = [p \in Processes |-> 0]
  /\ completedProcesses = <<>>
  /\ cpu = "running" /\ toCPU = <<>> /\ toScheduler = <<>>

LoopDoneEarly == Len(completedProcesses) + 1 >= Len(batch)

LoopDone  == Len(completedProcesses) >= Len(batch)
AtLoopTop == pc = "schedule" /\ ~LoopDone

(* Nobody is ready and nobody has arrived: one tick passes.                *)
Idle ==
  /\ AtLoopTop /\ processQueue = <<>> /\ Arrived(0, TIME)
  /\ TIME' = TIME + 1
  /\ UNCHANGED <<input, pc, waitQueue, processQueue, temp, pcbs,
                 completedProcesses, cpu, wire>>

(* Admit the k rows that have arrived and take the i-th ready process; the *)
(* switch costs two ticks.                                                 *)
Select(k, i) ==
  /\ AtLoopTop
  /\ Arrived(k, TIME) /\ i \in DOMAIN Admitted(k) /\ Best(Admitted(k), i)
  /\ waitQueue' = StillWaiting(k)
  /\ processQueue' = RemoveAt(Admitted(k), i)

(* The selected process goes to the CPU; roundRobin sends it even when it  *)
(* has nothing left to run, the other loops do not.                        *)
Dispatch ==
  \E k \in 0..Len(waitQueue), i \in 1..Len(batch) :
    /\ Select(k, i)
    /\ LET p == Admitted(k)[i] IN
       /\ mode.policy = "RR" \/ est_remaining_runtime[p] > 0
       /\ temp' = p /\ pc' = "await" /\ TIME' = TIME + 2
       /\ Send(p, est_remaining_runtime[p], context_switches[p])
    /\ UNCHANGED <<input, pcbs, completedProcesses, cpu, toScheduler>>

CompleteWithoutRunning ==
  \E k \in 0..Len(waitQueue), i \in 1..Len(batch) :
    /\ Select(k, i)
    /\ LET p == Admitted(k)[i] IN
       /\ mode.policy # "RR" /\ est_remaining_runtime[p] = 0
       /\ ProcessCompleted(p, TIME + 2)
    /\ UNCHANGED <<input, est_remaining_runtime, context_switches, cpu, wire>>

(* FCFS, SJN, Priority: the process is not done and goes back to the CPU.  *)
DispatchAgain ==
  /\ mode.policy # "RR"
  /\ Receive /\ Returned.est_remaining_runtime > 0
  /\ temp' = Returned.process
  /\ TIME' = TIME + 1
  /\ \E k \in 0..Len(waitQueue) :
       /\ Arrived(k, TIME')
       /\ processQueue' = Admitted(k) /\ waitQueue' = StillWaiting(k)
  /\ Send(Returned.process, Returned.est_remaining_runtime,
          Returned.context_switches)
  /\ UNCHANGED <<input, pc, turnaround_time, wait_time, completedProcesses,
                 cpu>>

(* roundRobin: the process is not done and joins the queue, behind those   *)
(* that arrived during its quantum.                                        *)
PushBack ==
  /\ mode.policy = "RR"
  /\ Receive /\ Returned.est_remaining_runtime > 0
  /\ TIME' = TIME + TimePassed(temp)
  /\ \E k \in 0..Len(waitQueue) :
       /\ Arrived(k, TIME')
       /\ processQueue' = Append(Admitted(k), Returned.process)
       /\ waitQueue' = StillWaiting(k)
  /\ temp' = None /\ pc' = "schedule"
  /\ UNCHANGED <<input, turnaround_time, wait_time, completedProcesses, cpu,
                 toCPU>>

(* The process is done.  No tick, no call of updateProcessQueue.           *)
Complete ==
  /\ Receive /\ Returned.est_remaining_runtime = 0
  /\ LET t == TIME + TimePassed(temp) IN
     /\ \E k \in 0..Len(waitQueue) :
          /\ IF t = TIME THEN k = 0 ELSE Arrived(k, t)
          /\ processQueue' = Admitted(k) /\ waitQueue' = StillWaiting(k)
     /\ ProcessCompleted(Returned.process, t)
  /\ UNCHANGED <<input, cpu, toCPU>>

(* The loop is over: stopCPU, and main returns.                            *)
Finish ==
  /\ pc = "schedule" /\ LoopDone
  /\ pc' = "stopped"
  /\ toCPU' = Append(toCPU, Stop)
  /\ UNCHANGED <<input, TIME, waitQueue, processQueue, temp, pcbs,
                 completedProcesses, cpu, toScheduler>>

Scheduler == \/ Idle \/ Dispatch \/ CompleteWithoutRunning \/ DispatchAgain
             \/ PushBack \/ Complete \/ Finish

-------------------------------------------------------------------------------
(* The CPU emulator: one burst of at most a quantum per block it reads.    *)
AfterBurstUnclamped(rem) == rem - mode.quantum
AfterBurstOfOne(rem)     == IF rem = 0 THEN 0 ELSE rem - 1

AfterBurst(rem) == IF rem < mode.quantum THEN 0 ELSE rem - mode.quantum

ExecuteBurst ==
  /\ cpu = "running" /\ toCPU # <<>> /\ Head(toCPU) # Stop
  /\ toCPU' = Tail(toCPU)
  /\ LET block == Head(toCPU) IN
     toScheduler' = Append(toScheduler,
       [process |-> block.process,
        est_remaining_runtime |-> AfterBurst(block.est_remaining_runtime),
        context_switches |-> block.context_switches + 1])
  /\ UNCHANGED <<input, pc, TIME, waitQueue, processQueue, temp, pcbs,
                 completedProcesses, cpu>>

Halt ==
  /\ cpu = "running" /\ toCPU # <<>> /\ Head(toCPU) = Stop
  /\ cpu' = "halted" /\ toCPU' = Tail(toCPU)
  /\ UNCHANGED <<input, pc, TIME, waitQueue, processQueue, temp, pcbs,
                 completedProcesses, toScheduler>>

CPU == ExecuteBurst \/ Halt

(* Both processes have exited.                                             *)
Terminated == pc = "stopped" /\ cpu = "halted" /\ UNCHANGED vars

Next == Scheduler \/ CPU \/ Terminated

Fairness == WF_vars(Scheduler) /\ WF_vars(CPU)

Spec == Init /\ [][Next]_vars /\ Fairness

-------------------------------------------------------------------------------
(* statistics: the sums behind the averages, and the totals it prints.     *)
Sum(f) == FoldFunction(+, 0, f)

Statistics ==
  [turnaround |-> Sum(turnaround_time), wait |-> Sum(wait_time),
   longest    |-> FoldFunction(LAMBDA w, m : IF w > m THEN w ELSE m, -1,
                               wait_time),
   switches   |-> Sum(context_switches),
   total      |-> Sum([p \in Processes |-> batch[p].est_runtime])
                    + 2 * Sum(context_switches)]

-------------------------------------------------------------------------------
(* Properties.                                                             *)

TypeOK ==
  /\ batch \in Batches /\ mode \in Modes
  /\ pc \in {"schedule", "await", "stopped"} /\ TIME \in Nat
  /\ waitQueue \in Seq(Processes) /\ processQueue \in Seq(Processes)
  /\ completedProcesses \in Seq(Processes)
  /\ temp \in Processes \cup {None}
  /\ est_remaining_runtime \in [Processes -> Nat]
  /\ context_switches \in [Processes -> Nat]
  /\ turnaround_time \in [Processes -> Int] /\ wait_time \in [Processes -> Int]
  /\ cpu \in {"running", "halted"}
  /\ toCPU \in Seq(PCB \cup {Stop}) /\ toScheduler \in Seq(PCB)

(* Through all the popping, rebuilding and copying of queues, every row of *)
(* the file is in exactly one place, once: not admitted, ready, on the CPU *)
(* or completed.  (scheduler.cpp:77-185, 234-257, 367-417)                 *)
OneHomePerProcess ==
  LET onCPU == {temp} \ {None} IN
  /\ IsInjective(waitQueue) /\ IsInjective(processQueue)
  /\ IsInjective(completedProcesses)
  /\ Range(waitQueue) \cap Range(processQueue) = {}
  /\ Range(completedProcesses) \cap Range(waitQueue) = {}
  /\ Range(completedProcesses) \cap Range(processQueue) = {}
  /\ onCPU \cap (Range(waitQueue) \cup Range(processQueue)
                   \cup Range(completedProcesses)) = {}
  /\ Processes = Range(waitQueue) \cup Range(processQueue) \cup onCPU
                   \cup Range(completedProcesses)

(* The two programs take turns: one block at most is on the wire, while    *)
(* the scheduler waits it is the block of the process it dispatched, with  *)
(* the values the scheduler last saw or those after one more burst, and    *)
(* the stop block is sent once, when nothing else is under way.            *)
(* (dispatchToCPU 432-439, cpu_emulator.cpp:46-61)                         *)
Lockstep ==
  /\ pc = "await" =>
       /\ temp # None /\ cpu = "running"
       /\ \/ /\ toScheduler = <<>>
             /\ toCPU = <<[process |-> temp,
                  est_remaining_runtime |-> est_remaining_runtime[temp],
                  context_switches |-> context_switches[temp]]>>
          \/ /\ toCPU = <<>>
             /\ toScheduler = <<[process |-> temp,
                  est_remaining_runtime |->
                    AfterBurst(est_remaining_runtime[temp]),
                  context_switches |-> context_switches[temp] + 1]>>
  /\ pc # "await" => temp = None /\ toScheduler = <<>>
  /\ pc = "schedule" => toCPU = <<>> /\ cpu = "running"
  /\ pc = "stopped" => \/ toCPU = <<Stop>> /\ cpu = "running"
                       \/ toCPU = <<>> /\ cpu = "halted"

(* The count in the loop condition is right: the scheduler stops the CPU   *)
(* when every process has completed and not one earlier.  (236, 256)       *)
StopsWhenAllComplete ==
  pc = "stopped" => Range(completedProcesses) = Processes

(* A process's context_switches is the number of quanta it was given: it   *)
(* has done that much work and was never dispatched with nothing left to   *)
(* do, except that roundRobin dispatches an empty process once.            *)
SwitchesMatchWork ==
  \A p \in Processes :
    LET work == batch[p].est_runtime
        given == mode.quantum * context_switches[p]
    IN /\ est_remaining_runtime[p] = IF given < work THEN work - given ELSE 0
       /\ context_switches[p] > 0 =>
            \/ given - mode.quantum < work
            \/ mode.policy = "RR" /\ work = 0 /\ context_switches[p] = 1

(* The clock advances by the work done: true of every command line of      *)
(* README.txt, as init passes quantum 1 when it is given no other.         *)
ClockCountsWork == mode.policy = "RR" \/ mode.quantum = 1

(* How often a process was taken from processQueue: up to its completion,  *)
(* and so far, where the visit it is on is not in its context_switches yet.*)
Selections(p) == IF mode.policy = "RR" THEN context_switches[p] ELSE 1
Taken(p) == (IF mode.policy = "RR" THEN context_switches[p] ELSE 0)
              + (IF p = temp THEN 1 ELSE 0)

(* A process that is not admitted was never touched; one that is has been  *)
(* in the system for at least the work it has done and two ticks for each  *)
(* time it was taken: TIME is charged before it is compared with anything. *)
(* (scheduler.cpp:77-90, 242-247, 374-406)                                 *)
TimeInSystem ==
  ClockCountsWork =>
    /\ \A p \in Range(waitQueue) :
         /\ est_remaining_runtime[p] = batch[p].est_runtime
         /\ context_switches[p] = 0
    /\ \A p \in Range(processQueue) \cup ({temp} \ {None}) :
         TIME - batch[p].arrival_time >=
           batch[p].est_runtime - est_remaining_runtime[p] + 2 * Taken(p)

(* A completed process has waited at least for its own context switches:   *)
(* no burst is charged twice or left out of the clock.  (251-253, 399-415) *)
WaitCoversSwitches ==
  ClockCountsWork =>
    \A p \in Range(completedProcesses) : wait_time[p] >= 2 * Selections(p)

(* Both together: the times of a process, whether it is done or not, cover *)
(* its work and its switches.                                              *)
TimesCoverWork == TimeInSystem /\ WaitCoversSwitches

(* The clock is the work done by all processes, two ticks for every        *)
(* selection, one for every completion, and idle ticks, which stop when    *)
(* the last process has arrived.  (TIME in 220-421)                        *)
ClockBounds ==
  LET onCPU    == IF temp = None THEN 0 ELSE 1
      done     == Len(completedProcesses)
      selected == onCPU + IF mode.policy = "RR" THEN Sum(context_switches)
                                                ELSE done
      work     == Sum([p \in Processes |-> batch[p].est_runtime
                                             - est_remaining_runtime[p]])
      busy     == work + 2 * selected + done
      idle     == TIME - busy
  IN ClockCountsWork =>
       /\ idle >= 0
       /\ idle > 0 => \E p \in Processes : idle <= batch[p].arrival_time

(* Work, switches and clock agree: no burst is lost, doubled or given to   *)
(* nobody, and no tick is charged twice or left out.  (scheduler.cpp:      *)
(* 220-421, cpu_emulator.cpp:52-57)                                        *)
ClockAndSwitches == SwitchesMatchWork /\ ClockBounds

(* The file lists the processes in the order they arrive.                  *)
Sorted == \A p, q \in Processes :
            p < q => batch[p].arrival_time <= batch[q].arrival_time

(* Of ALL unfinished processes that have arrived, not only those already   *)
(* admitted, the one taken has the least key and, among equals, has been   *)
(* in line longest.  (92-185, 243-244, 287, 332, 377-387)                  *)
PolicyRespected ==
  [][LET line == processQueue \o waitQueue
         Picked(p) == /\ temp = None
                      /\ \/ temp' = p
                         \/ completedProcesses' = Append(completedProcesses, p)
     IN Sorted => \A i, j \in DOMAIN line :
          Picked(line[i]) /\ batch[line[j]].arrival_time <= TIME =>
            \/ Key(line[i]) < Key(line[j])
            \/ Key(line[i]) = Key(line[j]) /\ i <= j]_vars

(* Nobody is overtaken: those in processQueue and those that join it from  *)
(* waitQueue keep the order they had in line, and a process that used up   *)
(* its quantum goes last, behind those that arrived meanwhile.  (77-90,    *)
(* 396-406, and the rebuilding loops of the three scans)                   *)
QueueKeepsOrder ==
  [][LET line == processQueue \o waitQueue
     IN \A i, j \in DOMAIN processQueue' : i < j =>
          \/ \E a, b \in DOMAIN line : /\ a < b
                                       /\ line[a] = processQueue'[i]
                                       /\ line[b] = processQueue'[j]
          \/ processQueue'[j] = temp /\ j = Len(processQueue')]_vars

(* Every process of the file completes, and then both programs exit.       *)
AllComplete ==
  <>[](/\ Range(completedProcesses) = Processes
       /\ pc = "stopped" /\ cpu = "halted")

(* The simulator keeps the promise of a batch scheduler.                   *)
Phase(p) == IF p \in Range(waitQueue) THEN "new"
            ELSE IF p \in Range(processQueue) THEN "ready"
            ELSE IF p = temp THEN "running" ELSE "done"

Batch == INSTANCE BatchScheduling
           WITH now <- TIME, left <- est_remaining_runtime,
                phase <- [p \in Processes |-> Phase(p)]

BatchSpec == Batch!Spec

===============================================================================
