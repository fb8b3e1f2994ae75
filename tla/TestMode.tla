-------------------------------- MODULE TestMode -------------------------------
(***************************************************************************)
(* The scheduler of Assignment1 in the mode its main is compiled with:     *)
(* roundRobin runs all processes of the file, then PriorityFirst runs them *)
(* again from a fresh copy, then the CPU is stopped.                       *)
(*                                                                         *)
(* A burst (dispatchToCPU, the CPU's turn, the answer) is one step here:   *)
(* the two programs exchange blocks as those of Assignment3 do, which      *)
(* CpuScheduler models message by message.  A process is its row in the    *)
(* file.  The priority_queue holds pairs <<-priority, -row>>; no two are   *)
(* equal, so it is the set of its rows.  Init, Next and the like have      *)
(* names of their own here, as ExercisesMC has this program beside others. *)
(***************************************************************************)
EXTENDS Integers, Sequences, SequencesExt

CONSTANTS ProcessFiles,     \* what processes.txt may hold
          cyclesPerBurst    \* 200 in the code

Row == [priority : Int, est_remaining_runtime : Int]

(* The loop that reads adds a row before it has looked for the end: an     *)
(* empty file has one row, of zeros.                                       *)
ASSUME FilesAssumption == \A f \in ProcessFiles : f \in Seq(Row) /\ f # <<>>
ASSUME CyclesAssumption == cyclesPerBurst \in Nat \ {0}

VARIABLES
  iFile,                   \* "unread", "eof", or "failed" for good
  processes,               \* what there is in the file
  policy,                  \* "roundRobin", "priority" or "stopped"
  est_remaining_runtime,   \* in the copy the running policy works on
  processQueue,            \* roundRobin's queue
  ready, holdout,          \* PriorityFirst's processQueue and holdout
  currPriority,
  completed                \* the processes displayed as completed, in order

testVars == <<iFile, processes, policy, est_remaining_runtime, processQueue,
              ready, holdout, currPriority, completed>>

Processes   == DOMAIN processes
priority(p) == processes[p].priority
Work(p)     == processes[p].est_remaining_runtime

(* The slips this module is checked against: completion at exactly 0, a    *)
(* CPU that runs whole bursts only, a process that stays in front, no      *)
(* return to the processes held out, ties that go to the later row.        *)
DoneAtZero(rem)           == rem = 0
AfterBurstWholeOnly(rem)  == IF rem < cyclesPerBurst THEN rem
                                                     ELSE rem - cyclesPerBurst
KeepFront(q, p)           == <<p>> \o q
NeverBringBack(q, h)      == FALSE
BeforeLater(p, q) == \/ priority(p) < priority(q)
                     \/ priority(p) = priority(q) /\ p > q

(* The test on the block that came back from the CPU.                      *)
Done(rem) == rem <= 0

AfterBurst(rem) == rem - cyclesPerBurst

PushBack(q, p) == Append(q, p)

(* The order of the priority_queue.                                        *)
Before(p, q) == \/ priority(p) < priority(q)
                \/ priority(p) = priority(q) /\ p < q

IsTop(p, q) == p \in q /\ \A r \in q \ {p} : Before(p, r)

-------------------------------------------------------------------------------
TestInit ==
  /\ iFile = "unread"
  /\ processes \in ProcessFiles
  /\ policy = "roundRobin"
  /\ est_remaining_runtime = [p \in Processes |-> Work(p)]
  /\ processQueue = [p \in Processes |-> p]
  /\ ready = {} /\ holdout = {} /\ currPriority = 0
  /\ completed = <<>>

(* The loop that reads ends at the end of the file only.  Once the stream  *)
(* has failed, as the file cannot be opened or what stands for a number is *)
(* none, nothing more is read, the end is never found, and rows of zeros   *)
(* are added for ever: no policy is run.                                   *)
ReadProcesses ==
  /\ iFile = "unread"
  /\ iFile' \in {"eof", "failed"}
  /\ UNCHANGED <<processes, policy, est_remaining_runtime, processQueue, ready,
                 holdout, currPriority, completed>>

Burst(p) ==
  /\ est_remaining_runtime' =
       [est_remaining_runtime EXCEPT ![p] = AfterBurst(@)]
  /\ completed' = IF Done(est_remaining_runtime'[p]) THEN Append(completed, p)
                                                     ELSE completed

RoundRobin ==
  /\ iFile = "eof" /\ policy = "roundRobin" /\ processQueue # <<>>
  /\ LET p == Head(processQueue) IN
     /\ Burst(p)
     /\ processQueue' = IF Done(est_remaining_runtime'[p])
                        THEN Tail(processQueue)
                        ELSE PushBack(Tail(processQueue), p)
  /\ UNCHANGED <<iFile, processes, policy, ready, holdout, currPriority>>

(* PriorityFirst gets its own copy of the blocks.                          *)
StartPriority ==
  /\ iFile = "eof" /\ policy = "roundRobin" /\ processQueue = <<>>
  /\ policy' = "priority"
  /\ est_remaining_runtime' = [p \in Processes |-> Work(p)]
  /\ ready' = Processes /\ holdout' = {} /\ currPriority' = 0
  /\ completed' = <<>>
  /\ UNCHANGED <<iFile, processes, processQueue>>

(* The next in ready is of a worse priority, and somebody of the current   *)
(* one is still held out.                                                  *)
BringBack(q, h) == h # {} /\ \E top \in q : IsTop(top, q)
                                             /\ currPriority < priority(top)

Refilled == IF ready = {} THEN holdout ELSE ready
HeldOut  == IF ready = {} THEN {} ELSE holdout

PriorityFirst ==
  /\ iFile = "eof" /\ policy = "priority" /\ ready \cup holdout # {}
  /\ LET back == BringBack(Refilled, HeldOut)
         q    == IF back THEN Refilled \cup HeldOut ELSE Refilled
         kept == IF back THEN {} ELSE HeldOut
     IN \E p \in q :
          /\ IsTop(p, q)
          /\ currPriority' = IF back THEN currPriority ELSE priority(p)
          /\ Burst(p)
          /\ ready' = q \ {p}
          /\ holdout' = IF Done(est_remaining_runtime'[p]) THEN kept
                                                           ELSE kept \cup {p}
  /\ UNCHANGED <<iFile, processes, policy, processQueue>>

(* stopCPU, and main returns.                                              *)
Stop ==
  /\ iFile = "eof" /\ policy = "priority" /\ ready \cup holdout = {}
  /\ policy' = "stopped"
  /\ UNCHANGED <<iFile, processes, est_remaining_runtime, processQueue, ready,
                 holdout, currPriority, completed>>

TestNext == ReadProcesses \/ RoundRobin \/ StartPriority \/ PriorityFirst \/ Stop

TestSpec == TestInit /\ [][TestNext]_testVars /\ WF_testVars(TestNext)

-------------------------------------------------------------------------------
Unfinished == IF policy = "roundRobin" THEN Range(processQueue)
                                   ELSE ready \cup holdout

(* The processor time a process got under the running policy.              *)
Given(p) == Work(p) - est_remaining_runtime[p]

(* Those a process shares the processor with, turn by turn.                *)
Peers(p) == {q \in Processes : policy = "roundRobin" \/ priority(q) = priority(p)}

(* Remaining run times go below zero, by less than a burst: nobody gets a  *)
(* burst after it is done.                                                 *)
TestTypeOK ==
  /\ iFile \in {"unread", "eof", "failed"} /\ processes \in ProcessFiles
  /\ policy \in {"roundRobin", "priority", "stopped"}
  /\ est_remaining_runtime \in [Processes -> Int]
  /\ \A p \in Processes :
       \/ est_remaining_runtime[p] = Work(p)
       \/ Work(p) <= 0 /\ est_remaining_runtime[p] = Work(p) - cyclesPerBurst
       \/ est_remaining_runtime[p] \in (1 - cyclesPerBurst)..Work(p)
  /\ processQueue \in Seq(Processes)
  /\ ready \in SUBSET Processes /\ holdout \in SUBSET (Processes \ ready)
  /\ currPriority \in Int
  /\ completed \in Seq(Processes)

(* PriorityFirst gives no burst to a process while one of a lower priority *)
(* number is unfinished, wherever it is kept.  (104-137)                   *)
StrictPriority ==
  [][policy = "priority" =>
       \A p \in Processes :
         est_remaining_runtime'[p] # est_remaining_runtime[p] =>
           \A q \in ready \cup holdout : priority(p) <= priority(q)]_testVars

(* Processes of a class take turns: an unfinished one is never more than   *)
(* one burst behind another, and not behind one that is later in the file. *)
(* (82-92, 113-136)                                                        *)
EvenTurns ==
  \A p \in Unfinished : \A q \in Peers(p) :
    /\ Given(q) <= Given(p) + cyclesPerBurst
    /\ p < q => Given(q) <= Given(p)

(* The order the processes must complete in, from the file alone: by class,*)
(* then by the number of bursts the work takes, then by row.               *)
Bursts(p) == IF Work(p) <= cyclesPerBurst THEN 1
             ELSE (Work(p) + cyclesPerBurst - 1) \div cyclesPerBurst

CompletesBefore(p, q) ==
  \/ policy # "roundRobin" /\ priority(p) < priority(q)
  \/ /\ q \in Peers(p)
     /\ \/ Bursts(p) < Bursts(q)
        \/ Bursts(p) = Bursts(q) /\ p < q

(* Whatever is still to come completes after what has completed, and what  *)
(* has completed did so in that order, each process once.  (82-92, 104-137)*)
CompletionOrder ==
  /\ \A i, j \in DOMAIN completed :
       i < j => CompletesBefore(completed[i], completed[j])
  /\ \A i \in DOMAIN completed, p \in Unfinished :
       CompletesBefore(completed[i], p)
  /\ Range(completed) \cup Unfinished = Processes

(* Once the file is read, both policies finish every process and the CPU   *)
(* is stopped.  (A file that is not read to its end leaves the program in  *)
(* read_processes_from_text_file for ever.)  (165-200, 74-148)             *)
RunsToTheEnd ==
  iFile = "eof" ~> policy = "stopped" /\ Range(completed) = Processes

===============================================================================
