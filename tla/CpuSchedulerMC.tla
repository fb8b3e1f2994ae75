---------------------------- MODULE CpuSchedulerMC ----------------------------
(***************************************************************************)
(* The simulator of Assignment3 on small process files and command lines   *)
(* and on those that were recorded, the selection loop by itself, and the  *)
(* start-up of two runs.  One of the three goes on, the others are idle:   *)
(* an idle simulator is one that has done an empty file.                   *)
(***************************************************************************)
EXTENDS RecordedRuns, SelectionLoop, StartUp

CONSTANT MaxLength      \* of the queues of SelectionLoop

VARIABLE chosen

simulator == vars
selection == <<keys, scan_pc, scan_queue, checked, scan_temp, shortest_run_time,
               shortest_index, scan_i>>
launch    == <<init, cpu_emulator, scheduler, backlog, peer>>

MCRows ==
  [arrival_time : {0, 4}, priority : {1, 2}, est_runtime : {0, 1, 3}]

(* Every file of up to two rows, in any order of arrival, and those of     *)
(* three rows whose first is there from the start.                         *)
MCBatches == {<<>>} \cup [1..1 -> MCRows] \cup [1..2 -> MCRows]
               \cup {b \in [1..3 -> MCRows] : b[1].arrival_time = 0}
               \cup RecordedBatches

(* README.txt's kinds of command line, and "FCFS x 2", a quantum given to  *)
(* a policy that takes none.                                               *)
MCModes ==
  {CommandLine(p, "none", 1) : p \in {"FCFS", "SJN", "Priority"}}
    \cup {CommandLine("RR", s, 2) : s \in {"FCFS", "SRTN", "Priority"}}
    \cup {CommandLine("RR", "FCFS", 1), CommandLine("FCFS", "none", 2)}
    \cup RecordedModes

(* Every queue of up to MaxLength processes whose keys are in -2..2: the   *)
(* sentinel -1, keys on both sides of it, and ties.                        *)
MCQueues == UNION {[1..n -> -2..2] : n \in 1..MaxLength}

-------------------------------------------------------------------------------
NoSimulator ==
  /\ batch = <<>> /\ mode = CommandLine("FCFS", "none", 1)
  /\ pc = "stopped" /\ cpu = "halted" /\ TIME = 0 /\ temp = None
  /\ waitQueue = <<>> /\ processQueue = <<>> /\ completedProcesses = <<>>
  /\ est_remaining_runtime = <<>> /\ context_switches = <<>>
  /\ turnaround_time = <<>> /\ wait_time = <<>>
  /\ toCPU = <<>> /\ toScheduler = <<>>

NoSelection ==
  /\ keys = <<>> /\ scan_pc = "idle" /\ scan_queue = <<>> /\ checked = <<>>
  /\ scan_temp = 0 /\ shortest_run_time = -1 /\ shortest_index = 0 /\ scan_i = 0

(* Nobody has started a run.                                               *)
NoLaunch == Starting!Init

AssignmentInit ==
  \/ chosen = "simulator" /\ Init /\ NoSelection /\ NoLaunch
  \/ chosen = "selection" /\ NoSimulator /\ Loop!Init /\ NoLaunch
  \/ chosen = "launch"    /\ NoSimulator /\ NoSelection /\ Starting!Init

AssignmentNext ==
  /\ UNCHANGED chosen
  /\ \/ /\ chosen = "simulator" /\ Next
        /\ UNCHANGED <<selection, launch>>
     \/ /\ chosen = "selection" /\ Loop!Next
        /\ UNCHANGED <<simulator, launch>>
     \/ /\ chosen = "launch" /\ Starting!Next
        /\ UNCHANGED <<simulator, selection>>

AssignmentSpec ==
  /\ AssignmentInit
  /\ [][AssignmentNext]_<<chosen, simulator, selection, launch>>
  /\ Fairness /\ Starting!Fairness
===============================================================================
