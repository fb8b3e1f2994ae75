----------------------------- MODULE RecordedRuns -----------------------------
(***************************************************************************)
(* CpuScheduler on the process file the repository ships, processes_3.txt, *)
(* with the eight command lines of Assignment3/README.txt, compared with   *)
(* the results its author recorded in Summary.pdf and again in plot.py.    *)
(***************************************************************************)
EXTENDS CpuScheduler

RecordedRow(arrival, priority, runtime) ==
  [arrival_time |-> arrival, priority |-> priority, est_runtime |-> runtime]

processes_3 ==
  << RecordedRow(10, 7, 360),  RecordedRow(70, 8, 320),
     RecordedRow(101, 3, 430), RecordedRow(120, 4, 411),
     RecordedRow(127, 1, 310), RecordedRow(135, 2, 400),
     RecordedRow(141, 4, 550), RecordedRow(152, 5, 301),
     RecordedRow(172, 7, 620), RecordedRow(181, 3, 230),
     RecordedRow(197, 1, 311), RecordedRow(203, 1, 260),
     RecordedRow(221, 2, 440), RecordedRow(232, 7, 510) >>

RecordedBatches == {processes_3}

CommandLine(policy, schedule, quantum) ==
  [policy |-> policy, schedule |-> schedule, quantum |-> quantum]

(* The table of plot.py, averages in hundredths.  A command line that      *)
(* gives no quantum gets init's 1.                                         *)
metrics(m) ==
  LET row(t, w, l, r, s) == [turnaround |-> t, wait |-> w, longest |-> l,
                             total |-> r, switches |-> s]
  IN CASE m = CommandLine("FCFS", "none", 1) ->
            row(276793, 237845, 4762, 5481, 14)
       [] m = CommandLine("SJN", "none", 1) ->
            row(240893, 201943, 4712, 5481, 14)
       [] m = CommandLine("Priority", "none", 1) ->
            row(261936, 222986, 5114, 5481, 14)
       [] m = CommandLine("RR", "FCFS", 10) ->
            row(533414, 494464, 5784, 6549, 548)
       [] m = CommandLine("RR", "FCFS", 100) ->
            row(455907, 416957, 4839, 5581, 64)
       [] m = CommandLine("RR", "FCFS", 1000) ->
            row(276793, 237845, 4762, 5481, 14)
       [] m = CommandLine("RR", "SRTN", 50) ->
            row(250450, 211500, 4918, 5687, 117)
       [] m = CommandLine("RR", "Priority", 50) ->
            row(301036, 262086, 5320, 5687, 117)

RecordedModes ==
  {CommandLine(p, "none", 1) : p \in {"FCFS", "SJN", "Priority"}}
    \cup {CommandLine("RR", "FCFS", q) : q \in {10, 100, 1000}}
    \cup {CommandLine("RR", s, 50) : s \in {"SRTN", "Priority"}}

(* A recorded average is the sum over the processes, rounded to a          *)
(* hundredth.                                                              *)
AverageIs(sum, hundredths) ==
  LET d == 2 * (100 * sum - Len(batch) * hundredths)
  IN d \in -Len(batch)..Len(batch)

HasEnded == pc = "stopped" /\ batch = processes_3 /\ mode \in RecordedModes

(* The command lines whose average wait in plot.py (17, 22) is not the     *)
(* turnaround less the work, as it is in the other rows.                   *)
WaitMisrecorded == {CommandLine("FCFS", "none", 1), CommandLine("RR", "FCFS", 1000)}

(* The results that were recorded for the shipped file are those of the    *)
(* program: the average turnaround and the longest wait of every command   *)
(* line, the average wait but for two, and for RR the total run time and   *)
(* the context switches.  What else was recorded is in PlottedFigures.     *)
(* (scheduler.cpp:187-218, plot.py:17-24)                                  *)
RecordedResults ==
  HasEnded =>
    LET s == Statistics  r == metrics(mode) IN
    /\ AverageIs(s.turnaround, r.turnaround) /\ s.longest = r.longest
    /\ mode \notin WaitMisrecorded => AverageIs(s.wait, r.wait)
    /\ mode.policy = "RR" => s.total = r.total /\ s.switches = r.switches

(* All that plot.py draws is what the program comes to, for every command  *)
(* line; counts never fall, so they may not be higher before the end       *)
(* either.  It is not: for FCFS, SJN and Priority the table has a switch   *)
(* for each process, the program counts one for each unit of work; and for *)
(* FCFS and RR FCFS 1000 the average wait is 2378.43.  (plot.py:17-24,     *)
(* scheduler.cpp:246-251, cpu_emulator.cpp:57)                             *)
PlottedFigures ==
  batch = processes_3 /\ mode \in RecordedModes =>
    LET s == Statistics  r == metrics(mode) IN
    /\ s.switches <= r.switches /\ s.total <= r.total
    /\ HasEnded => /\ AverageIs(s.turnaround, r.turnaround)
                   /\ AverageIs(s.wait, r.wait) /\ s.longest = r.longest
                   /\ s.total = r.total /\ s.switches = r.switches

===============================================================================
