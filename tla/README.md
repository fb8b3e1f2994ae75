# TLA+ models of CSC332-Operating-Systems

The repository holds the assignments and labs of an operating-systems course:
small C and C++ programs in which processes, threads, sockets, files,
semaphores and mutexes meet. This directory models the programs that have
logic of their own, checks the models with TLC and proves some of the results
with TLAPS. Line numbers are those of the files under `src/`.

## 1. The system

The programs are independent of each other. Those with concurrency or with an
algorithm worth stating:

| Program | Parts and state | Operations | What is hard | What makes it correct |
|---|---|---|---|---|
| **CPU-scheduling simulator**, `Assignment3` | `scheduler.cpp`: `TIME`, `waitQueue`, `processQueue`, `completedProcesses`, control blocks. `cpu_emulator.cpp`: the block it works on. One TCP connection. | `FCFS`, `SJN`, `Priority`, `roundRobin` (three schedules), `updateProcessQueue`, three selection scans, `dispatchToCPU`, `stopCPU`, `statistics`; the CPU's loop | blocks are copied from queue to queue and over the wire; two programs each do their part of the arithmetic; arrivals during a quantum; partial quanta; unsorted files | no process is lost or doubled, the policy is respected among all that have arrived, the clock accounts for all work and switches, the CPU is stopped when and only when all is done |
| **Its start-up** | `init.c`: two children; `setupTCPServer`, `setupTCPClient`: sockets, a backlog | fork, exec, listen, connect, accept, wait | several runs on one port with `SO_REUSEPORT`; connect is tried once; any call may fail | init returns; no CPU is left over, and a scheduler only if its CPU was lost |
| **Simulator of Assignment1** | as above, with `holdout` and `currPriority` | read processes.txt, `roundRobin`, then `PriorityFirst`, then `stopCPU` | a reading loop that looks for the end of the file only; two containers, three ways through one loop | strict priority, even turns, each process completed once, in the right order |
| **Bank**, `LAB/Task5/bank.c` | files balance, attempt and three counters; one System V semaphore; a parent, dad, two sons | deposit, withdraw, count, wait and print | read and write back in separate steps; a fork may fail; parent prints without the semaphore | mutual exclusion, no money lost or overdrawn, everybody exits |
| **Music server**, `Extra Credit` | song ring, `currentSong`, `currentPlayingTime`, `disconnectedUsers`, `closedSockets`, a mutex; main/player, acceptor, two listeners; two clients | next, previous, exit, play a second, tell the users, write music.txt | checks outside the mutex, non-atomic counting, an unframed stream, sends to a socket being closed, `exit` in any thread | users are told of changes in their order, songs end in time and are not left half-way by the player, the server ends when both have left and then writes music.txt |
| **Merge**, `Assignment2/main.c` | `datafile.dat`, three more files, linked lists, a mutex; three threads | read, merge, write back, compare | one file truncated and rewritten by three threads; unlinking while walking; a doubled first node; empty and missing files | the file is the sorted merge of those who are done |
| **Playing times**, `Extra Credit/server.c` 128-277 | `playlist.txt`, `music.txt`, the song list | read the list, count seconds, add what music.txt says, write it anew | the file is truncated at fopen and filled at fclose; names cut out by `strncpy` without a terminating zero | music.txt has the seconds of all runs that wrote it |
| **Producer/consumer**, `LAB/Task5` | three cells in shared memory of a fixed key, three semaphores of each run | produce, consume, fork, exit | order of the P operations; a segment shared between runs; indices that wrap; input that is no number | a first-in first-out buffer of N cells, nobody blocks |
| **Smokers**, `LAB/Task6`, two variants | five semaphores, or five mutexes; an agent, three smokers | deal, pick up, smoke, wake the agent, fork, kill, join | smokers fall through into the agent's code and fork more; kill of 0 and -1; mutexes unlocked by other threads | as many deals under way as agents wait, the business closes, nobody of the first agent's is left |
| **Copies**, `LAB/Task1`, and **splitting copy**, `LAB/Task3` | source, destinations, buffer; a parent and two children | open, read, replace, write, mark | loop ends, directories, a sleep in place of a wait, destinations that are longer | the destination is the source, with the marker after every full buffer and at the end, or untouched |
| **Command shell**, `LAB/Task4` | `buffer`, `argv` | read, cut into words, run | nothing is cleared; fgets is not tested | what runs is what was typed |
| **Statistics**, `LAB/PRACTICE` | an array | quickSort, most frequent number, average | one pass with a temporary count | the figures are right |

`PROJECT.json` lists all parts under `components` and what is hard to test in
them, line by line, under `hazards`.

## 2. Modules

| Module | What it models |
|---|---|
| `CpuScheduler` | The Assignment3 scheduler, the CPU and the blocks between them. |
| `BatchScheduling` | Abstract: what any batch scheduler promises. `CpuScheduler` implements it (`BatchSpec`). |
| `RecordedRuns` | The shipped `processes_3.txt` and the table of `plot.py`, which `CpuScheduler` is compared with. |
| `SelectionScan` | The three selection loops, iteration by iteration; a theorem says that the one-step selection of `CpuScheduler` is the same. |
| `SelectionLoop` | The same loop under names that do not clash with those of `CpuScheduler`, so that `CpuScheduler_proofs` can speak of both. |
| `Launch`, `StartUp` | Starting any number of simulators on the one port; `StartUp` has it on variables of other names than those of `CpuScheduler`. |
| `CpuSchedulerMC` | These in one run: small process files and command lines and the recorded ones, small queues, or two runs of init; one goes on, the others are idle. |
| `TestMode` | The Assignment1 scheduler. |
| `Bank` | The bank. |
| `MusicServer`, `-MC` | The music server and its users. |
| `MusicMC` | The threads of `MusicServer`, or the runs of `PlayingTimes`, in one run. |
| `MergeFiles`, `-MC` | The merging threads. |
| `Smokers` | Both programs of the cigarette smokers. |
| `ProducerConsumer` | Producer and consumer, several runs of them on the one segment. |
| `BoundedBuffer` | Abstract: a buffer of so many cells, first in first out. `ProducerConsumer` implements it (`BufferSpec`). |
| `FileCopies` | The copies of Task1 and the splitting copy of Task3. |
| `Shell` | The command interpreter of Task4. |
| `Statistics` | The statistics exercise, with its own quicksort. |
| `PlayingTimes` | `playlist.txt` and `music.txt` over several runs of the music server. |
| `CopyPrograms`, `Commands`, `ListFigures`, `MusicTimes` | The last four on variables with names of their own, with the assumptions on their constants, so that `Lab_proofs` and `MusicServer_proofs` can speak of them beside `Bank` and `MusicServer`. |
| `ExercisesMC` | `Bank`, `TestMode`, copies, shell and statistics in one run, on small inputs: one program runs, the others are idle. |
| `*_proofs` | Theorems; see section 5. |

Each module is a state machine whose actions are the steps of the program
between which another actor may act. Definitions keep the names of the code.
Just before the operators they vary, the modules list slips the code might
contain (`HasArrivedEarly`, `NoMoneyUntested`, ...): no action uses them. Each
is the mutant of one property in `PROJECT.json`: with the slip in the place of
the definition, TLC finds the property violated.

**CpuScheduler.** `FCFS`, `SJN`, `Priority` and `roundRobin` are four copies of
one loop; the module has one loop, and `mode` says which. A control block is
the index of its row; what the program changes in a block is a function of the
index. `Idle` is a tick with nobody ready; `Dispatch` is the top of the loop up
to `send`; `DispatchAgain`, `PushBack`, `Complete` are what follows the answer
of the CPU, with all calls of `updateProcessQueue` on the way;
`CompleteWithoutRunning` is a process without work in the non-RR loops;
`Finish` is `stopCPU`. `ExecuteBurst` and `Halt` are the CPU. `updateProcessQueue`
is recursive in the code and admits a prefix of `waitQueue`: `Arrived(k, t)`
says which. Calls for successive ticks of one quantum admit together what the
last call would admit alone, so `PushBack` and `Complete` use the last tick.

**SelectionScan** has the two passes of a scan and the "no key yet" value -1.

**TestMode.** The connection works as in Assignment3, so a burst is one step.
`ReadProcesses` gets to the end of processes.txt, or fails for good: the loop
(`scheduler.cpp:173`) goes on until `eof`, which never comes once the stream has
failed, because the file cannot be opened or a number in it is none. Then
nothing runs.
The `priority_queue` of pairs (-priority, -row) is the set of rows with a
strict order on it.

**Launch.** Each run has an init, a scheduler and a CPU; the kernel gives a
connection to any listening socket, drops what is pending when a socket goes,
and every call may fail.

**Bank.** A child's round is `P`, `UpdateCounters`, reads and writes of balance
and attempts as separate steps, `V`. `UpdateCounters` counts up the files of the
two others in one step: all who write them are between P and V, only the parent
reads them outside, and of what it prints nothing is claimed. The parent forks
in order, reaps and prints.

**MusicServer.** Threads have the numbers the messages carry (0 the player).
`disconnectedUsers += 1` is a read and a write. Sending to all users is a loop
of a test and a send for each user. A received chunk of more than one word, and
the first chunk in a buffer never cleared, may be unintelligible. Any `exit`,
SIGPIPE or null pointer ends the server.

**MergeFiles.** The list a thread works on has `val`, `next`, `prev` and `head`
as in the code. Reading a thread's own file is separate from the critical
section, which is one step per written number; output is buffered until close
or exit. `From` is the walk along `next`. That two places hold the same numbers
is said by counting: each number occurs as often here as there (`Occurrences`).
`Merged` has all lines of the files merged so far, each under its file and line
number.

**Smokers.** `build` says which of the two programs it is; their loops are the
same. A process is named by the set of forks it came out of as the child, which
says which of its variables `smoker_1` to `smoker_3` are 0: `{}` is the
first agent, `{1}` its first smoker, `{1, 3}` the third smoker forked by that
one after it had fallen out of its loop. Each semaphore call is a step. A
System V semaphore counts; a mutex that is unlocked twice does not (`Raised`).

**ProducerConsumer.** The calls of the two loops are two texts (`ProducerText`,
`ConsumerText`), and `at` is the place in them. Each run has its own semaphores
and its own copies of `nextp` and `nextc`; `buffer` is one for all. `entered` and
`consumed` remember what a run has put and taken, `disturbed` which runs another
one has written into. `BoundedBuffer` sees the two histories of any one run.

**FileCopies.** One action for each turn of the loop that reads: the read, the
replacements, the write and the test are its parts; the steps of Task3's parent
and of its first child fall in between.

**Shell.** `ReadLine` is `fgets` and the newline cut off; the two inner loops of
`fix_ending` and the tests around them are steps of their own (`AtEnding`,
`SkipBlank`, `StartWord`, `SkipLetter`, `EndWord`), each on one byte of a buffer
that, like `argv`, keeps what the commands before have left in it. A string is
what is found from a pointer up to the next zero byte, as for `execvp`.

**Statistics.** One action for each round of a loop; the recursive calls of
`quickSort` still to be made are a stack (`calls`).

**PlayingTimes** stands beside `MusicServer`: that module says when a server gets
to `updateMusicTxt`, this one what is in the file when it does, or when it dies
on the way. Each line read is a step, and so are the truncation and the write.

## 3. What is checked

Every property is described at its definition; the main ones here.

| Run | Question | Result |
|---|---|---|
| `scheduler` | Does the simulator schedule correctly? `OneHomePerProcess` (nobody lost or doubled), `Lockstep` (the two programs' exchange), `StopsWhenAllComplete`, `ClockAndSwitches`, `TimesCoverWork` (accounting of time and switches), `PolicyRespected`, `QueueKeepsOrder` (action properties), `AllComplete` (liveness), `BatchSpec` (refinement), `RecordedResults` (figures the author recorded for the shipped file). Do the scans return the first least process (`Selected`) and keep the others in order (`OthersKeepOrder`)? What becomes of two runs started at once: `NobodyLeftOver`, `StuckOnlyIfCPULost` (liveness) | hold |
| `plotted_figures` | Is every figure of `plot.py` what the program comes to? `PlottedFigures` | no |
| `exercises` | Bank: `MutualExclusion`, `Ledger` (no deposit or withdrawal lost, never below 0), `EveryoneExits` (liveness). Assignment1: `EvenTurns`, `CompletionOrder`, `StrictPriority`, `RunsToTheEnd` (liveness, once the file is read). Does every byte get to its destination (`CopiedInTurns`), and does a copy end (`EndsUnlessDirectory`, liveness)? Does what the shell runs follow from what was typed (`RunsWhatWasTyped`, action property)? Is the list sorted, with nothing lost, and are the figures right as far as they are (`StatisticsRight`)? | yes |
| `mimics_cp` | Does a copy leave just the source and its markers in the destination? `MimicsCp` | not always |
| `most_frequent` | Is what is printed as the most frequent number, with its count, right? `MostFrequentRight` | not always |
| `music` | `NeverOverplayed` (no song runs on beyond its end), `SkipsOnlyUnheard` (the player leaves a song that is not over only before its first second), `ToldCurrent` (users are told of changes in their order), `TimesKept` (music.txt keeps the seconds of all runs through deaths of the server) | hold |
| `music_stops` | Once both users are counted, does the server end? `StopsWhenCounted` | yes |
| `music_disconnect` | Is music.txt updated when both users have left? `UpdatedWhenBothDisconnect` | not always |
| `merge_files` | `NothingLost`, `CrashesOnlyOnEmpty`, `VerdictIsRight` (EQUAL just for the sorted merge) | hold |
| `verdict_printed` | Is a verdict printed of any two lists? `VerdictPrinted` | not always |
| `smokers` | `OneDealPerAgent` (as many deals under way as agents wait), `HowItEnds` (who becomes an agent, and who is left), `BusinessCloses` (liveness) | hold |
| `producer_consumer` | `SemaphoresCount`, `BufferSpec` (refinement of a bounded buffer), `EverythingConsumed` (liveness) | hold |

Five runs find that the code does not do what the repository says; each
counterexample is a behaviour of the code (`findings` in `PROJECT.json`):

* `music_disconnect`: "The music will be stopped and the music.txt file will be
  updated when both of clients disconnect" (`Extra Credit/README.txt:5`). The
  other listener, a failed send, a lost count or a word not understood ends the
  server first, or leaves it playing.
* `plotted_figures`: `plot.py:17-19` records 14 context switches and a total run
  time of 5481 for FCFS, SJN and Priority, a switch for each process. The program
  counts one for each unit of work (`scheduler.cpp:246-251`,
  `cpu_emulator.cpp:57`), 5453, and comes to 16359. The average wait of FCFS and
  of RR FCFS 1000 (`plot.py:17,22`) is 2378.43, not 2378.45. All other figures of
  the table are the program's (`RecordedResults`).
* `verdict_printed`: compare_lists "prints result if they have equal values or
  not" (`main.c:219`). It follows a null pointer instead when the answer is empty
  (226) or goes on where the data ends (246).
* `mimics_cp`: 2.c and 3.c each are "a program that mimics the 'cp' command"
  (line 4 of both), but the tail of a longer destination stays, as it is opened
  without `O_TRUNC`; and 3.c is to "end with a 'XYZ' if not ended before" (9,
  103), but the copy of an empty file has none (100).
* `most_frequent`: the program is to display the "most occurring number (with
  the count)" (`PRACTICE/LAB1/README.md:11`), but of -1 -1 1 1 2 2 it prints that
  2 occurred 3 times, as `temp_count` (107) counts several numbers together.

Everything else holds as the properties state it. Where the code departs from
what one would expect, they state what it does:

* `server.c:348` tests outside the mutex whether the song is over. A user may
  change the song in between, or be in the middle of a change, so that the clock
  of one song is compared with the duration of another; the player then skips a
  song that has just been asked for, although 337 says it changes the song if
  necessary. `SkipsOnlyUnheard` says that it skips no other.
* A song of d seconds plays for d + 1, as the comparison at 348 is strict.
* The opening message (342) is sent without the mutex and may come after that of
  a later song; `ToldCurrent` exempts it.
* processes.txt of Assignment1 is not in the repository; without it the scheduler
  reads for ever (`scheduler.cpp:173`). `RunsToTheEnd` is about a file that is
  read.
* `init.c:73` says it waits for both children; it returns when one has died
  (`ChildDied` in `Launch`), and a scheduler whose CPU was refused stays behind
  in accept (`StuckOnlyIfCPULost`).
* `bank.c:279` prints a counter as dad's total after the first child, whichever,
  has exited (`Wait` in `Bank`); it may still grow.
* A smoker that has smoked FOREVER times goes on as a parent: it forks smokers
  of its own and becomes a second agent, which may take the answer meant for the
  first, and then deals again with its own deal still on the table:
  `OneDealPerAgent` counts deals and agents, it does not say whose deal is
  answered. `HowItEnds` says that all this needs the last round to be dealt and,
  once the first agent has closed, who can be left. `kill`
  (`task6_semaphores.c:161`) then reaches a whole process group (0) or, after a
  failed fork, everybody (-1). With pthreads the first `pthread_kill` that finds
  a thread ends the process, and `exit(EXIT_SUCCESS)` is never reached.
* Runs of `ProducerConsumer` share the segment of key 1000 but not the
  semaphores; `BoundedBuffer` promises the contents only while nobody else has
  written (`alone`).
* The copy of a directory never ends (`3.c:98`): -1, compared with a `size_t`, is
  more than a full buffer. `EndsUnlessDirectory` leaves just that out, and
  `CopiedInTurns` leaves out what `mimics_cp` finds.
* The shell runs the last command again on an empty line, with its name gone,
  and at the end of the input for ever (`RunsWhatWasTyped`).
* The average is cut to a whole number (`main.c:70`) before it is printed with
  six digits. `StatisticsRight` allows that, and claims the most frequent number
  only where at most two are repeated.
* A server killed between `fopen` (258) and `fclose` leaves music.txt empty; names
  twice in a playlist are credited twice; a name on a stack that was not zero
  matches no song (`TimesKept`).

Two properties are conditional. `PolicyRespected` is about files sorted by
arrival, as `updateProcessQueue` looks at the front row only. `ClockCountsWork`
limits the properties about time to command lines of the kinds README.txt
gives: "FCFS x 10" runs ten units of work for one tick of the clock, which the
model shows, and which makes waiting times negative.

`RunsToTheEnd`, `AllComplete`, `EveryoneExits`, `StopsWhenCounted`,
`BusinessCloses`, `EverythingConsumed`, `EndsUnlessDirectory`, `NobodyLeftOver`
and `StuckOnlyIfCPULost` are liveness properties. Selections, start-ups, the
programs of `ExercisesMC`, smokers, producers and consumers really stop, so in
`scheduler`, `exercises`, `smokers`, `producer_consumer` and the two findings
about exercises deadlock is not checked; that the simulator, the bank and the
others do not stop early is what their liveness properties say. Elsewhere a
terminated system stutters in an action of its own, and any other deadlock is
an error.

## 4. Bounds and fairness

* `scheduler`: rows with arrival 0 or 4, priority 1 or 2, run time 0, 1 or 3;
  all files of up to two rows in any order, and those of three rows whose first
  is there from the start. Arrivals at 4 fall before, into and after quanta and
  idle phases; run time 3 with quantum 2 has a partial last quantum; 0 is the
  process with nothing to do; equal keys are ties. Modes: the three policies,
  RR with each schedule at quantum 2, RR FCFS at quantum 1, and FCFS at 2.
  Besides, without any bound, the shipped file with its eight command lines.
  Selections: queues of up to 4 with keys -2 to 2: below, at and above the value
  -1 that is special. Start-up: two runs, the least that can steal from each
  other.
* `plotted_figures`: no bound: the shipped file, the eight command lines.
* `exercises`, Bank: 2 deposits and 11 attempts, which like the 5 and 20 of the
  code use up exactly all the money ((100 + 60 * 2) / 20 = 11); counters stop at
  `MaxCounter` 1, as a son without money counts for ever. Assignment1: files of
  1 to 3 rows, the three priorities -1, 0 and 1, burst 2 (200 in the code) and
  work 0, 1, 2, 3, 5: nothing, part of a burst, exactly one, one and a part, more
  than two. Copies: buffers of 4 and 2 bytes (100 and 50) and sources of every
  length from 0 to 13, that is up to more than two turns of both, with all
  characters that are replaced; destinations that are absent, empty, shorter or
  longer. Shell: any number of lines of up to four characters out of a letter, the
  quitting one and the blank (`MaxLine`): words of several letters, several words,
  blanks before, between and after them, one or several, and every line after
  every other. Statistics: all lists of one to five numbers out of four and of
  six out of three (ten in the code): six is the least with three numbers
  repeated; sums of both signs. `mimics_cp` and `most_frequent` have the same
  copies and lists alone.
* `music`: three songs, the least ring in which next and previous differ, with
  short durations; two commands typed besides exit (`MaxCommands`). Playing
  times: two names, playlists of up to two songs (`MaxSongs`), three seconds
  (`MaxSeconds`) and three runs (`MaxRuns`): one that may be broken off, between
  two that write.
  `music_stops` and `music_disconnect`: two songs, one command.
* `merge_files`: three threads as in the code; new1.dat and datafile.dat of up
  to two lines, the others of one, numbers 1 and 2, any of them missing; answers
  that match, differ, are too short, too long, empty or missing. `verdict_printed`
  has the same.
* `smokers`: `Forever` 2 (10 in the code), so that a round follows another and
  a smoker can leave its loop; one failing fork; up to two smokers that become
  agents, so that a process is reached that was forked by neither the first
  agent nor its smoker.
* `producer_consumer`: two runs, a ring of two cells and three rounds, so that
  the indices wrap (with the three cells and three rounds of the code they never
  do), one input that is no number.

Fairness. `CpuScheduler`, `Launch`, `Bank`, `TestMode`: weak fairness of each
process (`AssignmentSpec` and `ExercisesSpec` take it over), as the operating system runs every process that can go on.
`Bank` has strong fairness of `P`: Linux serves those who wait for a semaphore
in turn. `MusicServer` has strong fairness of taking the mutex: the player
sleeps a second between two turns, the users type. Clients are not fair: nobody
need ever type or leave. Steps that fail are never forced by fairness unless
nothing else is possible. `Smokers` and `ProducerConsumer` have weak fairness of
each process: rounds are counted, so nobody can be overtaken at a semaphore for
ever. `ProducerConsumer` has none for `Fork`, as no user need start a run.
`FileCopies` has weak fairness of its processes. `MergeFiles`, `SelectionScan`,
`Shell`, `Statistics` and `PlayingTimes` claim safety only.

## 5. What is proved

The theorems hold for all values of the constants under the assumptions named
in the modules (`BatchesAssumption`: rows have natural numbers; `ModesAssumption`:
a known policy, a known RR schedule and a positive quantum; `StopAssumption`:
no row is the stop block; `FilesAssumption`, `CyclesAssumption`,
`QueuesAssumption`, `RunsAssumption`: there is a run;
`SongsAssumption`: there is a song; `ForeverAssumption`: there is a round;
`LinesAssumption`, `AnswersAssumption`: what is in a file is numbers;
`ThreadsAssumption`: there is a thread; `BuffersAssumption`: the second buffer of
the splitting copy is not the larger; `ContentsAssumption`: files are strings of
characters; `NamesAssumption`, `LettersAssumption`: what stands for an absent
file, for a blank or for the end of a string is not one of the characters;
`ListsAssumption`: at least one number is entered; `BoundsAssumption`,
`MaxLineAssumption` and others: bounds are numbers), that is, for files, queues,
song lists, lines and lists of any length, any number of runs, threads, cells,
rounds, commands and failing forks. The type invariants of all these
modules are conjuncts of the inductive invariants and proved with them.

| Theorem | Statement | Argument |
|---|---|---|
| `CpuScheduler_proofs!TypeCorrectness`, `NoProcessLost`, `TakeTurns` | `TypeOK`, `OneHomePerProcess`, `Lockstep` | The three together are inductive (`IInv`): what the scheduler receives is the block of `temp` only because of `Lockstep`, and that is well-typed and in one place only because of the other two. The queue steps use lemmas on injective sequences that stand at the beginning of the module. |
| `CpuScheduler_proofs!WaitingTimes` | `TimesCoverWork` (`TimeInSystem` and `WaitCoversSwitches`) | `WInv` adds the bound for unfinished processes to `IInv`: a completed process's wait follows from the bound it met in its last visit. |
| `CpuScheduler_proofs!StopsWhenDone` | `StopsWhenAllComplete` | The loop counts completions; completed rows are distinct rows of the file, so as many as the file has are all of it. |
| `CpuScheduler_proofs!PolicyIsRespected` | `PolicyRespected` | `waitQueue` is the tail of the file (`RestOfFile`), so in a sorted file the prefix that `updateProcessQueue` admits is all that have arrived, and the best of the admitted is the best of all who are there. |
| `CpuScheduler_proofs!NobodyOvertakes` | `QueueKeepsOrder` | `processQueue` followed by `waitQueue` is one line: admitting moves the border between the two, taking removes one place, and only the process from the CPU goes behind. |
| `CpuScheduler_proofs!BurstsAndTicks` | `ClockAndSwitches` | `SInv`: what is left of a process's work is the work less its switches' quanta. `CInv`: `TIME` is what was counted. Both sums run over all processes; `SumOfOneChange` says what changing one summand does, and is proved from a smallest counterexample. |
| `CpuScheduler_proofs!Refinement` | `Spec => BatchSpec` | Step by step: `Idle` is `Wait`, `Dispatch` and `CompleteWithoutRunning` are `Start`, the three steps after an answer are `EndTurn` with the rows admitted on the way, all others stutter. `Lockstep` says what the answer holds. |
| `CpuScheduler_proofs!FirstLeastReturned`, `NoneForgets`, `WhatIsSelected`, `OrderKept` | of the loop (`Loop`, the instance of `SelectionScan` in `SelectionLoop`): `SelectsFirstLeast`, `StartsOverAfterNone`, both as `Selected`, and `OthersKeepOrder` | The loop invariant: the index kept is right for the part already scanned (`Chosen`), and the rebuilt queue is that part without it. |
| `CpuScheduler_proofs!OneStepSelection` | `Spec /\ LoopSpec => []SelectsAsModelled` | No key of a process is -1, so the loop returns the first least one. That is the one place for which `Best` holds, and what is rebuilt is what `RemoveAt` leaves. |
| `TestMode_proofs!TurnsAreEven`, `BestClassFirst` | `EvenTurns`, `StrictPriority` | roundRobin's queue is a rotation of the file (`Rotation`); in PriorityFirst the held-out processes are of the current class, the best one left, and one burst ahead of their class (`PriorityInv`). |
| `TestMode_proofs!CompletesInOrder` | `CompletionOrder` | Every process has had a whole number of bursts (`InBursts`), and turns are even: who completes has needed no more bursts than anybody of its class who has not, so it belongs before all who are unfinished. |
| `Lab_proofs!OneAtATime`, `MoneyIsKept` | `MutualExclusion`, `Ledger` | What the child in the critical section has read is still what the files say (`LocalsFresh`); all sums are multiples of 20 (`WholeNotes`). |
| `MusicServer_proofs!SongsEnd`, `LeftUnheard`, `UsersKnow` | `NeverOverplayed`, `SkipsOnlyUnheard`, `ToldCurrent` | A thread that tells of a change holds the mutex; all others that send are the player with the opening message (`Holding`). Under the mutex all users before the one who is next know the song (`Telling`). When the player ticks outside a change the clock has not passed the duration of the song that plays, even if it is not the song the player looked at; and when it is about to leave a song, that song is over or its clock has just been set back (`Clock`). That `disconnectedUsers` stays in its range needs `Counting`: who reads it before the other is counted reads 0. |
| `Smokers_proofs!DealsAnswered` | `OneDealPerAgent` | Each step moves one process, and what it adds to the semaphores and to the hands of smokers it adds to the agents that wait (`Balance`). With mutexes, unlocking twice would lose a count; the balance itself shows that at most one deal is outstanding (`OneAgent`). What a fork creates, or a kill takes away, needs `Unborn`: whoever can still be forked has not been. |
| `Smokers_proofs!Endings` | `HowItEnds` | No smoker has smoked more often than the first agent was told (`Rounds`), so one that has smoked all its rounds leaves the agent in its last; and whom the closing kills have passed is gone (`Passed`). |
| `MergeFiles_proofs!NumbersKept`, `WhoCrashes`, `RightVerdict` | `NothingLost`, `CrashesOnlyOnEmpty`, `VerdictIsRight` | There is a sequence of nodes that the pointers forth and back both follow, and whose numbers and those written are what was read (`Chain`, `Taking`). `FromIsChain` says that the walk along `next` finds it, `RemoveKeepsChain` that unlinking a node takes one out of it. Numbers are counted, through appending, joining, taking one out and over all files (`MergedMore`). One thread is inside at a time (`Turns`) and finds and leaves the merge of those before it (`Whole`). A sorted sequence is known by its counts (`SortedOnce`), so only the merge itself is EQUAL. |
| `ProducerConsumer_proofs!SemaphoresAreRight` | `SemaphoresCount` | The counts of a run tie the semaphores to the rounds (`Counted`, `Rounds`) and the rounds to the entries (`Lengths`). From them follows how many entries wait: fewer than N where the producer writes, at least one where the consumer reads (`WaitingBounds`). |
| `ProducerConsumer_proofs!IsABuffer` | `Spec => BufferSpec` | The producer is as many cells ahead of the consumer as entries wait (`Place`), and those cells hold them in order unless the run was disturbed (`Held`); a run that is not under way has nothing waiting, so another that writes does it no harm. `Produce` is `Put` or `Intrude`, `Consume` is `Take`, everything else stutters. |
| `MusicServer_proofs!TimesAreKept` | `TimesKept` | `TimesInv` says what is in the file and in the list at each stage of a run: while n lines have been read, the total of a song is what was heard of it, with its credit if one of these n lines has its name (`AddedUpTo`); between truncation and write the file is empty and the list has it all. |
| `Lab_proofs!CopiesAreComplete` | `CopiedInTurns` | A destination is at all times its old contents with the first bytes of what is expected written over them (`InLoop`). How many these are follows from the number of whole rounds made, with quotients and remainders of the lengths (`Progress`, for each program its own): so a round writes just the bytes that come next, and the last one ends where the expected contents end. Before the loop nothing has been written (`BeforeLoop`), whatever the family did. |
| `Lab_proofs!FiguresAreRight` | `StatisticsRight` | Sorting: two numbers out of order are in one part that is still to be sorted (`SortedBut`), the parts follow each other (`Ranges`), the pivot is between the two halves of its part (`Parted`), and swaps keep how often each number occurs (`Permuted`). The walk: the temporary count is at least as long as the run it is in, and, when at most two numbers are repeated, is exactly that of the other one (`Counted`). |
| `Lab_proofs!ShellRunsWhatWasTyped` | `ShellSpec => RunsWhatWasTyped` | In the middle of a line the words begun so far are in `argv`, each at its place, and the blanks passed are cut (`InLine`). Between two commands the buffer has the whole last one (`Settled`): only its first word can begin at the two bytes that an empty line overwrites, and does not exactly when it was typed behind two blanks, which is why an empty line takes the name and nothing else. At the end of the input `fix_ending` walks over that first word once more (`AtEnd`). |

Induction theorems with an operator as parameter are out of the prover's
reach; where a proof needs an induction over numbers or sets, it takes a
smallest counterexample instead (`LeastNumber`, `TallyExists`).

Every invariant and every action property that a run checks is stated by one
of these theorems, but one: `RecordedResults` compares the ends of eight long
runs with the figures the author recorded, and TLC computes them. Also only
model-checked is everything temporal beyond safety (`AllComplete`,
`RunsToTheEnd`, `NobodyLeftOver`, `StuckOnlyIfCPULost`, `EveryoneExits`,
`StopsWhenCounted`, `BusinessCloses`, `EverythingConsumed`,
`EndsUnlessDirectory`), as liveness under fairness is out of the prover's reach;
of the refinements, `BatchSpec` and `BufferSpec` state safety and are proved in
full.

## 6. Not modelled

Parts of modelled programs:

* Names, pids and printed text, and with them a row named "stop", which would
  halt the CPU when it is dispatched (`cpu_emulator.cpp:49`, `StopAssumption`).
* Blocks cut short by `read` (`scheduler.cpp:437`) or by the death of the peer:
  the code does not look at what `read` returns. A block is far smaller than
  what a loopback connection delivers at once. `Launch` has the deaths that
  happen before and after the exchange.
* Unknown RR schedules (`scheduler.cpp:376`) and quanta below 1, for which
  `roundRobin` reads uninitialised memory or makes no progress: neither README
  nor `init.c` offers them.
* Numbers beyond 32 bits: run times, ticks and sums of real input are small.
* In Assignment1, the branches for other values of `schedulingPolicy`
  (`scheduler.cpp:63-66`), a string main sets to "TestMode" (56): they run one of
  the two policies of `TestMode` alone.
* In Assignment3, a process file whose columns est_tot_time and est_remain_time
  differ (`scheduler.cpp:472-475`): a row of `CpuScheduler` has one run time for
  both, as all rows of the shipped file do.
* In `Bank`, `ProducerConsumer` and `Smokers`, errors of the semaphore calls and
  of the file system, and processes killed from outside: without SEM_UNDO a
  semaphore then stays taken.
* In `MusicServer`, the text of messages and files, a `send` that blocks, and
  the threads inside a client.
* In `MergeFiles`, malformed lines; `getline` and `atoi` give numbers. In `Shell`,
  lines longer than the buffer and more words than `argv` holds.

Programs without a module:

* The exercises on fork and exec (`Task2`, `Task3/task3_part1.c`,
  `task3_part2.c`) run straight through: they fork, print or execute, wait and end.
* The grading program (`Task4/task4_part2.c`) forks a fixed tree of processes and
  waits for each before it forks the next, so that only one ever runs.
* `Task1/0a.c`, `0b.c` make one system call each; the remaining programs of
  `PRACTICE` and `check_file_permissions.c` print, read or
  test one thing; the four threads of `Task5/Lab5_threads.c` each sum into a cell
  of their own and are joined.
* Drawing in `plot.py`.

With these, every program of the repository that has state or concurrency of
its own has a module.

## 7. What could be proved next

1. `EveryoneExits` and the other liveness properties, with a prover that handles
   ENABLED.
2. That the server of `PlayingTimes` gets to `OpenMusicTxt` just when that of
   `MusicServer` does; the two modules share no variable so far.
