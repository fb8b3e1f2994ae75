------------------------------- MODULE ExercisesMC -----------------------------
(***************************************************************************)
(* The bank, the scheduler of Assignment1, the copies, the shell and the   *)
(* statistics on small inputs.  They have nothing to do with each other:   *)
(* one of them runs, the others are idle.  An idle bank is one whose first *)
(* fork has failed.                                                        *)
(***************************************************************************)
EXTENDS Bank, TestMode, CopyPrograms, Commands, ListFigures

CONSTANTS MaxRows, MCWork       \* of the files of TestMode

VARIABLE chosen

bank  == vars
tests == testVars

copies   == <<program, source, before, file, copier_parent, child1, copier,
              position, written, reads, ending_with_xyz>>
commands == <<buffer, argv, shell, ending, arg, typed, command, ran>>
lists    == <<entered, nums, stage, index, figures, calls, part, most>>

(* Files of up to three rows over three priorities (0 is where             *)
(* currPriority starts, -1 is below it) and work that is nothing, a part   *)
(* of a burst of two cycles, a whole burst, and more than two.             *)
MCFiles == LET rows == [priority : -1..1, est_remaining_runtime : MCWork]
           IN UNION {[1..n -> rows] : n \in 1..MaxRows}

(* Sources of every length up to one more than two rounds of both buffers, *)
(* with the characters that are replaced in each share; destinations that  *)
(* are shorter and longer.                                                 *)
Text == [k \in 1..13 |-> <<"1", "2", "x", "y", "z">>[((k - 1) % 5) + 1]]

Contents == {SubSeq(Text, 1, n) : n \in 0..13}

Olds == {<<>>, <<"o">>, [k \in 1..20 |-> "o"]}

(* All lists of up to five of four numbers and of six of three: three may  *)
(* be repeated, in every order, and sums have both signs.                  *)
Numbers == UNION {[1..n -> {-1, 1, 2, 3}] : n \in 1..5} \cup [1..6 -> {-1, 1, 2}]

-------------------------------------------------------------------------------
NoBank ==
  /\ sem = SemCreate /\ balance = 100 /\ attempt = Attempts
  /\ counter = [c \in Children |-> 0] /\ pc = [c \in Children |-> "unborn"]
  /\ bal2 = [c \in Children |-> 0] /\ N_Att = [s \in Sons |-> Attempts]
  /\ flag = [s \in Sons |-> FALSE] /\ i = 1
  /\ parent = "exited" /\ reaped = 0 /\ printed = [c \in Children |-> Nothing]

NoTests ==
  /\ iFile = "failed" /\ processes = <<>> /\ policy = "stopped"
  /\ est_remaining_runtime = <<>> /\ processQueue = <<>> /\ ready = {}
  /\ holdout = {} /\ currPriority = 0 /\ completed = <<>>

NoCopies ==
  /\ program = "idle" /\ source = <<>> /\ before = <<>> /\ file = <<>>
  /\ copier_parent = "idle" /\ child1 = "idle" /\ copier = "idle" /\ position = 0
  /\ written = "idle" /\ reads = 0 /\ ending_with_xyz = FALSE

NoCommands ==
  /\ buffer = "idle" /\ argv = "idle" /\ shell = "idle" /\ ending = 0 /\ arg = 0
  /\ typed = <<>> /\ command = <<>> /\ ran = <<>>

NoLists ==
  /\ entered = <<>> /\ nums = <<>> /\ stage = "idle" /\ index = 0
  /\ figures = "idle" /\ calls = <<>> /\ part = "idle" /\ most = "idle"

ExercisesInit ==
  \/ /\ chosen = "bank" /\ Init /\ NoTests /\ NoCopies
     /\ NoCommands /\ NoLists
  \/ /\ chosen = "tests" /\ NoBank /\ TestInit /\ NoCopies
     /\ NoCommands /\ NoLists
  \/ /\ chosen = "copies" /\ NoBank /\ NoTests /\ Copies!Init
     /\ NoCommands /\ NoLists
  \/ /\ chosen = "shell" /\ NoBank /\ NoTests /\ NoCopies
     /\ Sh!Init /\ NoLists
  \/ /\ chosen = "lists" /\ NoBank /\ NoTests /\ NoCopies
     /\ NoCommands /\ Figures!Init

ExercisesNext ==
  /\ UNCHANGED chosen
  /\ \/ /\ chosen = "bank" /\ Next
        /\ UNCHANGED <<tests, copies, commands, lists>>
     \/ /\ chosen = "tests" /\ TestNext
        /\ UNCHANGED <<bank, copies, commands, lists>>
     \/ /\ chosen = "copies" /\ Copies!Next
        /\ UNCHANGED <<bank, tests, commands, lists>>
     \/ /\ chosen = "shell" /\ Sh!Next
        /\ UNCHANGED <<bank, tests, copies, lists>>
     \/ /\ chosen = "lists" /\ Figures!Next
        /\ UNCHANGED <<bank, tests, copies, commands>>

ExercisesSpec ==
  /\ ExercisesInit
  /\ [][ExercisesNext]_<<chosen, bank, tests, copies, commands, lists>>
  /\ Fairness /\ WF_testVars(TestNext) /\ Copies!Fairness

================================================================================
