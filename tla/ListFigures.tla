------------------------------- MODULE ListFigures -----------------------------
(***************************************************************************)
(* Statistics on variables with names of their own, beside the other       *)
(* programs of LAB that there are theorems about (Lab_proofs).             *)
(***************************************************************************)
EXTENDS Integers, Sequences

CONSTANT Lists          \* what may be entered

(* At least one number is entered (ten in the code, main.c:12).            *)
ASSUME ListsAssumption == \A s \in Lists : s \in Seq(Int) /\ s # <<>>

VARIABLES entered, nums, stage, index, figures, calls, part, most

Figures == INSTANCE Statistics WITH Inputs <- Lists, pc <- stage

FiguresSpec == Figures!Spec

(* The array is left sorted and the figures are right (main.c:49-156).     *)
StatisticsRight == Figures!StatisticsRight

(* The number said to be most frequent is, and as often as is said         *)
(* (README.md:11 of LAB1, main.c:81).                                      *)
MostFrequentRight == Figures!MostFrequentRight

================================================================================
