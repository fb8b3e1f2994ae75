-------------------------------- MODULE Commands -------------------------------
(***************************************************************************)
(* Shell on variables with names of their own, beside the other programs   *)
(* of LAB that there are theorems about (Lab_proofs).                      *)
(***************************************************************************)
EXTENDS Integers, Sequences

CONSTANTS Letters, MaxLine

(* Blanks, ends of strings, bytes that nobody wrote and the end of the     *)
(* input are no letters.  (A line of the code has up to 998, with a        *)
(* newline; one that is longer or has none is read in parts.)              *)
ASSUME LettersAssumption ==
  {"blank", "null", "junk", "EOF"} \cap Letters = {}

ASSUME MaxLineAssumption == MaxLine \in Nat

VARIABLES buffer, argv, shell, ending, arg, typed, command, ran

Sh == INSTANCE Shell WITH pc <- shell

ShellSpec == Sh!Spec

(* What is executed is what was typed, up to what an empty line and the    *)
(* end of the input do (task4_part1.c:34-73, 83-107).                      *)
RunsWhatWasTyped == Sh!RunsWhatWasTyped

================================================================================
