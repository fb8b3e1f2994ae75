------------------------------ MODULE CopyPrograms -----------------------------
(***************************************************************************)
(* FileCopies on variables with names of their own, beside the other       *)
(* programs of LAB that there are theorems about (Lab_proofs).             *)
(***************************************************************************)
EXTENDS Integers, Sequences

CONSTANTS BUFFER_SIZE_1, BUFFER_SIZE_2, Sources, Destinations,
          Characters    \* what the bytes of a file may be

(* Prcs_P2.c takes a read for the last one if it is shorter than the       *)
(* smaller of its buffers, which must be the second one: 100 and 50.       *)
ASSUME BuffersAssumption ==
  BUFFER_SIZE_1 \in Nat /\ BUFFER_SIZE_2 \in 1..BUFFER_SIZE_1

ASSUME ContentsAssumption ==
  /\ \A s \in Sources \cup Destinations : s \in Seq(Characters)
  /\ {"A", "B", "X", "Y", "Z"} \subseteq Characters

(* No content is taken for an absent file or a directory.                  *)
ASSUME NamesAssumption == {"absent", "directory"} \cap Characters = {}

VARIABLES program, source, before, file, copier_parent, child1, copier,
          position, written, reads, ending_with_xyz

Copies == INSTANCE FileCopies
          WITH parent <- copier_parent, pc <- copier, counter <- reads

CopiesSpec == Copies!Spec

(* Copies are complete and in the right place (3.c:78-104, 2.c:80-83,      *)
(* displaycontent.c:72-78, Prcs_P2.c:26-92), and come to an end (3.c:98).  *)
CopiedInTurns       == Copies!CopiedInTurns
EndsUnlessDirectory == Copies!EndsUnlessDirectory

(* What the headers of 2.c (4-6) and 3.c (4-9) say of the copies.          *)
MimicsCp == Copies!MimicsCp

================================================================================
