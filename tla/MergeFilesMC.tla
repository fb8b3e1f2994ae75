------------------------------ MODULE MergeFilesMC -----------------------------
(***************************************************************************)
(* Numbers 1 and 2; new1.dat and datafile.dat of up to two lines, the      *)
(* others of up to one, each of them perhaps missing; answers that match,  *)
(* differ, are too long or too short.                                      *)
(***************************************************************************)
EXTENDS MergeFiles

LinesUpTo(n) == UNION {[1..k -> 1..2] : k \in 0..n} \cup {Missing}
MCLines(t)   == LinesUpTo(IF t < 2 THEN 2 ELSE 1)
MCAnswers    == {Missing, <<>>, <<1, 1, 2, 2>>, <<1, 1, 1>>,
                 <<1, 2, 2, 2, 2, 2, 2>>}

===============================================================================
