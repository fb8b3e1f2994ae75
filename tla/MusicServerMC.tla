----------------------------- MODULE MusicServerMC -----------------------------
(***************************************************************************)
(* Three songs, so that next and previous differ, the second the shortest, *)
(* or, for liveness, two.                                                  *)
(***************************************************************************)
EXTENDS MusicServer

MCDuration    == <<1, 0, 1>>
MCTwoDuration == <<1, 0>>

===============================================================================
