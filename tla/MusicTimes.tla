------------------------------- MODULE MusicTimes ------------------------------
(***************************************************************************)
(* PlayingTimes beside the threads of MusicServer: the same steps on       *)
(* variables with names of their own, so that one can speak of the two     *)
(* views of server.c together (MusicServer_proofs).                        *)
(***************************************************************************)
EXTENDS Integers, Sequences

CONSTANTS Names, MaxSongs, MaxSeconds, MaxRuns

ASSUME BoundsAssumption == MaxSongs \in Nat /\ MaxSeconds \in Nat /\ MaxRuns \in Nat

VARIABLES music_txt, clean, doing, line, songs, total, seconds, runs, playlist,
          heard, credit, twice

Times == INSTANCE PlayingTimes WITH file <- music_txt, server <- doing

TimesSpec == Times!Spec

(* music.txt keeps the seconds of every song through runs and crashes.     *)
(* (server.c:128-277)                                                      *)
TimesKept == Times!TimesKept

================================================================================
