--------------------------------- MODULE MusicMC --------------------------------
(***************************************************************************)
(* The two views of server.c: the threads of MusicServer, or the runs of   *)
(* the server one after the other of PlayingTimes; one of them is idle.    *)
(* Idle threads have not been started.  The threads may always go on until *)
(* the server is at its end; the runs are over after MaxRuns.              *)
(***************************************************************************)
EXTENDS MusicServerMC, MusicTimes

VARIABLE chosen

times == <<music_txt, clean, doing, line, songs, total, seconds, runs, playlist,
           heard, credit, twice>>

NoTimes ==
  /\ music_txt = <<>> /\ clean = FALSE /\ doing = "idle" /\ line = 0 /\ songs = <<>>
  /\ total = <<>> /\ seconds = 0 /\ runs = 0 /\ playlist = <<>> /\ heard = <<>>
  /\ credit = <<>> /\ twice = FALSE

MusicInit ==
  \/ chosen = "threads" /\ Init /\ NoTimes
  \/ chosen = "times" /\ Init /\ Times!Init

MusicNext ==
  /\ UNCHANGED chosen
  /\ \/ chosen = "threads" /\ Next /\ UNCHANGED times
     \/ chosen = "times" /\ (Times!Next \/ UNCHANGED times) /\ UNCHANGED vars

MusicSpec == MusicInit /\ [][MusicNext]_<<chosen, vars, times>>

===============================================================================
