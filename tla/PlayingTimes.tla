------------------------------- MODULE PlayingTimes -----------------------------
(***************************************************************************)
(* Extra Credit/server.c: the song list and music.txt, over several runs   *)
(* of the server.  A run reads the playlist, counts the seconds each song  *)
(* is played, and when both users have left adds what music.txt says, line *)
(* by line, and writes it anew: the file is truncated when it is opened,   *)
(* and filled when it is closed.  MusicServer says when a run gets that    *)
(* far.                                                                    *)
(*                                                                         *)
(* The names in both files go through a buffer on the stack that strncpy   *)
(* does not terminate.  Whether a name comes out as it is depends on what  *)
(* was there: clean says that there were zeros.                            *)
(***************************************************************************)
EXTENDS Integers, Sequences

CONSTANTS Names,        \* names of songs
          MaxSongs,     \* bound on the length of a playlist
          MaxSeconds,   \* bound on the seconds played, in all runs together
          MaxRuns       \* bound on the runs of the server

Missing == <<<<"missing", -1>>>>         \* like no file: times are not negative
Garbled == "garbled"
Playlists == UNION {[1..n -> Names] : n \in 0..MaxSongs}

NamedTwice(list) == \E i, j \in 1..Len(list) : i # j /\ list[i] = list[j]

VARIABLES
  file,                 \* the lines of music.txt after the heading
  clean,                \* the stack holds zeros where names are put
  server,               \* "off", "playing", "reading" or "writing"
  line,                 \* lines of music.txt that have been read
  songs,                \* names in the song list
  total,                \* totalPlayingTime of each song
  seconds, runs,        \* seconds played, runs started, in all
  playlist,             \* of this run
  heard,                \* seconds each song was played in this run
  credit,               \* seconds of each name that music.txt should show
  twice                 \* a playlist had a name twice

vars == <<file, clean, server, line, songs, total, seconds, runs, playlist,
          heard, credit, twice>>

(* The slip this module is checked against: a line counts for the first    *)
(* song only.                                                              *)
AddedToFirst(name, time, i) == IF i = 1 /\ name = songs[i] THEN time ELSE 0

(* The music.txt one starts with has times of 0.                           *)
Init ==
  /\ file \in {Missing} \cup {[k \in 1..Len(p) |-> <<p[k], 0>>] :
                               p \in {q \in Playlists : ~NamedTwice(q)}}
  /\ clean \in BOOLEAN
  /\ server = "off" /\ line = 0 /\ songs = <<>> /\ total = <<>>
  /\ seconds = 0 /\ runs = 0
  /\ playlist = <<>> /\ heard = <<>>
  /\ credit = [n \in Names |-> 0] /\ twice = FALSE

-------------------------------------------------------------------------------
(* What a name may be taken for.                                           *)
Taken(n) == IF clean THEN {n} ELSE {n, Garbled}

(* readPlaylist, addSong.  Without a song the ring cannot be closed, and   *)
(* the server dies, as it does without a playlist.                         *)
Start(list) ==
  /\ server = "off" /\ runs < MaxRuns
  /\ runs' = runs + 1
  /\ IF list = <<>>
     THEN UNCHANGED <<server, songs, total, playlist, heard>>
     ELSE /\ songs' \in {s \in [1..Len(list) -> Names \cup {Garbled}] :
                           \A i \in 1..Len(list) : s[i] \in Taken(list[i])}
          /\ total' = [i \in 1..Len(list) |-> 0]
          /\ server' = "playing"
          /\ playlist' = list /\ heard' = total'
  /\ twice' = (twice \/ NamedTwice(list))
  /\ UNCHANGED <<file, clean, line, seconds, credit>>

(* One second of playMusic.                                                *)
PlayedSecond(i) ==
  /\ server = "playing" /\ seconds < MaxSeconds
  /\ total' = [total EXCEPT ![i] = @ + 1]
  /\ heard' = [heard EXCEPT ![i] = @ + 1]
  /\ seconds' = seconds + 1
  /\ UNCHANGED <<file, clean, server, line, songs, runs, playlist, credit, twice>>

(* updatePlayingTime: a line counts for every song of its name.            *)
Added(name, time, i) == IF name = songs[i] THEN time ELSE 0

ReadLine ==
  /\ server = "reading" /\ line < Len(file)
  /\ \E name \in Taken(file[line + 1][1]) :
       total' = [i \in 1..Len(songs) |-> total[i] + Added(name, file[line + 1][2], i)]
  /\ line' = line + 1
  /\ UNCHANGED <<file, clean, server, songs, seconds, runs, playlist, heard,
                 credit, twice>>

(* updateMusicTxt: a file that is not there ends the server.               *)
OpenMusicTxt ==
  /\ server = "playing"
  /\ server' = IF file = Missing THEN "off" ELSE "reading"
  /\ line' = 0
  /\ UNCHANGED <<file, clean, songs, total, seconds, runs, playlist, heard,
                 credit, twice>>

(* writeMusicTxt: the fopen truncates the file that has been read.         *)
Truncate ==
  /\ server = "reading" /\ line = Len(file)
  /\ server' = "writing"
  /\ file' = <<>>
  /\ UNCHANGED <<clean, line, songs, total, seconds, runs, playlist, heard,
                 credit, twice>>

(* From there to fclose.                                                   *)
WriteMusicTxt ==
  /\ server = "writing" /\ server' = "off"
  /\ file' = [i \in 1..Len(songs) |-> <<songs[i], total[i]>>]
  /\ credit' = [n \in Names |->
       IF \E i \in 1..Len(playlist) : playlist[i] = n
       THEN credit[n] + heard[CHOOSE i \in 1..Len(playlist) : playlist[i] = n]
       ELSE 0]
  /\ UNCHANGED <<clean, line, songs, total, seconds, runs, playlist, heard, twice>>

(* The server ends some other way, or is killed.                           *)
Die ==
  /\ server # "off" /\ server' = "off"
  /\ credit' = IF server = "writing" THEN [n \in Names |-> 0] ELSE credit
  /\ UNCHANGED <<file, clean, line, songs, total, seconds, runs, playlist, heard,
                 twice>>

Next == \/ \E list \in Playlists : Start(list)
        \/ \E i \in 1..Len(songs) : PlayedSecond(i)
        \/ OpenMusicTxt \/ ReadLine \/ Truncate \/ WriteMusicTxt \/ Die

Spec == Init /\ [][Next]_vars

-------------------------------------------------------------------------------
(* music.txt has for every song the seconds it was played in all runs that *)
(* wrote the file, since the song last was missing from a playlist.  A run *)
(* that dies loses its own seconds; only one that dies between fopen and   *)
(* fclose loses those of earlier runs too.  Not so with names twice in a   *)
(* playlist, whose lines are added to each other, or names garbled.        *)
(* (server.c:128-277, 355-356)                                             *)
TimesKept ==
  clean /\ ~twice /\ server # "writing" /\ file # Missing =>
    /\ \A k \in 1..Len(file) : file[k][2] = credit[file[k][1]]
    /\ \A n \in Names : credit[n] > 0 => \E k \in 1..Len(file) : file[k][1] = n

===============================================================================
