------------------------------- MODULE MusicServer -----------------------------
(***************************************************************************)
(* Extra Credit/server.c and client.c: a server that plays songs to two    *)
(* users, who may ask for the next or the previous song or leave.  Threads *)
(* of the server: main, which is the player; one that accepts; a listener  *)
(* for each user.                                                          *)
(*                                                                         *)
(* Users are numbered in the order they connect, and a thread has the      *)
(* number the messages name it by: 0 the player, 1 and 2 the listeners.    *)
(* The stream from a user is a sequence of words, of which recv takes one  *)
(* or more at once; only a word on its own is understood, and the first    *)
(* may not be, for it lands in a buffer that was never cleared.  The song  *)
(* list is the numbers of the songs, closed to a ring; names and playing   *)
(* times, which are only added up, are left out.                           *)
(*                                                                         *)
(* server.sh compiles without optimisation: shared variables are read each *)
(* time, and x += 1 is a read and a write.                                 *)
(***************************************************************************)
EXTENDS Integers, Sequences

CONSTANTS NumberOfSongs,
          Duration,       \* of each song
          MaxCommands     \* bound on the commands that users type, but exit

ASSUME SongsAssumption == /\ NumberOfSongs \in Nat \ {0}
                          /\ Duration \in [1..NumberOfSongs -> Nat]
ASSUME MaxCommandsAssumption == MaxCommands \in Nat

Users   == 1..2
Player  == 0
Threads == {Player} \cup Users
Opening == -1             \* the id in the first message
Free    == -1
Unset   == 0              \* currentSong, before playMusic
NoMessage == [id |-> Opening, song |-> Unset]

VARIABLES
  server,                 \* "up", "failed", "died" or "updated"
  clientsConnected, closedSockets, disconnectedUsers,
  currentSong, currentPlayingTime,
  mutex,                  \* who holds it, or Free
  pc,                     \* where each thread is
  message, to,            \* what each thread sends, and to whom next
  read,                   \* disconnectedUsers as a listener read it
  uncleared,              \* the listener's echoBuffer was not written yet
  inbox,                  \* words from each user that recv has not taken
  told,                   \* the last message to each user
  client, typed,          \* the users' programs; commands typed, in all
  reset                   \* the users whose connection is reset

shared   == <<clientsConnected, closedSockets, disconnectedUsers>>
music    == <<currentSong, currentPlayingTime, mutex>>
sending  == <<message, to, told>>
hearing  == <<read, uncleared, inbox>>
programs == <<client, typed, reset>>
vars == <<server, shared, music, pc, sending, hearing, programs>>

(* The slips this module is checked against.                               *)
FollowingNoRing(s)   == s + 1
TimeAfterChangeKept  == currentPlayingTime
SkippedSelf(t, u)    == closedSockets[u] \/ u = t
BothLeftThree(n)     == n > 2

Init ==
  /\ server = "up"
  /\ clientsConnected = 0 /\ closedSockets = [u \in Users |-> FALSE]
  /\ disconnectedUsers = 0
  /\ currentSong = Unset /\ currentPlayingTime = 0 /\ mutex = Free
  /\ pc = [t \in Threads |-> IF t = Player THEN "wait" ELSE "unborn"]
  /\ message = [t \in Threads |-> NoMessage]
  /\ to = [t \in Threads |-> 1]
  /\ told = [u \in Users |-> NoMessage]
  /\ read = [u \in Users |-> 0] /\ uncleared = [u \in Users |-> TRUE]
  /\ inbox = [u \in Users |-> <<>>]
  /\ client = [u \in Users |-> "outside"] /\ typed = 0
  /\ reset = {}

(* A thread of the running server is at l, and goes to l.                  *)
At(t, l)     == server = "up" /\ pc[t] = l
MoveTo(t, l) == pc' = [pc EXCEPT ![t] = l]

(* exit in any thread ends them all: when a resource is refused, or when   *)
(* the other end is gone; so do SIGPIPE and a pointer to nowhere.          *)
Ends(how) == /\ server' = how
             /\ UNCHANGED <<shared, music, pc, sending, hearing, programs>>
Fails == Ends("failed")
Dies  == Ends("died")

-------------------------------------------------------------------------------
(* sendMessageToClients: the message is put together once, then sent to    *)
(* each user whose socket was not closed when the loop came to it.  The    *)
(* message and the loop's index are gone when the function returns.        *)
Put(t, id, s) == /\ message' = [message EXCEPT ![t] = [id |-> id, song |-> s]]
                 /\ to' = [to EXCEPT ![t] = 1]

Skipped(t, u) == closedSockets[u]

Tell(t) ==
  /\ At(t, "tell")
  /\ IF to[t] > clientsConnected
     THEN /\ MoveTo(t, IF mutex = t THEN "leave" ELSE "loop")
          /\ to' = [to EXCEPT ![t] = 1]
          /\ message' = [message EXCEPT ![t] = NoMessage]
     ELSE /\ UNCHANGED message
          /\ IF Skipped(t, to[t])
             THEN to' = [to EXCEPT ![t] = @ + 1] /\ UNCHANGED pc
             ELSE MoveTo(t, "send") /\ UNCHANGED to
  /\ UNCHANGED <<server, shared, music, told, hearing, programs>>

Gone(u) == client[u] \in {"left", "killed"}

(* To a socket closed here send fails.  The first message to a program     *)
(* that is gone may be taken, but it resets the connection; the next fails.*)
Send(t) ==
  /\ At(t, "send")
  /\ LET u == to[t] IN
       \/ /\ pc[u] # "done" /\ u \notin reset
          /\ told' = [told EXCEPT ![u] = message[t]]
          /\ to' = [to EXCEPT ![t] = u + 1]
          /\ MoveTo(t, "tell")
          /\ reset' = IF Gone(u) THEN reset \cup {u} ELSE reset
          /\ UNCHANGED <<server, shared, music, message, hearing, client, typed>>
       \/ (pc[u] = "done" \/ Gone(u)) /\ Dies

-------------------------------------------------------------------------------
(* nextSong and prevSong.  Before playMusic the current song is no song.   *)
Following(s) == IF s = NumberOfSongs THEN 1 ELSE s + 1
Preceding(s) == IF s = 1 THEN NumberOfSongs ELSE s - 1

Change(t) ==
  /\ (At(t, "nextSong") \/ At(t, "prevSong")) /\ mutex = Free
  /\ \/ currentSong = Unset /\ Dies
     \/ /\ currentSong # Unset
        /\ mutex' = t
        /\ currentSong' = IF pc[t] = "nextSong" THEN Following(currentSong)
                                                ELSE Preceding(currentSong)
        /\ Put(t, t, currentSong')
        /\ MoveTo(t, "tell")
        /\ UNCHANGED <<server, shared, currentPlayingTime, told,
                       hearing, programs>>

TimeAfterChange == 0

Leave(t) ==
  /\ At(t, "leave")
  /\ currentPlayingTime' = TimeAfterChange
  /\ mutex' = Free
  /\ MoveTo(t, IF t = Player THEN "loop" ELSE "recv")
  /\ UNCHANGED <<server, shared, currentSong, sending, hearing, programs>>

withinCriticalArea == mutex # Free

-------------------------------------------------------------------------------
(* main and playMusic.                                                     *)
CreateListener ==
  /\ \/ At(Player, "wait") /\ clientsConnected = 2
     \/ At(Player, "create")
  /\ \/ /\ pc' = [pc EXCEPT ![to[Player]] = "recv",
                            ![Player] = IF to[Player] = 2 THEN "start"
                                                          ELSE "create"]
        /\ to' = [to EXCEPT ![Player] = @ + 1]
        /\ UNCHANGED <<server, shared, music, message, told, hearing,
                       programs>>
     \/ Fails

StartPlaying ==
  /\ At(Player, "start")
  /\ currentSong' = 1
  /\ MoveTo(Player, "open")
  /\ UNCHANGED <<server, shared, currentPlayingTime, mutex, sending,
                 hearing, programs>>

OpeningMessage ==
  /\ At(Player, "open")
  /\ Put(Player, Opening, currentSong)
  /\ MoveTo(Player, "tell")
  /\ UNCHANGED <<server, shared, music, told, hearing, programs>>

BothLeft(n) == n = 2

(* The head of the loop and withinCriticalArea are read, then the song.    *)
LoopTest ==
  /\ At(Player, "loop")
  /\ \/ BothLeft(disconnectedUsers) /\ MoveTo(Player, "join")
     \/ /\ ~BothLeft(disconnectedUsers) /\ ~withinCriticalArea
        /\ MoveTo(Player, "check")
  /\ UNCHANGED <<server, shared, music, sending, hearing, programs>>

IsOver == Duration[currentSong] < currentPlayingTime

Check ==
  /\ At(Player, "check")
  /\ MoveTo(Player, IF IsOver THEN "nextSong" ELSE "tick")
  /\ UNCHANGED <<server, shared, music, sending, hearing, programs>>

Tick ==
  /\ At(Player, "tick") /\ mutex = Free
  /\ currentPlayingTime' = currentPlayingTime + 1
  /\ MoveTo(Player, "loop")
  /\ UNCHANGED <<server, shared, currentSong, mutex, sending, hearing,
                 programs>>

(* The listeners are joined, then music.txt is read and written anew.      *)
Join ==
  /\ At(Player, "join") /\ \A u \in Users : pc[u] = "done"
  /\ \/ /\ server' = "updated"
        /\ UNCHANGED <<shared, music, pc, sending, hearing, programs>>
     \/ Fails

MainThread == \/ CreateListener \/ StartPlaying \/ OpeningMessage
              \/ LoopTest \/ Check \/ Tick \/ Join

(* That no socket can be had or bound shows as an accept that fails.       *)
Accept ==
  /\ server = "up" /\ clientsConnected < 2
  /\ client[clientsConnected + 1] # "outside"
  /\ \/ /\ clientsConnected' = clientsConnected + 1
        /\ UNCHANGED <<server, closedSockets, disconnectedUsers, music, pc,
                       sending, hearing, programs>>
     \/ Fails

-------------------------------------------------------------------------------
(* listenToClients.                                                        *)
Heard(u, n) ==
  IF n > 1 THEN {"garbled"}
  ELSE {Head(inbox[u])} \cup IF uncleared[u] THEN {"garbled"} ELSE {}

Receive(u) ==
  /\ At(u, "recv")
  /\ \E n \in 1..Len(inbox[u]) : \E word \in Heard(u, n) :
       /\ inbox' = [inbox EXCEPT ![u] = SubSeq(@, n + 1, Len(@))]
       /\ uncleared' = [uncleared EXCEPT ![u] = FALSE]
       /\ MoveTo(u, CASE word = "next" -> "nextSong"
                      [] word = "previous" -> "prevSong"
                      [] word = "exit" -> "exit"
                      [] word = "garbled" -> "recv")
  /\ UNCHANGED <<server, shared, music, sending, read, programs>>

(* At the end of the stream recv returns 0, and is called again for ever,  *)
(* or, when the connection is reset, it fails.                             *)
ReceiveFails(u) ==
  At(u, "recv") /\ inbox[u] = <<>> /\ Gone(u) /\ Dies

ReadCount(u) ==
  /\ At(u, "exit")
  /\ read' = [read EXCEPT ![u] = disconnectedUsers]
  /\ MoveTo(u, "count")
  /\ UNCHANGED <<server, shared, music, sending, uncleared, inbox,
                 programs>>

Count(u) ==
  /\ At(u, "count")
  /\ disconnectedUsers' = read[u] + 1
  /\ read' = [read EXCEPT ![u] = 0]
  /\ MoveTo(u, "flag")
  /\ UNCHANGED <<server, clientsConnected, closedSockets, music, sending,
                 uncleared, inbox, programs>>

Flag(u) ==
  /\ At(u, "flag")
  /\ closedSockets' = [closedSockets EXCEPT ![u] = TRUE]
  /\ MoveTo(u, "close")
  /\ UNCHANGED <<server, clientsConnected, disconnectedUsers, music,
                 sending, hearing, programs>>

Close(u) ==
  /\ At(u, "close")
  /\ MoveTo(u, "done")
  /\ UNCHANGED <<server, shared, music, sending, hearing, programs>>

Listener(u) == Receive(u) \/ ReadCount(u) \/ Count(u) \/ Flag(u) \/ Close(u)

-------------------------------------------------------------------------------
(* client.c.  After exit the socket stays open as long as the other thread *)
(* of the program is in recv; a program may also be killed.                *)
Connect(u) ==
  /\ client[u] = "outside" /\ (u = 2 => client[1] # "outside")
  /\ client' = [client EXCEPT ![u] = "connected"]
  /\ UNCHANGED <<inbox, typed>>

Type(u) ==
  /\ client[u] = "connected" /\ typed < MaxCommands
  /\ \E w \in {"next", "previous"} : inbox' = [inbox EXCEPT ![u] = Append(@, w)]
  /\ typed' = typed + 1
  /\ UNCHANGED client

Exit(u) ==
  /\ client[u] = "connected"
  /\ inbox' = [inbox EXCEPT ![u] = Append(@, "exit")]
  /\ client' = [client EXCEPT ![u] = "leaving"]
  /\ UNCHANGED typed

Closed(u) ==
  /\ \/ client[u] = "leaving" /\ client' = [client EXCEPT ![u] = "left"]
     \/ client[u] = "connected" /\ client' = [client EXCEPT ![u] = "killed"]
  /\ UNCHANGED <<inbox, typed>>

ClientProgram(u) ==
  /\ server = "up"
  /\ Connect(u) \/ Type(u) \/ Exit(u) \/ Closed(u)
  /\ UNCHANGED <<server, shared, music, pc, sending, read, uncleared, reset>>

-------------------------------------------------------------------------------
Changing(t) == Tell(t) \/ Send(t) \/ Leave(t)

Terminated == server # "up" /\ UNCHANGED vars

Next == \/ MainThread \/ Accept
        \/ \E u \in Users : Listener(u) \/ ReceiveFails(u) \/ ClientProgram(u)
        \/ \E t \in Threads : Change(t) \/ Changing(t)
        \/ Terminated

(* Every thread goes on.  The player sleeps for a second between two of    *)
(* its turns at the mutex, so that whoever waits for it gets it.           *)
Fairness ==
  /\ WF_vars(MainThread) /\ WF_vars(Accept)
  /\ \A u \in Users : WF_vars(Listener(u))
  /\ \A t \in Threads : SF_vars(Change(t)) /\ WF_vars(Changing(t))

Spec == Init /\ [][Next]_vars /\ Fairness

-------------------------------------------------------------------------------
Messages == [id : {Opening} \cup Threads, song : {Unset} \cup 1..NumberOfSongs]

TypeOK ==
  /\ server \in {"up", "failed", "died", "updated"}
  /\ clientsConnected \in 0..2 /\ closedSockets \in [Users -> BOOLEAN]
  /\ disconnectedUsers \in 0..2
  /\ currentSong \in {Unset} \cup 1..NumberOfSongs
  /\ currentPlayingTime \in Nat /\ mutex \in {Free} \cup Threads
  /\ pc \in [Threads -> {"wait", "create", "start", "open", "loop", "check",
                          "tick", "join", "unborn", "recv", "exit", "count",
                          "flag", "close", "done", "nextSong", "prevSong",
                          "tell", "send", "leave"}]
  /\ message \in [Threads -> Messages] /\ to \in [Threads -> 1..3]
  /\ told \in [Users -> Messages]
  /\ read \in [Users -> 0..1] /\ uncleared \in [Users -> BOOLEAN]
  /\ inbox \in [Users -> Seq({"next", "previous", "exit"})]
  /\ client \in [Users -> {"outside", "connected", "leaving", "left", "killed"}]
  /\ typed \in 0..MaxCommands /\ reset \subseteq Users

(* The variables have their types, and however the player's look at the    *)
(* clock outside the mutex falls between the steps of a change, no song is *)
(* at more than one second over its duration when no change is under way:  *)
(* it never runs on with the clock of another.  (server.c:344-360, 402-430)*)
NeverOverplayed ==
  /\ TypeOK
  /\ mutex = Free /\ currentSong # Unset =>
       currentPlayingTime <= Duration[currentSong] + 1

(* The look may show the clock of one song beside the duration of another, *)
(* or be out of date when the mutex is taken, and the player then leaves a *)
(* song that is not over.  It does so only before the first second of it:  *)
(* what it skips is a song that was just asked for, never one that has     *)
(* been heard.  (server.c:346-360, 402-430)                                *)
SkipsOnlyUnheard ==
  At(Player, "nextSong") /\ mutex = Free =>
    IsOver \/ currentPlayingTime = 0

(* When no change is under way, every user whose socket is open was last   *)
(* told of the song that is playing, or last got the opening message,      *)
(* which alone is sent without the mutex.  (342, 411, 426, 434-454)        *)
ToldCurrent ==
  mutex = Free =>
    \A u \in Users : \/ closedSockets[u]
                     \/ told[u].song = currentSong
                     \/ told[u].id = Opening

(* Once two users are counted as disconnected, the server ends, and no     *)
(* thread of it is left waiting.  (104-125, 344)                           *)
StopsWhenCounted == disconnectedUsers = 2 ~> server # "up"

(* "music.txt file will be updated when both of clients disconnect"        *)
(* (README.txt:5), at least if no resource is refused.                     *)
UpdatedWhenBothDisconnect ==
  (\A u \in Users : client[u] \in {"leaving", "left"}) ~>
    server \in {"updated", "failed"}

===============================================================================
