------------------------- MODULE MusicServer_proofs -------------------------
(***************************************************************************)
(* What MusicServer guarantees for every list of songs and any number of   *)
(* commands: songs end in time and are not left half-way by the player,    *)
(* the users know the song; and, of the times the server keeps in          *)
(* music.txt, that no run and no crash between two writes loses any.       *)
(***************************************************************************)
EXTENDS MusicServer, MusicTimes, TLAPS

(* Where the threads can be.  A change is under way from the moment its    *)
(* thread holds the mutex.                                                 *)
Starting == {"wait", "create", "start"}
Sending  == {"tell", "send"}
Changes  == Sending \cup {"leave"}
Left     == {"flag", "close", "done"}

Places ==
  /\ pc[Player] \in Starting \cup Changes
                      \cup {"open", "loop", "check", "tick", "nextSong",
                            "join"}
  /\ \A u \in Users : pc[u] \in Left \cup Changes
       \cup {"unborn", "recv", "exit", "count", "nextSong", "prevSong"}

(* No song plays, and nobody listens, before the player starts.            *)
StartUp ==
  /\ currentSong = Unset <=> pc[Player] \in Starting
  /\ currentSong = Unset => /\ mutex = Free /\ currentPlayingTime = 0
                            /\ \A u \in Users : told[u].id = Opening
  /\ pc[Player] = "wait" => to[Player] = 1 /\ \A u \in Users : pc[u] = "unborn"
  /\ pc[Player] = "create" => to[Player] = 2 /\ pc[2] = "unborn"
  /\ pc[Player] # "wait" => clientsConnected = 2

(* A thread tells of a change only as the holder of the mutex; all others  *)
(* that send are the player with the opening message.                      *)
Holding ==
  /\ mutex # Free => pc[mutex] \in Changes
  /\ \A u \in Users : pc[u] \in Changes => mutex = u
  /\ pc[Player] = "leave" => mutex = Player
  /\ pc[Player] \in Sending /\ mutex # Player => message[Player].id = Opening
  /\ \A t \in Threads : pc[t] = "send" => to[t] \in Users

(* The count of the users who left is read and written in two steps: it    *)
(* can lose one of two, but it does not count a user twice.                *)
Counting ==
  /\ (\A u \in Users : pc[u] \notin Left) => disconnectedUsers = 0
  /\ (\E u \in Users : pc[u] \notin Left) => disconnectedUsers <= 1
  /\ \A u, v \in Users :
       u # v /\ pc[u] = "count" /\ pc[v] \notin Left => read[u] = 0

(* The player may look at the clock of one song and tick for another, or   *)
(* leave another, but then the other's clock has just started.             *)
Clock ==
  mutex = Free =>
    /\ currentSong # Unset => currentPlayingTime <= Duration[currentSong] + 1
    /\ pc[Player] = "tick" => currentPlayingTime <= Duration[currentSong]
    /\ pc[Player] = "nextSong" => IsOver \/ currentPlayingTime = 0

(* A user knows the song that is playing, or is gone, or has only just     *)
(* been welcomed.                                                          *)
Knows(u) == \/ closedSockets[u]
            \/ told[u].song = currentSong
            \/ told[u].id = Opening

(* During a change everyone the message has been sent to knows.            *)
Telling ==
  /\ mutex # Free /\ pc[mutex] \in Sending =>
       /\ message[mutex].song = currentSong
       /\ \A u \in Users : u < to[mutex] => Knows(u)
  /\ mutex # Free /\ pc[mutex] = "leave" => \A u \in Users : Knows(u)
  /\ mutex = Free => \A u \in Users : Knows(u)

Inv == /\ TypeOK /\ Places /\ StartUp /\ Holding
       /\ Counting /\ Clock /\ Telling

-------------------------------------------------------------------------------
(* The numbers that stand for threads and for nobody, and the places, are  *)
(* read as what they are from here on.                                     *)
USE DEF Users, Threads, Player, Free, Unset, Opening, Messages,
        Starting, Sending, Changes, Left

(* The inductive step, one lemma for each action.                          *)

(* A change starts with the mutex, a new song and a message about it.      *)
LEMMA ChangeInv ==
  ASSUME Inv, NEW t \in Threads, Change(t), ~Dies
  PROVE  Inv'
<1> USE DEF Inv
<1>1. TypeOK'
  <2>1. /\ currentSong # Unset /\ mutex' = t
        /\ currentSong' \in {Following(currentSong), Preceding(currentSong)}
        /\ message' = [message EXCEPT ![t] = [id |-> t, song |-> currentSong']]
        /\ to' = [to EXCEPT ![t] = 1]
        /\ pc' = [pc EXCEPT ![t] = "tell"]
        /\ UNCHANGED <<server, shared, currentPlayingTime, told, hearing,
                        programs>>
    BY DEF Change, Put, MoveTo
  <2>2. currentSong' \in 1..NumberOfSongs
    BY <2>1, SongsAssumption DEF TypeOK, Following, Preceding
  <2> QED BY <2>1, <2>2 DEF TypeOK, shared, hearing, programs
<1> USE DEF Change, At, Following, Preceding, Put, MoveTo, shared, hearing,
            programs, TypeOK, Places
<1>2. Places'
  OBVIOUS
<1>3. StartUp'
  BY DEF StartUp
<1>4. Holding'
  BY DEF Holding, StartUp
<1>5. Counting'
  BY DEF Counting
<1>6. Clock'
  BY SongsAssumption DEF Clock, StartUp
<1>7. Telling'
  BY DEF Telling, StartUp, Holding, Knows
<1> QED BY <1>1, <1>2, <1>3, <1>4, <1>5, <1>6, <1>7

(* The loop over the users passes only who is gone, or goes on to send.    *)
LEMMA TellInv ==
  ASSUME Inv, NEW t \in Threads, Tell(t)
  PROVE  Inv'
<1> USE DEF Inv, Tell, At, MoveTo, NoMessage, Skipped, shared, music, hearing,
            programs, TypeOK
<1>1. TypeOK'
  OBVIOUS
<1>2. Places'
  <2>1. \E l \in {"tell", "send", IF mutex = t THEN "leave" ELSE "loop"} :
          pc' = [pc EXCEPT ![t] = l]
    <3>1. CASE UNCHANGED pc
      BY <3>1 DEF Tell, At, TypeOK
    <3>2. CASE ~UNCHANGED pc
      BY <3>2 DEF Tell, At, MoveTo
    <3> QED BY <3>1, <3>2
  <2>2. t \in Users => mutex = t
    BY DEF Holding, Tell, At
  <2> QED BY <2>1, <2>2 DEF Places, TypeOK
<1>3. StartUp'
  BY DEF StartUp, Places
<1>4. Holding'
  BY DEF Holding, StartUp, Places
<1>5. Counting'
  BY DEF Counting, Places
<1>6. Clock'
  BY DEF Clock, IsOver, StartUp, Places
<1>7. Telling'
  BY DEF Telling, StartUp, Holding, Places, Knows
<1> QED BY <1>1, <1>2, <1>3, <1>4, <1>5, <1>6, <1>7

(* What is sent under the mutex is the song that is playing.               *)
LEMMA SendInv ==
  ASSUME Inv, NEW t \in Threads, Send(t), ~Dies
  PROVE  Inv'
<1> USE DEF Inv
<1>1. /\ pc[t] = "send" /\ to[t] \in Users /\ to[t] \in 1..2
      /\ told' = [told EXCEPT ![to[t]] = message[t]]
      /\ to' = [to EXCEPT ![t] = to[t] + 1]
      /\ pc' = [pc EXCEPT ![t] = "tell"]
      /\ reset' = reset \/ reset' = reset \cup {to[t]}
      /\ UNCHANGED <<server, shared, music, message, hearing, client, typed>>
  BY DEF Send, At, MoveTo, Holding
<1>2. TypeOK'
  <2> HIDE DEF Messages, Users, Threads, Player, Free, Unset, Opening
  <2>1. message[t] \in Messages
    BY DEF TypeOK
  <2> QED BY <1>1, <2>1 DEF TypeOK, shared, music, hearing
<1> USE DEF Send, At, MoveTo, Gone, shared, music, hearing, TypeOK, Places
<1>3. Places'
  OBVIOUS
<1>4. StartUp'
  <2>1. currentSong = Unset => message[t].id = Opening /\ t = Player
    BY <1>1 DEF StartUp, Holding
  <2>2. UNCHANGED <<currentSong, currentPlayingTime, mutex, clientsConnected>>
    BY <1>1 DEF shared, music
  <2>3. pc[Player] \in Starting <=> pc'[Player] \in Starting
    BY <1>1 DEF TypeOK
  <2> QED BY <1>1, <2>1, <2>2, <2>3 DEF StartUp, TypeOK
<1>5. Holding'
  BY DEF Holding, StartUp
<1>6. Counting'
  BY DEF Counting
<1>7. Clock'
  BY DEF Clock, IsOver, StartUp
<1>8. Telling'
  BY DEF Telling, StartUp, Holding, Knows
<1> QED BY <1>2, <1>3, <1>4, <1>5, <1>6, <1>7, <1>8

(* The mutex is given back with the clock at zero and everyone informed.   *)
LEMMA LeaveInv ==
  ASSUME Inv, NEW t \in Threads, Leave(t)
  PROVE  Inv'
<1> USE DEF Inv, Leave, At, TimeAfterChange, MoveTo, shared, sending, hearing,
            programs, TypeOK
<1>1. TypeOK'
  BY SongsAssumption
<1>2. Places'
  BY DEF Places
<1>3. StartUp'
  BY DEF StartUp, Places
<1>4. Holding'
  BY DEF Holding, StartUp, Places
<1>5. Counting'
  BY DEF Counting, Places
<1>6. Clock'
  BY SongsAssumption DEF Clock, StartUp, Places
<1>7. Telling'
  BY DEF Telling, StartUp, Holding, Places, Knows
<1> QED BY <1>1, <1>2, <1>3, <1>4, <1>5, <1>6, <1>7

(* The listeners are created one after the other, before there is a song.  *)
LEMMA CreateListenerInv ==
  ASSUME Inv, CreateListener, ~Fails
  PROVE  Inv'
<1> USE DEF Inv
<1>1. TypeOK'
  <2>1. /\ to[Player] \in Users
        /\ to' = [to EXCEPT ![Player] = to[Player] + 1]
        /\ pc' = [pc EXCEPT ![to[Player]] = "recv",
                            ![Player] = IF to[Player] = 2 THEN "start"
                                                          ELSE "create"]
        /\ UNCHANGED <<server, shared, music, message, told, hearing,
                        programs>>
    BY DEF CreateListener, At, StartUp
  <2> QED BY <2>1 DEF TypeOK, shared, music, hearing, programs
<1> USE DEF CreateListener, At, shared, music, hearing, programs, TypeOK,
            Places
<1>2. Places'
  OBVIOUS
<1>3. StartUp'
  BY DEF StartUp
<1>4. Holding'
  BY DEF Holding, StartUp
<1>5. Counting'
  BY DEF Counting, StartUp
<1>6. Clock'
  BY DEF Clock, StartUp
<1>7. Telling'
  BY DEF Telling, StartUp, Holding, Knows
<1> QED BY <1>1, <1>2, <1>3, <1>4, <1>5, <1>6, <1>7

(* The first song starts before anybody has been told anything.            *)
LEMMA StartPlayingInv ==
  ASSUME Inv, StartPlaying
  PROVE  Inv'
<1> USE DEF Inv, StartPlaying, At, MoveTo, shared, sending, hearing, programs,
            TypeOK
<1>1. TypeOK'
  BY SongsAssumption
<1>2. Places'
  BY DEF Places
<1>3. StartUp'
  BY DEF StartUp, Places
<1>4. Holding'
  BY DEF Holding, StartUp, Places
<1>5. Counting'
  BY DEF Counting, Places
<1>6. Clock'
  BY SongsAssumption DEF Clock, StartUp, Places
<1>7. Telling'
  BY DEF Telling, StartUp, Holding, Places, Knows
<1> QED BY <1>1, <1>2, <1>3, <1>4, <1>5, <1>6, <1>7

(* The opening message names the song, but is sent without the mutex.      *)
LEMMA OpeningMessageInv ==
  ASSUME Inv, OpeningMessage
  PROVE  Inv'
<1> USE DEF Inv, OpeningMessage, At, Put, MoveTo, shared, music, hearing,
            programs, TypeOK
<1>1. TypeOK'
  OBVIOUS
<1>2. Places'
  BY DEF Places
<1>3. StartUp'
  BY DEF StartUp, Places
<1>4. Holding'
  BY DEF Holding, StartUp, Places
<1>5. Counting'
  BY DEF Counting, Places
<1>6. Clock'
  BY DEF Clock, StartUp, Places
<1>7. Telling'
  BY DEF Telling, StartUp, Holding, Places, Knows
<1> QED BY <1>1, <1>2, <1>3, <1>4, <1>5, <1>6, <1>7

(* The player's look at the mutex, and then at the clock, binds nobody.    *)
LEMMA LoopTestInv ==
  ASSUME Inv, LoopTest
  PROVE  Inv'
<1> USE DEF Inv, LoopTest, At, BothLeft, MoveTo, withinCriticalArea, shared,
            music, sending, hearing, programs, TypeOK
<1>1. TypeOK'
  OBVIOUS
<1>2. Places'
  BY DEF Places
<1>3. StartUp'
  BY DEF StartUp, Places
<1>4. Holding'
  BY DEF Holding, StartUp, Places
<1>5. Counting'
  BY DEF Counting, Places
<1>6. Clock'
  BY DEF Clock, StartUp, Places
<1>7. Telling'
  BY DEF Telling, StartUp, Holding, Places, Knows
<1> QED BY <1>1, <1>2, <1>3, <1>4, <1>5, <1>6, <1>7

LEMMA CheckInv ==
  ASSUME Inv, Check
  PROVE  Inv'
<1> USE DEF Inv, Check, At, MoveTo, IsOver, shared, music, sending, hearing,
            programs, TypeOK
<1>1. TypeOK'
  BY SongsAssumption
<1>2. Places'
  BY DEF Places
<1>3. StartUp'
  BY DEF StartUp, Places
<1>4. Holding'
  BY DEF Holding, StartUp, Places
<1>5. Counting'
  BY DEF Counting, Places
<1>6. Clock'
  BY SongsAssumption DEF Clock, StartUp, Places
<1>7. Telling'
  BY DEF Telling, StartUp, Holding, Places, Knows
<1> QED BY <1>1, <1>2, <1>3, <1>4, <1>5, <1>6, <1>7

(* A second passes only when the clock had not passed the duration.        *)
LEMMA TickInv ==
  ASSUME Inv, Tick
  PROVE  Inv'
<1> USE DEF Inv, Tick, At, MoveTo, shared, sending, hearing, programs, TypeOK
<1>1. TypeOK'
  BY SongsAssumption
<1>2. Places'
  BY DEF Places
<1>3. StartUp'
  BY DEF StartUp, Places
<1>4. Holding'
  BY DEF Holding, StartUp, Places
<1>5. Counting'
  BY DEF Counting, Places
<1>6. Clock'
  BY SongsAssumption DEF Clock, StartUp, Places
<1>7. Telling'
  BY DEF Telling, StartUp, Holding, Places, Knows
<1> QED BY <1>1, <1>2, <1>3, <1>4, <1>5, <1>6, <1>7

(* The end changes no variable but the state of the server.                *)
LEMMA JoinInv ==
  ASSUME Inv, Join, ~Fails
  PROVE  Inv'
<1> USE DEF Inv, Join, At, shared, music, sending, hearing, programs, TypeOK
<1>1. TypeOK'
  OBVIOUS
<1>2. Places'
  BY DEF Places
<1>3. StartUp'
  BY DEF StartUp, Places
<1>4. Holding'
  BY DEF Holding, StartUp, Places
<1>5. Counting'
  BY DEF Counting, Places
<1>6. Clock'
  BY DEF Clock, StartUp, Places
<1>7. Telling'
  BY DEF Telling, StartUp, Holding, Places, Knows
<1> QED BY <1>1, <1>2, <1>3, <1>4, <1>5, <1>6, <1>7

(* Once both users are connected the number never changes.                 *)
LEMMA AcceptInv ==
  ASSUME Inv, Accept, ~Fails
  PROVE  Inv'
<1> USE DEF Inv
<1>1. TypeOK'
  <2>1. /\ clientsConnected < 2 /\ clientsConnected' = clientsConnected + 1
        /\ UNCHANGED <<server, closedSockets, disconnectedUsers, music, pc,
                       sending, hearing, programs>>
    BY DEF Accept
  <2> QED BY <2>1 DEF TypeOK, music, sending, hearing, programs
<1> USE DEF Accept, music, sending, hearing, programs, TypeOK, Places
<1>2. Places'
  OBVIOUS
<1>3. StartUp'
  BY DEF StartUp
<1>4. Holding'
  BY DEF Holding, StartUp
<1>5. Counting'
  BY DEF Counting
<1>6. Clock'
  BY DEF Clock, StartUp
<1>7. Telling'
  BY DEF Telling, StartUp, Holding, Knows
<1> QED BY <1>1, <1>2, <1>3, <1>4, <1>5, <1>6, <1>7

(* A listener obeys, or waits for more.                                    *)
LEMMA ReceiveInv ==
  ASSUME Inv, NEW u \in Users, Receive(u)
  PROVE  Inv'
<1> USE DEF Inv
<1>1. TypeOK'
  <2>1. PICK n \in 1..Len(inbox[u]) :
          inbox' = [inbox EXCEPT ![u] = SubSeq(@, n + 1, Len(@))]
    BY DEF Receive
  <2>2. inbox[u] \in Seq({"next", "previous", "exit"})
    BY DEF TypeOK
  <2>3. SubSeq(inbox[u], n + 1, Len(inbox[u]))
          \in Seq({"next", "previous", "exit"})
    BY <2>1, <2>2
  <2>4. inbox' \in [Users -> Seq({"next", "previous", "exit"})]
    BY <2>1, <2>3 DEF TypeOK
  <2>5. \E l \in {"nextSong", "prevSong", "exit", "recv"} :
          pc' = [pc EXCEPT ![u] = l]
    <3>1. Head(inbox[u]) \in {"next", "previous", "exit"}
      BY <2>1, <2>2
    <3>2. \A k \in 1..Len(inbox[u]) :
            Heard(u, k) \subseteq {"next", "previous", "exit", "garbled"}
      BY <3>1 DEF Heard
    <3>3. \E word \in {"next", "previous", "exit", "garbled"} :
            MoveTo(u, CASE word = "next" -> "nextSong"
                        [] word = "previous" -> "prevSong"
                        [] word = "exit" -> "exit"
                        [] word = "garbled" -> "recv")
      BY <3>2 DEF Receive
    <3> QED BY <3>3 DEF MoveTo
  <2>6. pc' \in [Threads -> {"wait", "create", "start", "open", "loop", "check",
                            "tick", "join", "unborn", "recv", "exit", "count",
                            "flag", "close", "done", "nextSong", "prevSong",
                            "tell", "send", "leave"}]
    BY <2>5 DEF TypeOK
  <2>7. /\ uncleared' = [uncleared EXCEPT ![u] = FALSE]
        /\ UNCHANGED <<server, shared, music, sending, read, programs>>
    BY DEF Receive
  <2> QED BY <2>4, <2>6, <2>7 DEF TypeOK, shared, music, sending, programs
<1> USE DEF Receive, At, Heard, MoveTo, shared, music, sending, programs,
            TypeOK, Places
<1>2. Places'
  OBVIOUS
<1>3. StartUp'
  BY DEF StartUp
<1>4. Holding'
  BY DEF Holding, StartUp
<1>5. Counting'
  BY DEF Counting
<1>6. Clock'
  BY DEF Clock, IsOver, StartUp
<1>7. Telling'
  BY DEF Telling, StartUp, Holding, Knows
<1> QED BY <1>1, <1>2, <1>3, <1>4, <1>5, <1>6, <1>7

(* Who reads the count before the other has counted reads zero.            *)
LEMMA ReadCountInv ==
  ASSUME Inv, NEW u \in Users, ReadCount(u)
  PROVE  Inv'
<1> USE DEF Inv
<1>1. TypeOK'
  <2>1. disconnectedUsers \in 0..1
    <3>1. pc[u] \notin Left
      BY DEF ReadCount, At
    <3> QED BY <3>1 DEF Counting, TypeOK
  <2> QED BY <2>1
             DEF ReadCount, MoveTo, TypeOK, shared, music, sending, programs
<1> USE DEF ReadCount, At, MoveTo, shared, music, sending, programs, TypeOK,
            Places
<1>2. Places'
  OBVIOUS
<1>3. StartUp'
  BY DEF StartUp
<1>4. Holding'
  BY DEF Holding, StartUp
<1>5. Counting'
  BY DEF Counting
<1>6. Clock'
  BY DEF Clock, IsOver, StartUp
<1>7. Telling'
  BY DEF Telling, StartUp, Holding, Knows
<1> QED BY <1>1, <1>2, <1>3, <1>4, <1>5, <1>6, <1>7

LEMMA CountInv ==
  ASSUME Inv, NEW u \in Users, Count(u)
  PROVE  Inv'
<1> USE DEF Inv, Count, At, MoveTo, music, sending, programs, TypeOK
<1>1. TypeOK'
  OBVIOUS
<1>2. Places'
  BY DEF Places
<1>3. StartUp'
  BY DEF StartUp, Places
<1>4. Holding'
  BY DEF Holding, StartUp, Places
<1>5. Counting'
  BY DEF Counting, Places
<1>6. Clock'
  BY DEF Clock, IsOver, StartUp, Places
<1>7. Telling'
  BY DEF Telling, StartUp, Holding, Places, Knows
<1> QED BY <1>1, <1>2, <1>3, <1>4, <1>5, <1>6, <1>7

(* A closed socket stays closed.                                           *)
LEMMA FlagInv ==
  ASSUME Inv, NEW u \in Users, Flag(u)
  PROVE  Inv'
<1> USE DEF Inv, Flag, At, MoveTo, music, sending, hearing, programs, TypeOK
<1>1. TypeOK'
  OBVIOUS
<1>2. Places'
  BY DEF Places
<1>3. StartUp'
  BY DEF StartUp, Places
<1>4. Holding'
  BY DEF Holding, StartUp, Places
<1>5. Counting'
  BY DEF Counting, Places
<1>6. Clock'
  BY DEF Clock, IsOver, StartUp, Places
<1>7. Telling'
  BY DEF Telling, StartUp, Holding, Places, Knows
<1> QED BY <1>1, <1>2, <1>3, <1>4, <1>5, <1>6, <1>7

LEMMA CloseInv ==
  ASSUME Inv, NEW u \in Users, Close(u)
  PROVE  Inv'
<1> USE DEF Inv, Close, At, MoveTo, shared, music, sending, hearing, programs,
            TypeOK
<1>1. TypeOK'
  OBVIOUS
<1>2. Places'
  BY DEF Places
<1>3. StartUp'
  BY DEF StartUp, Places
<1>4. Holding'
  BY DEF Holding, StartUp, Places
<1>5. Counting'
  BY DEF Counting, Places
<1>6. Clock'
  BY DEF Clock, IsOver, StartUp, Places
<1>7. Telling'
  BY DEF Telling, StartUp, Holding, Places, Knows
<1> QED BY <1>1, <1>2, <1>3, <1>4, <1>5, <1>6, <1>7

(* The users' programs touch nothing the server keeps.                     *)
LEMMA ClientProgramInv ==
  ASSUME Inv, NEW u \in Users, ClientProgram(u)
  PROVE  Inv'
<1> USE DEF Inv
<1>1. TypeOK'
  <2>1. client' \in [Users -> {"outside", "connected", "leaving", "left",
                               "killed"}]
    <3>1. CASE Connect(u)
      BY <3>1 DEF Connect, TypeOK
    <3>2. CASE Type(u)
      BY <3>2 DEF Type, TypeOK
    <3>3. CASE Exit(u)
      BY <3>3 DEF Exit, TypeOK
    <3>4. CASE Closed(u)
      BY <3>4 DEF Closed, TypeOK
    <3> QED BY <3>1, <3>2, <3>3, <3>4 DEF ClientProgram
  <2>2. typed' \in 0..MaxCommands
    <3>1. typed' = typed \/ (typed < MaxCommands /\ typed' = typed + 1)
      <4>1. Type(u) => typed < MaxCommands /\ typed' = typed + 1
        BY DEF Type
      <4>2. Connect(u) \/ Exit(u) \/ Closed(u) => typed' = typed
        BY DEF Connect, Exit, Closed
      <4> QED BY <4>1, <4>2 DEF ClientProgram
    <3>2. typed \in 0..MaxCommands
      BY DEF TypeOK
    <3> QED BY <3>1, <3>2, MaxCommandsAssumption
  <2>3. inbox' \in [Users -> Seq({"next", "previous", "exit"})]
    <3>1. CASE UNCHANGED inbox
      BY <3>1 DEF TypeOK
    <3>2. CASE \E w \in {"next", "previous", "exit"} :
                 inbox' = [inbox EXCEPT ![u] = Append(@, w)]
      <4>1. inbox[u] \in Seq({"next", "previous", "exit"})
        BY DEF TypeOK
      <4>2. \A w \in {"next", "previous", "exit"} :
              Append(inbox[u], w) \in Seq({"next", "previous", "exit"})
        BY <4>1
      <4> QED BY <3>2, <4>2 DEF TypeOK
    <3> QED BY <3>1, <3>2 DEF ClientProgram, Connect, Type, Exit, Closed
  <2> QED BY <2>1, <2>2, <2>3
          DEF ClientProgram, TypeOK, shared, music, sending
<1> USE DEF ClientProgram, Connect, Type, Exit, Closed, shared, music,
            sending, TypeOK, Places
<1>2. Places'
  OBVIOUS
<1>3. StartUp'
  BY DEF StartUp
<1>4. Holding'
  BY DEF Holding, StartUp
<1>5. Counting'
  BY DEF Counting
<1>6. Clock'
  BY DEF Clock, IsOver, StartUp
<1>7. Telling'
  BY DEF Telling, StartUp, Holding, Knows
<1> QED BY <1>1, <1>2, <1>3, <1>4, <1>5, <1>6, <1>7

(* A server that has ended keeps the state it ended in.                    *)
LEMMA EndsInv ==
  ASSUME Inv, NEW how \in {"failed", "died"}, Ends(how)
  PROVE  Inv'
<1>1. UNCHANGED <<clientsConnected, closedSockets, disconnectedUsers,
                  currentSong, currentPlayingTime, mutex, pc, message, to,
                  told, read, uncleared, inbox, client, typed, reset>>
      /\ server' = how
  BY DEF Ends, shared, music, sending, hearing, programs
<1> QED BY <1>1 DEF Inv, TypeOK, Places, StartUp, Holding, Counting, Clock, IsOver,
                    Telling, Knows

(* Nobody is connected, nothing plays, and no thread but the main one is.  *)
LEMMA InitInv == Init => Inv
<1> SUFFICES ASSUME Init PROVE Inv
  OBVIOUS
<1>1. TypeOK
  BY MaxCommandsAssumption DEF Init, TypeOK, NoMessage
<1>2. Places /\ StartUp /\ Holding
  BY DEF Init, Places, StartUp, Holding, NoMessage
<1>3. Counting /\ Clock /\ Telling
  BY DEF Init, Counting, Clock, Telling, Knows, NoMessage
<1> QED BY <1>1, <1>2, <1>3 DEF Inv

(* The invariant is inductive.                                             *)
LEMMA StepInv == Inv /\ [Next]_vars => Inv'
<1> SUFFICES ASSUME Inv, [Next]_vars PROVE Inv'
  OBVIOUS
<1>1. CASE Fails \/ Dies
  BY <1>1, EndsInv DEF Fails, Dies
<1>2. CASE MainThread \/ Accept
  BY <1>1, <1>2, CreateListenerInv, StartPlayingInv, OpeningMessageInv,
     LoopTestInv, CheckInv, TickInv, JoinInv, AcceptInv DEF MainThread
<1>3. CASE \E u \in Users : Listener(u) \/ ReceiveFails(u) \/ ClientProgram(u)
  BY <1>1, <1>3, ReceiveInv, ReadCountInv, CountInv, FlagInv, CloseInv,
     ClientProgramInv DEF Listener, ReceiveFails
<1>4. CASE \E t \in Threads : Change(t) \/ Changing(t)
  BY <1>1, <1>4, ChangeInv, TellInv, SendInv, LeaveInv DEF Changing
<1>5. CASE UNCHANGED vars
  <2>1. UNCHANGED <<server, clientsConnected, closedSockets,
                    disconnectedUsers, currentSong, currentPlayingTime, mutex,
                    pc, message, to, told, read, uncleared, inbox, client,
                    typed, reset>>
    BY <1>5 DEF vars, shared, music, sending, hearing, programs
  <2> QED BY <2>1 DEF Inv, TypeOK, Places, StartUp, Holding, Counting, Clock, IsOver,
                      Telling, Knows
<1> QED BY <1>2, <1>3, <1>4, <1>5 DEF Next, Terminated

(* The invariant holds in every reachable state of the server.             *)
THEOREM Invariance == Spec => []Inv
BY InitInv, StepInv, PTL DEF Spec

(* However the player's look at the clock falls between the steps of a     *)
(* change, no song's clock passes its duration by more than a second; the  *)
(* counters and indices of the server stay in their ranges.                *)
THEOREM SongsEnd == Spec => []NeverOverplayed
<1>1. Inv => NeverOverplayed
  BY DEF Inv, Clock, NeverOverplayed
<1> QED BY <1>1, Invariance, PTL

(* A song that is not over is left by the player only when nobody has      *)
(* heard a second of it, wherever its look at the clock fell.              *)
THEOREM LeftUnheard == Spec => []SkipsOnlyUnheard
<1>1. Inv => SkipsOnlyUnheard
  BY DEF Inv, Clock, SkipsOnlyUnheard, At
<1> QED BY <1>1, Invariance, PTL

(* When no change is under way every user whose socket is open knows the   *)
(* song, or has been told nothing since the opening message.               *)
THEOREM UsersKnow == Spec => []ToldCurrent
<1>1. Inv => ToldCurrent
  BY DEF Inv, Telling, Knows, ToldCurrent
<1> QED BY <1>1, Invariance, PTL

-------------------------------------------------------------------------------
(* Of music.txt: a line per name, with the times of the runs so far.       *)
LinesRight ==
  /\ music_txt \in Seq(Names \X Nat)
  /\ \A j, k \in 1..Len(music_txt) : music_txt[j][1] = music_txt[k][1] => j = k
  /\ \A k \in 1..Len(music_txt) : music_txt[k][2] = credit[music_txt[k][1]]
  /\ \A n \in Names : credit[n] > 0 => \E k \in 1..Len(music_txt) : music_txt[k][1] = n

(* The times in the song list while n lines have been added.               *)
AddedUpTo(n) ==
  \A i \in 1..Len(songs) :
    total[i] = heard[i] + IF \E k \in 1..n : music_txt[k][1] = songs[i]
                          THEN credit[songs[i]] ELSE 0

(* The song list is the playlist, the song is heard in this run only.      *)
ListRight ==
  /\ songs \in Seq(Names) /\ playlist = songs /\ ~Times!NamedTwice(songs)
  /\ heard \in [1..Len(songs) -> Nat] /\ total \in [1..Len(songs) -> Nat]

TimesInv ==
  /\ doing \in {"off", "playing", "reading", "writing"}
  /\ clean /\ ~twice =>
       /\ credit \in [Names -> Nat]
       /\ ListRight
       /\ doing # "writing" /\ music_txt # Times!Missing => LinesRight
       /\ doing = "playing" => total = heard
       /\ doing = "reading" => /\ music_txt # Times!Missing
                               /\ line \in 0..Len(music_txt) /\ AddedUpTo(line)
       /\ doing = "writing" => /\ music_txt = <<>>
                               /\ \A i \in 1..Len(songs) :
                                    total[i] = heard[i] + credit[songs[i]]
LEMMA TimesInit == Times!Init => TimesInv
<1> SUFFICES ASSUME Times!Init PROVE TimesInv
  OBVIOUS
<1>1. CASE music_txt = Times!Missing
  BY <1>1 DEF Times!Init, TimesInv, ListRight, Times!NamedTwice
<1>2. CASE music_txt # Times!Missing
  <2>1. PICK p \in Times!Playlists : /\ ~Times!NamedTwice(p)
                                    /\ music_txt = [k \in 1..Len(p) |-> <<p[k], 0>>]
    BY <1>2 DEF Times!Init
  <2>2. p \in Seq(Names)
    BY <2>1, BoundsAssumption DEF Times!Playlists
  <2>3. LinesRight
    BY <2>1, <2>2 DEF Times!Init, LinesRight, Times!NamedTwice
  <2> QED BY <2>3 DEF Times!Init, TimesInv, ListRight, Times!NamedTwice
<1> QED BY <1>1, <1>2

LEMMA StartKeepsTimes ==
  ASSUME TimesInv, NEW list \in Times!Playlists, Times!Start(list)
  PROVE  TimesInv'
<1>1. list \in Seq(Names)
  BY BoundsAssumption DEF Times!Playlists
<1>2. CASE list = <<>>
  BY <1>2 DEF TimesInv, Times!Start, LinesRight, ListRight
<1>3. CASE list # <<>>
  <2> SUFFICES ASSUME clean', ~twice' PROVE TimesInv'
    BY <1>3 DEF TimesInv, Times!Start
  <2>1. /\ clean /\ ~twice /\ ~Times!NamedTwice(list) /\ doing = "off"
        /\ UNCHANGED <<music_txt, credit>> /\ doing' = "playing"
        /\ total' = [i \in 1..Len(list) |-> 0] /\ heard' = total'
        /\ playlist' = list
    BY <1>3 DEF Times!Start
  <2>2. songs' = list
    BY <2>1, <1>1, <1>3 DEF Times!Start, Times!Taken
  <2>3. ListRight'
    BY <2>1, <2>2, <1>1 DEF ListRight, Times!NamedTwice
  <2>4. credit \in [Names -> Nat]
        /\ (music_txt # Times!Missing => LinesRight)
    BY <2>1 DEF TimesInv
  <2>5. music_txt' # Times!Missing => LinesRight'
    BY <2>1, <2>4 DEF LinesRight
  <2> QED BY <2>1, <2>3, <2>4, <2>5 DEF TimesInv
<1> QED BY <1>2, <1>3

LEMMA PlayedKeepsTimes ==
  ASSUME TimesInv, NEW i \in 1..Len(songs), Times!PlayedSecond(i)
  PROVE  TimesInv'
<1> SUFFICES ASSUME clean, ~twice PROVE TimesInv'
  BY DEF TimesInv, Times!PlayedSecond
<1>1. ListRight /\ total = heard /\ doing = "playing"
  BY DEF TimesInv, Times!PlayedSecond
<1>2. ListRight' /\ total' = heard'
  BY <1>1 DEF ListRight, Times!PlayedSecond, Times!NamedTwice
<1>3. music_txt # Times!Missing => LinesRight'
  BY <1>1 DEF TimesInv, LinesRight, Times!PlayedSecond
<1> QED BY <1>1, <1>2, <1>3 DEF TimesInv, Times!PlayedSecond

LEMMA OpenKeepsTimes == TimesInv /\ Times!OpenMusicTxt => TimesInv'
<1> SUFFICES ASSUME TimesInv, Times!OpenMusicTxt, clean, ~twice PROVE TimesInv'
  BY DEF TimesInv, Times!OpenMusicTxt
<1>1. ListRight /\ total = heard /\ doing = "playing"
  BY DEF TimesInv, Times!OpenMusicTxt
<1>2. ListRight' /\ (music_txt # Times!Missing => LinesRight /\ LinesRight')
  BY <1>1 DEF TimesInv, ListRight, LinesRight, Times!OpenMusicTxt, Times!NamedTwice
<1>3. ASSUME NEW i \in 1..Len(songs)
      PROVE  total[i] = heard[i] + IF \E k \in 1..0 : music_txt[k][1] = songs[i]
                                   THEN credit[songs[i]] ELSE 0
  <2>1. heard[i] \in Nat /\ total[i] = heard[i]
    BY <1>1 DEF ListRight
  <2> QED BY <2>1
<1>4. line' = 0 /\ UNCHANGED <<music_txt, clean, songs, total, heard, credit, twice>>
  BY DEF Times!OpenMusicTxt
<1>5. AddedUpTo(line)'
  BY <1>3, <1>4 DEF AddedUpTo
<1>6. (music_txt # Times!Missing) => line' \in 0..Len(music_txt)
  BY <1>2, <1>4 DEF LinesRight
<1> QED BY <1>1, <1>2, <1>4, <1>5, <1>6 DEF TimesInv, Times!OpenMusicTxt

(* The line that is read is the only one of its name: it adds to its song  *)
(* what music.txt says, and to no other.                                   *)
LEMMA ReadKeepsTimes == TimesInv /\ Times!ReadLine => TimesInv'
<1> SUFFICES ASSUME TimesInv, Times!ReadLine, clean, ~twice PROVE TimesInv'
  BY DEF TimesInv, Times!ReadLine
<1>1. /\ ListRight /\ LinesRight /\ AddedUpTo(line) /\ doing = "reading"
      /\ line \in 0..Len(music_txt) /\ line < Len(music_txt)
      /\ credit \in [Names -> Nat]
  BY DEF TimesInv, Times!ReadLine
<1> DEFINE name == music_txt[line + 1][1]
           time == music_txt[line + 1][2]
<1>2. /\ line + 1 \in 1..Len(music_txt) /\ name \in Names /\ time = credit[name]
  BY <1>1 DEF LinesRight
<1>3. total' = [i \in 1..Len(songs) |-> total[i] + IF name = songs[i] THEN time ELSE 0]
  BY <1>1 DEF Times!ReadLine, Times!Taken, Times!Added
<1>4. ListRight'
  <2>1. UNCHANGED <<songs, playlist, heard>>
    BY DEF Times!ReadLine
  <2>2. \A i \in 1..Len(songs) : total[i] \in Nat
    BY <1>1 DEF ListRight
  <2>3. \A i \in 1..Len(songs) : total[i] + (IF name = songs[i] THEN time ELSE 0) \in Nat
    BY <1>1, <1>2, <2>2
  <2>4. total' \in [1..Len(songs) -> Nat]
    BY <1>3, <2>3
  <2> QED BY <1>1, <2>1, <2>4 DEF ListRight, Times!NamedTwice
<1>5. ASSUME NEW i \in 1..Len(songs)
      PROVE  total'[i] = heard[i] + IF \E k \in 1..(line + 1) : music_txt[k][1] = songs[i]
                                    THEN credit[songs[i]] ELSE 0
  <2>1. songs[i] \in Names /\ total[i] \in Nat /\ heard[i] \in Nat
    BY <1>1 DEF ListRight
  <2>2. total[i] = heard[i] + IF \E k \in 1..line : music_txt[k][1] = songs[i]
                              THEN credit[songs[i]] ELSE 0
    BY <1>1 DEF AddedUpTo
  <2>3. CASE name = songs[i]
    <3>1. ~\E k \in 1..line : music_txt[k][1] = songs[i]
      BY <2>3, <1>1, <1>2 DEF LinesRight
    <3>2. total[i] = heard[i]
      BY <3>1, <2>1, <2>2
    <3>3. total'[i] = total[i] + credit[songs[i]]
      BY <1>2, <1>3, <2>3
    <3>4. \E k \in 1..(line + 1) : music_txt[k][1] = songs[i]
      BY <2>3, <1>2
    <3> QED BY <3>2, <3>3, <3>4
  <2>4. CASE name # songs[i]
    <3>1. (\E k \in 1..(line + 1) : music_txt[k][1] = songs[i])
            <=> \E k \in 1..line : music_txt[k][1] = songs[i]
      BY <2>4, <1>1
    <3>2. total'[i] = total[i]
      BY <1>3, <2>1, <2>4
    <3> QED BY <3>1, <3>2, <2>2
  <2> QED BY <2>3, <2>4
<1>6. AddedUpTo(line)'
  BY <1>5 DEF AddedUpTo, Times!ReadLine
<1>7. LinesRight'
  BY <1>1 DEF LinesRight, Times!ReadLine
<1> QED BY <1>1, <1>2, <1>4, <1>6, <1>7 DEF TimesInv, Times!ReadLine

(* With all lines added, a song of which there was none has no credit.     *)
LEMMA TruncateKeepsTimes == TimesInv /\ Times!Truncate => TimesInv'
<1> SUFFICES ASSUME TimesInv, Times!Truncate, clean, ~twice PROVE TimesInv'
  BY DEF TimesInv, Times!Truncate
<1>1. /\ ListRight /\ LinesRight /\ AddedUpTo(line) /\ line = Len(music_txt)
      /\ credit \in [Names -> Nat]
  BY DEF TimesInv, Times!Truncate
<1>2. ASSUME NEW i \in 1..Len(songs) PROVE total[i] = heard[i] + credit[songs[i]]
  <2>1. songs[i] \in Names /\ heard[i] \in Nat
    BY <1>1 DEF ListRight
  <2>2. CASE \E k \in 1..line : music_txt[k][1] = songs[i]
    BY <2>2, <1>1 DEF AddedUpTo
  <2>3. CASE ~\E k \in 1..line : music_txt[k][1] = songs[i]
    <3>1. ~(credit[songs[i]] > 0)
      <4>1. \A n \in Names : credit[n] > 0 => \E k \in 1..Len(music_txt) : music_txt[k][1] = n
        BY <1>1 DEF LinesRight
      <4> QED BY <4>1, <2>1, <2>3, <1>1
    <3>2. credit[songs[i]] = 0
      <4>1. credit[songs[i]] \in Nat
        BY <1>1, <2>1
      <4> QED BY <4>1, <3>1
    <3> QED BY <3>2, <2>3, <1>1 DEF AddedUpTo
  <2> QED BY <2>2, <2>3
<1>3. ListRight'
  BY <1>1 DEF ListRight, Times!Truncate, Times!NamedTwice
<1>4. /\ doing' = "writing" /\ music_txt' = <<>>
      /\ UNCHANGED <<clean, songs, total, heard, credit, twice>>
  BY DEF Times!Truncate
<1>5. \A i \in 1..Len(songs') : total'[i] = heard'[i] + credit'[songs'[i]]
  BY <1>2, <1>4
<1> QED BY <1>1, <1>3, <1>4, <1>5 DEF TimesInv

LEMMA WriteKeepsTimes == TimesInv /\ Times!WriteMusicTxt => TimesInv'
<1> SUFFICES ASSUME TimesInv, Times!WriteMusicTxt, clean, ~twice PROVE TimesInv'
  BY DEF TimesInv, Times!WriteMusicTxt
<1>1. /\ ListRight /\ credit \in [Names -> Nat] /\ doing' = "off"
      /\ \A i \in 1..Len(songs) : total[i] = heard[i] + credit[songs[i]]
      /\ UNCHANGED <<clean, songs, total, playlist, heard, twice>>
  BY DEF TimesInv, Times!WriteMusicTxt
<1>2. /\ music_txt' = [i \in 1..Len(songs) |-> <<songs[i], total[i]>>]
      /\ credit' = [n \in Names |->
           IF \E i \in 1..Len(playlist) : playlist[i] = n
           THEN credit[n] + heard[CHOOSE i \in 1..Len(playlist) : playlist[i] = n]
           ELSE 0]
  BY DEF Times!WriteMusicTxt
<1>3. ASSUME NEW i \in 1..Len(songs)
      PROVE  songs[i] \in Names /\ credit'[songs[i]] = total[i]
  <2>1. songs[i] \in Names /\ playlist = songs
    BY <1>1 DEF ListRight
  <2>2. (CHOOSE j \in 1..Len(playlist) : playlist[j] = songs[i]) = i
    BY <2>1, <1>1 DEF ListRight, Times!NamedTwice
  <2>3. credit'[songs[i]] = credit[songs[i]] + heard[i]
    BY <2>1, <2>2, <1>2
  <2> QED BY <2>1, <2>3, <1>1 DEF ListRight
<1>4. ASSUME NEW n \in Names PROVE
        /\ credit'[n] \in Nat
        /\ credit'[n] > 0 => \E i \in 1..Len(songs) : songs[i] = n
  <2>1. CASE \E i \in 1..Len(songs) : songs[i] = n
    <3>1. PICK i \in 1..Len(songs) : songs[i] = n
      BY <2>1
    <3> QED BY <3>1, <1>1, <1>3 DEF ListRight
  <2>2. CASE ~\E i \in 1..Len(songs) : songs[i] = n
    BY <2>2, <1>1, <1>2 DEF ListRight
  <2> QED BY <2>1, <2>2
<1>5. credit' \in [Names -> Nat]
  BY <1>2, <1>4
<1>6. music_txt' \in Seq(Names \X Nat) /\ Len(music_txt') = Len(songs)
  BY <1>1, <1>2 DEF ListRight
<1>7. \A j, k \in 1..Len(songs) : music_txt'[j][1] = music_txt'[k][1] => j = k
  BY <1>1, <1>2 DEF ListRight, Times!NamedTwice
<1>8. \A k \in 1..Len(songs) : /\ music_txt'[k][1] = songs[k]
                               /\ music_txt'[k][2] = credit'[songs[k]]
  BY <1>2, <1>3
<1>9. \A n \in Names : credit'[n] > 0 => \E k \in 1..Len(songs) : music_txt'[k][1] = n
  BY <1>4, <1>8
<1>10. LinesRight'
  BY <1>6, <1>7, <1>8, <1>9 DEF LinesRight
<1>11. ListRight'
  BY <1>1 DEF ListRight, Times!NamedTwice
<1> QED BY <1>1, <1>5, <1>10, <1>11 DEF TimesInv

(* Killed between Truncate and WriteMusicTxt, the server leaves an empty   *)
(* file: all credit is lost.                                               *)
LEMMA DieKeepsTimes == TimesInv /\ Times!Die => TimesInv'
<1> SUFFICES ASSUME TimesInv, Times!Die, clean, ~twice PROVE TimesInv'
  BY DEF TimesInv, Times!Die
<1>1. ListRight'
  BY DEF TimesInv, ListRight, Times!Die, Times!NamedTwice
<1>2. CASE doing = "writing"
  <2>1. music_txt' = <<>>
    BY <1>2 DEF TimesInv, Times!Die
  <2> QED BY <1>1, <1>2, <2>1 DEF TimesInv, Times!Die, LinesRight
<1>3. CASE doing # "writing"
  BY <1>1, <1>3 DEF TimesInv, Times!Die, LinesRight
<1> QED BY <1>2, <1>3

LEMMA TimesStep == TimesInv /\ [Times!Next]_(Times!vars) => TimesInv'
<1> SUFFICES ASSUME TimesInv, [Times!Next]_(Times!vars) PROVE TimesInv'
  OBVIOUS
<1>1. CASE UNCHANGED Times!vars
  BY <1>1 DEF Times!vars, TimesInv, LinesRight, ListRight, AddedUpTo, Times!NamedTwice
<1>2. CASE Times!Next
  BY <1>2, StartKeepsTimes, PlayedKeepsTimes, OpenKeepsTimes, ReadKeepsTimes,
     TruncateKeepsTimes, WriteKeepsTimes, DieKeepsTimes DEF Times!Next
<1> QED BY <1>1, <1>2

(* music.txt shows the seconds every song was played, over all runs that   *)
(* came to write it, for any names, playlists, runs and crashes.           *)
(* (server.c:128-277, 355-356)                                             *)
THEOREM TimesAreKept == TimesSpec => []TimesKept
<1>1. TimesInv => TimesKept
  BY DEF TimesInv, TimesKept, Times!TimesKept, LinesRight
<1> QED BY <1>1, TimesInit, TimesStep, PTL DEF TimesSpec, Times!Spec

===============================================================================
