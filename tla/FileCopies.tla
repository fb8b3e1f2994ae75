-------------------------------- MODULE FileCopies ------------------------------
(***************************************************************************)
(* The programs that copy a file through a buffer: LAB/Task1               *)
(* displaycontent.c ("display"), 2.c ("cp"), 3.c ("cpXYZ"), and LAB/Task3  *)
(* Prcs_P2.c ("split"), which takes turns between two destinations.        *)
(*                                                                         *)
(* "split" is the second child of Parent_Prcs.c, which starts it a second  *)
(* after Prcs_P1.c, the first child, who creates the destinations; nothing *)
(* but the second keeps them in order.                                     *)
(*                                                                         *)
(* Destinations are opened without O_TRUNC: what was longer keeps its tail.*)
(* A source that is a directory can be opened, but not read.               *)
(***************************************************************************)
EXTENDS Integers, Sequences

CONSTANTS
  BUFFER_SIZE_1, BUFFER_SIZE_2, \* 100 and 50
  Sources,                      \* what a source may hold
  Destinations                  \* what a destination may hold before, or Absent

Programs  == {"display", "cp", "cpXYZ", "split"}
Absent    == <<"absent">>
Directory == <<"directory">>
Files     == 1..2

VARIABLES
  program,
  source, before,       \* the source, and the destinations at first
  file,                 \* the destinations; what "display" prints, in the first
  parent, child1,       \* Parent_Prcs and Prcs_P1
  pc,                   \* the program that copies
  position,             \* of the reader in the source
  written,              \* of the writers in the destinations
  counter,              \* how many times it has read
  ending_with_xyz

vars == <<program, source, before, file, parent, child1, pc, position, written,
          counter, ending_with_xyz>>

family == <<parent, child1>>
input  == <<program, source, before>>
cursor == <<position, written, counter, ending_with_xyz>>

(* The slips this module is checked against: the marker written after what *)
(* is left over only, and a loop that goes on at the end of the source.    *)
MarkNever(n)      == <<>>
GoesOnAtTheEnd(n) == n >= 0 \/ n = -1

Init ==
  /\ program \in Programs
  /\ source \in Sources \cup {Absent, Directory}
  /\ before \in [Files -> Destinations \cup {Absent}]
  /\ program # "split" => before[2] = Absent
  /\ program = "display" => before[1] = Absent
  /\ file = IF program = "display" THEN [before EXCEPT ![1] = <<>>] ELSE before
  /\ parent = IF program = "split" THEN "fork1" ELSE "none"
  /\ child1 = "unborn"
  /\ pc = IF program = "split" THEN "unborn" ELSE "open"
  /\ position = 0 /\ written = [f \in Files |-> 0]
  /\ counter = 0 /\ ending_with_xyz = FALSE

-------------------------------------------------------------------------------
(* Parent_Prcs.  A fork or an exec that fails ends nothing but the child.  *)
ParentStep ==
  /\ \/ /\ parent = "fork1" /\ parent' = "fork2" /\ UNCHANGED pc
        /\ child1' \in {"create1", "exited"}
     \/ /\ parent = "fork2" /\ parent' = "exited" /\ UNCHANGED child1
        /\ pc' \in {"open", "refused"}
  /\ UNCHANGED <<input, file, cursor>>

(* Prcs_P1: an existing file is left as it is, and each open may fail.     *)
Created(f) == [file EXCEPT ![f] = IF @ = Absent THEN <<>> ELSE @]

CreateFile(f, from, to) ==
  /\ child1 = from /\ child1' = to
  /\ file' \in {Created(f), file}
  /\ UNCHANGED <<input, parent, pc, cursor>>

Child1Step == CreateFile(1, "create1", "create2") \/ CreateFile(2, "create2", "exited")

-------------------------------------------------------------------------------
(* Arguments, source and destinations are tested first; anything missing   *)
(* ends the program.                                                       *)
Refuse ==
  /\ pc = "open"
  /\ pc' = "refused"
  /\ UNCHANGED <<input, file, family, cursor>>

Open ==
  /\ pc = "open" /\ source # Absent
  /\ CASE program = "display" -> UNCHANGED file /\ pc' = "read"
       [] program \in {"cp", "cpXYZ"} -> file' = Created(1) /\ pc' = "read"
       [] program = "split" -> UNCHANGED file /\ file[1] # Absent /\ pc' = "open2"
  /\ UNCHANGED <<input, family, cursor>>

OpenSecond ==
  /\ pc = "open2"
  /\ pc' = IF file[2] # Absent THEN "read" ELSE "refused"
  /\ UNCHANGED <<input, file, family, cursor>>

-------------------------------------------------------------------------------
(* The loop.  Each round reads, replaces and writes what it has read.      *)
FirstTurn == program # "split" \/ counter % 2 = 0

Size == IF FirstTurn THEN BUFFER_SIZE_1 ELSE BUFFER_SIZE_2

Replaced(c) ==
  CASE program \in {"cpXYZ", "split"} /\ FirstTurn /\ c = "1" -> "A"
    [] program = "split" /\ ~FirstTurn /\ c = "2" -> "B"
    [] OTHER -> c

Cut(s, from, to) == SubSeq(s, from, IF to < Len(s) THEN to ELSE Len(s))

XYZ == <<"X", "Y", "Z">>

Mark(n) == IF program = "cpXYZ" /\ n = BUFFER_SIZE_1 THEN XYZ ELSE <<>>

(* read gives -1 for a directory, and the count, an int, is compared with  *)
(* the size, which is unsigned: -1 is more than any size.                  *)
Enough == IF program = "split" THEN BUFFER_SIZE_2 ELSE BUFFER_SIZE_1

GoesOn(n) == n = -1 \/ n >= Enough

(* Written over what there was, from where the last write ended.           *)
Over(f, data) ==
  LET end == written[f] + Len(data)
  IN  [file EXCEPT ![f] = Cut(@, 1, written[f]) \o data \o SubSeq(@, end + 1, Len(@))]

ReadAndWrite ==
  /\ pc = "read"
  /\ LET f == IF FirstTurn THEN 1 ELSE 2
         got == IF source = Directory THEN <<>>
                ELSE Cut(source, position + 1, position + Size)
         n == IF source = Directory THEN -1 ELSE Len(got)
         data == [j \in 1..Len(got) |-> Replaced(got[j])] \o Mark(n)
     IN  /\ file' = Over(f, data)
         /\ position' = position + Len(got)
         /\ written' = [written EXCEPT ![f] = @ + Len(data)]
         /\ ending_with_xyz' = (Mark(n) # <<>>)
         /\ pc' = IF GoesOn(n) THEN "read"
                  ELSE IF program = "cpXYZ" /\ n # 0 /\ Mark(n) = <<>> THEN "mark"
                  ELSE "done"
  /\ counter' = (counter + 1) % 2
  /\ UNCHANGED <<input, family>>

(* The marker at the very end, if there is none and something was left.    *)
MarkTheEnd ==
  /\ pc = "mark"
  /\ file' = Over(1, XYZ)
  /\ written' = [written EXCEPT ![1] = @ + 3]
  /\ pc' = "done"
  /\ UNCHANGED <<input, family, position, counter, ending_with_xyz>>

CopierStep == Open \/ OpenSecond \/ ReadAndWrite \/ MarkTheEnd

Next == ParentStep \/ Child1Step \/ Refuse \/ CopierStep

Fairness == WF_vars(ParentStep) /\ WF_vars(Child1Step) /\ WF_vars(Refuse \/ CopierStep)

Spec == Init /\ [][Next]_vars /\ Fairness

-------------------------------------------------------------------------------
(* What should be in the destinations.                                     *)
Changed(c, from, into) == IF c = from THEN into ELSE c

Smaller(a, b) == IF a < b THEN a ELSE b

(* The k-th byte of a copy in pieces, each with its marker.                *)
PieceByte(k) ==
  LET piece  == (k - 1) \div (BUFFER_SIZE_1 + 3)
      offset == (k - 1) % (BUFFER_SIZE_1 + 3)
      first  == piece * BUFFER_SIZE_1
      size   == Smaller(BUFFER_SIZE_1, Len(source) - first)
  IN  IF offset < size THEN Changed(source[first + offset + 1], "1", "A")
                       ELSE XYZ[offset - size + 1]

Pieces == [k \in 1..(Len(source) + 3 * ((Len(source) + BUFFER_SIZE_1 - 1) \div BUFFER_SIZE_1))
            |-> PieceByte(k)]

(* The shares of two destinations that take turns.                         *)
Round == BUFFER_SIZE_1 + BUFFER_SIZE_2

ShareByte(f, k) ==
  IF f = 1
  THEN Changed(source[((k - 1) \div BUFFER_SIZE_1) * Round
                        + ((k - 1) % BUFFER_SIZE_1) + 1], "1", "A")
  ELSE Changed(source[((k - 1) \div BUFFER_SIZE_2) * Round + BUFFER_SIZE_1
                        + ((k - 1) % BUFFER_SIZE_2) + 1], "2", "B")

ShareOf(f) ==
  LET rounds == Len(source) \div Round
      rest   == Len(source) % Round
  IN  IF f = 1 THEN rounds * BUFFER_SIZE_1 + Smaller(rest, BUFFER_SIZE_1)
      ELSE rounds * BUFFER_SIZE_2 + rest - Smaller(rest, BUFFER_SIZE_1)

Share(f) == [k \in 1..ShareOf(f) |-> ShareByte(f, k)]

Expected(f) == CASE program = "split" -> Share(f)
                 [] program = "cpXYZ" -> Pieces
                 [] OTHER -> source

Targets == IF program = "split" THEN Files ELSE {1}

Untouched(f) == file[f] \in {before[f], <<>>} /\ (file[f] = <<>> => before[f] \in {<<>>, Absent})

(* Every byte of the source is in the destination it belongs to, in order, *)
(* with the replacements of that destination and, of 3.c, the marker after *)
(* every full buffer and after what is left over; what a longer            *)
(* destination held beyond that is still there, and of an empty source     *)
(* nothing is written (of both, MimicsCp).  A program that gives up, for   *)
(* child 2 may come before child 1 has created the destinations, has       *)
(* changed neither.                                                        *)
(* (3.c:78-104, 2.c:80-83, displaycontent.c:72-78, Prcs_P2.c:26-92,        *)
(* Parent_Prcs.c:17-38)                                                    *)
CopiedInTurns ==
  /\ pc = "done" =>
       \A f \in Targets :
         LET old == IF before[f] = Absent THEN <<>> ELSE before[f]
         IN  file[f] = Expected(f) \o SubSeq(old, Len(Expected(f)) + 1, Len(old))
  /\ pc \in {"refused", "unborn"} => \A f \in Targets : Untouched(f)

(* What the headers of 2.c and 3.c promise: the program "mimics the 'cp'   *)
(* command" (2.c:4, 3.c:4), so that the destination holds the source and   *)
(* nothing else, and 3.c's copy ends with an XYZ "if not ended before"     *)
(* (3.c:9).  Neither is so: the tail of a longer destination stays, as it  *)
(* is opened without O_TRUNC (3.c:71), and the copy of an empty source has *)
(* no XYZ (3.c:100).                                                       *)
MimicsCp ==
  pc = "done" /\ program \in {"cp", "cpXYZ"} =>
    file[1] = IF program = "cpXYZ" /\ source = <<>> THEN XYZ ELSE Expected(1)

(* A program that has opened its source comes to the end of it, also when  *)
(* the length is a multiple of the buffer, unless it is a directory: the   *)
(* loop never ends on an error of read.  (98, 83, 78, Prcs_P2.c:90)        *)
EndsUnlessDirectory ==
  pc = "read" ~> (pc = "done" \/ source = Directory)

===============================================================================
