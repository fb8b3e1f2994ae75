---------------------------------- MODULE Shell ---------------------------------
(***************************************************************************)
(* LAB/Task4/task4_part1.c, a command interpreter: it reads a line into a  *)
(* buffer, puts a pointer to each word into argv, forks a child that       *)
(* executes argv, and waits for it, until the command is q or quit.        *)
(*                                                                         *)
(* Neither the buffer nor argv is cleared between commands, and what fgets *)
(* returns is not looked at.  An empty line thus leaves argv pointing into *)
(* a buffer whose first bytes are new, and at the end of the input the     *)
(* shell goes on with what is left in the buffer, for ever.                *)
(*                                                                         *)
(* A line fits into the buffer and its words into argv.  "q" are the       *)
(* commands that quit.  The byte in front of the buffer, which is looked   *)
(* at when the buffer holds an empty string (40), is no newline.           *)
(***************************************************************************)
EXTENDS Integers, Sequences, FiniteSets

CONSTANTS Letters,      \* characters that lines are made of, the blank apart
          MaxLine       \* bound on the length of a line

NullChar == "null"
Space   == "blank"      \* any of SPACE, TAB and NEW_LINE
Junk    == "junk"       \* not initialised
Null    == -1
Wild    == -2           \* a pointer that was not initialised
EndOfInput == <<"EOF">>

Lines == UNION {[1..n -> Letters \cup {Space}] : n \in 0..MaxLine}

VARIABLES
  buffer,               \* bytes, from index 0
  argv,                 \* indices into the buffer, Null or Wild
  pc,                   \* "prompt"; the loops of fix_ending: "ending", "blanks",
                        \* "word"; "compare", "fork", "exited", "undefined"
  ending, arg,          \* of fix_ending: the next byte, the next entry of argv
  typed,                \* the last input
  command,              \* the last line that had a character in it
  ran                   \* the words of the last command that was executed

vars == <<buffer, argv, pc, ending, arg, typed, command, ran>>

(* The slip this module is checked against: blanks skipped, not replaced.  *)
CutNothing(b, k) == b

Cut(b, k) == [b EXCEPT ![k] = NullChar]

Init ==
  /\ buffer = [k \in 0..(MaxLine + 1) |-> Junk]
  /\ argv = [k \in 0..(MaxLine + 1) |-> Wild]
  /\ pc = "prompt" /\ ending = 0 /\ arg = 0
  /\ typed = <<>> /\ command = <<>> /\ ran = <<>>

-------------------------------------------------------------------------------
(* The string that starts at index p, and what argv points to in b.        *)
String(b, p) ==
  LET end == CHOOSE n \in DOMAIN b : /\ n >= p /\ b[n] = NullChar
                                     /\ \A k \in p..(n - 1) : b[k] # NullChar
  IN  [k \in 1..(end - p) |-> b[p + k - 1]]

Words(b, av) ==
  LET n == CHOOSE k \in DOMAIN av : av[k] = Null /\ \A j \in 0..(k - 1) : av[j] # Null
  IN  [k \in 1..n |-> String(b, av[k - 1])]

(* fgets, and the newline cut off.  At the end of the input nothing is     *)
(* stored.                                                                 *)
Stored(line) ==
  IF line = EndOfInput THEN buffer
  ELSE [k \in DOMAIN buffer |->
          IF k < Len(line) THEN line[k + 1]
          ELSE IF k <= Len(line) + 1 THEN NullChar ELSE buffer[k]]

ReadLine(line) ==
  /\ pc = "prompt"
  /\ buffer' = Stored(line) /\ typed' = line
  /\ command' = IF line \in {<<>>, EndOfInput} THEN command ELSE line
  /\ pc' = "ending" /\ ending' = 0 /\ arg' = 0
  /\ UNCHANGED <<argv, ran>>

(* fix_ending.  Its outer loop ends with the string, without a character   *)
(* at once.  What was never written may be anything.                       *)
AtEnding ==
  /\ pc = "ending"
  /\ pc' = CASE buffer[ending] = NullChar -> "compare"
             [] buffer[ending] = Junk -> "undefined"
             [] OTHER -> "blanks"
  /\ UNCHANGED <<buffer, argv, ending, arg, typed, command, ran>>

(* Blanks become ends of strings; argv gets the start of the word behind   *)
(* them, that of an empty one after a blank at the very end included.      *)
SkipBlank ==
  /\ pc = "blanks" /\ buffer[ending] = Space
  /\ buffer' = Cut(buffer, ending) /\ ending' = ending + 1
  /\ UNCHANGED <<argv, pc, arg, typed, command, ran>>

StartWord ==
  /\ pc = "blanks" /\ buffer[ending] # Space
  /\ argv' = [argv EXCEPT ![arg] = ending] /\ arg' = arg + 1
  /\ pc' = "word"
  /\ UNCHANGED <<buffer, ending, typed, command, ran>>

SkipLetter ==
  /\ pc = "word" /\ buffer[ending] \notin {NullChar, Space}
  /\ ending' = ending + 1
  /\ UNCHANGED <<buffer, argv, pc, arg, typed, command, ran>>

EndWord ==
  /\ pc = "word" /\ buffer[ending] \in {NullChar, Space}
  /\ argv' = IF buffer[ending] = NullChar THEN [argv EXCEPT ![arg] = Null] ELSE argv
  /\ pc' = "ending"
  /\ UNCHANGED <<buffer, ending, arg, typed, command, ran>>

Compare ==
  /\ pc = "compare"
  /\ pc' = CASE argv[0] = Wild -> "undefined"
             [] argv[0] # Wild /\ String(buffer, argv[0]) = <<"q">> -> "exited"
             [] OTHER -> "fork"
  /\ UNCHANGED <<buffer, argv, ending, arg, typed, command, ran>>

(* The child executes argv, or reports that it cannot, and exits; the      *)
(* parent waits for it.  Without a child the shell ends.                   *)
Run ==
  /\ pc = "fork"
  /\ \/ ran' = Words(buffer, argv) /\ pc' = "prompt"
     \/ pc' = "exited" /\ UNCHANGED ran
  /\ UNCHANGED <<buffer, argv, ending, arg, typed, command>>

(* Input that has ended does not come back.                                *)
Next == \/ \E line \in Lines \cup {EndOfInput} :
             (typed = EndOfInput => line = EndOfInput) /\ ReadLine(line)
        \/ AtEnding \/ SkipBlank \/ StartWord \/ SkipLetter \/ EndWord
        \/ Compare \/ Run

Spec == Init /\ [][Next]_vars

-------------------------------------------------------------------------------
(* Where words of a line begin; one more, empty, after a blank at its end. *)
Begins(line) ==
  {k \in 1..(Len(line) + 1) :
     /\ k <= Len(line) => line[k] # Space
     /\ k > 1 => line[k - 1] = Space
     /\ line # <<>>}

Nth(line, k) == Cardinality({j \in Begins(line) : j <= k})

(* w is the word that begins at index k of the line: up to the next blank. *)
IsWord(w, line, k) ==
  /\ Len(w) \in 0..(Len(line) + 1 - k)
  /\ \A j \in 1..Len(w) : w[j] = line[k + j - 1] /\ w[j] # Space
  /\ k + Len(w) <= Len(line) => line[k + Len(w)] = Space

AreWords(ws, line) ==
  /\ Len(ws) = Cardinality(Begins(line))
  /\ \A k \in Begins(line) : IsWord(ws[Nth(line, k)], line, k)

Indented(line, n) == Len(line) >= n /\ \A k \in 1..n : line[k] = Space

(* What is executed are the words of the line typed, with an empty word    *)
(* added after a blank at the end.  An empty line runs the last command    *)
(* once more, with its name gone, unless that was typed after two blanks   *)
(* or more; the end of the input runs it once more without its arguments,  *)
(* or, if it was typed after blanks or followed by an empty line, as the   *)
(* last time.  (task4_part1.c:34-73, 83-107)                               *)
RunsWhatWasTyped ==
  [][ran' # ran \/ (pc = "fork" /\ pc' = "prompt") =>
       CASE typed = EndOfInput ->
              ran' \in {ran, <<ran[1]>>} /\ (Indented(command, 1) => ran' = ran)
         [] typed = <<>> ->
              ran' = [ran EXCEPT ![1] = IF Indented(command, 2) THEN @ ELSE <<>>]
         [] OTHER -> AreWords(ran', typed)]_vars

===============================================================================
