------------------------------- MODULE MergeFiles ------------------------------
(***************************************************************************)
(* Assignment2/main.c: three threads, each of which merges the numbers of  *)
(* a file of its own (new1.dat, new2.dat, new3.dat) into datafile.dat,     *)
(* sorted; then main compares datafile.dat to the instructor's ans.dat.    *)
(*                                                                         *)
(* A file is the sequence of its numbers, or Missing.  read_file makes a   *)
(* list of the lines with the first one twice, the first of the two as a   *)
(* head in front of the list proper; of a file without lines it makes a    *)
(* list with no head and no tail, which nobody can follow.  The list in    *)
(* the critical section is modelled with its pointers, the others are the  *)
(* files they were read from.  What is written stays in the stream until   *)
(* the file is closed, or until exit closes all files: it is less than a   *)
(* buffer.                                                                 *)
(***************************************************************************)
EXTENDS Integers, Sequences, FiniteSets

CONSTANTS NUM_OF_THREADS, Missing,
          Lines(_),         \* what new<t>.dat may be, datafile.dat for t = 0
          Answers           \* what ans.dat may be

ASSUME ThreadsAssumption == NUM_OF_THREADS \in Nat \ {0}
ASSUME LinesAssumption ==
  \A t \in 0..NUM_OF_THREADS : Lines(t) \ {Missing} \subseteq Seq(Int)
ASSUME AnswersAssumption == Answers \ {Missing} \subseteq Seq(Int)

Threads == 1..NUM_OF_THREADS
NULL    == 0

VARIABLES
  process,                  \* "up", "failed" (exit), "crashed", "returned"
  file,                     \* the files as they were at first
  datafile,                 \* datafile.dat
  pc,                       \* where each thread is
  val, next, prev, head,    \* the merged list: nodes are numbered
  out,                      \* what is written to the stream
  answer,                   \* ans.dat as main has read it, or Missing
  printed                   \* what compare_lists printed, or ""

list == <<val, next, prev, head>>
result == <<answer, printed>>
vars == <<process, file, datafile, pc, list, out, result>>

(* The slips this module is checked against: the removed node's neighbour  *)
(* keeps pointing back to it, a file without lines passes for a list, a    *)
(* mutex that keeps nobody out, the doubled head left in the list, and a   *)
(* comparison that stops at the end of the answer.                         *)
PrevKept(m)       == prev
EmptyToo(f)       == FALSE
ReadyOpen(t)      == pc[t] = "lock"
WithHead(data, f) == <<data[1]>> \o data \o f
VerdictOfPrefix(list1, list2) ==
  IF \E i \in DOMAIN list1 \cap DOMAIN list2 : list1[i] # list2[i]
  THEN "NOT equal" ELSE IF Len(list1) > Len(list2) THEN "crash" ELSE "EQUAL"

Init ==
  /\ process = "up"
  /\ file \in {f \in [0..NUM_OF_THREADS -> UNION {Lines(t) : t \in 0..NUM_OF_THREADS}] :
                 \A t \in 0..NUM_OF_THREADS : f[t] \in Lines(t)}
  /\ datafile = file[0]
  /\ pc = [t \in Threads |-> "start"]
  /\ val = <<>> /\ next = <<>> /\ prev = <<>> /\ head = NULL
  /\ out = <<>> /\ answer = Missing /\ printed = ""

-------------------------------------------------------------------------------
Inside == {t \in Threads : pc[t] \in {"write", "close"}}

(* exit, which closes the stream a thread may be writing to.               *)
ExitProcess ==
  /\ process' = "failed"
  /\ datafile' = IF Inside = {} THEN datafile ELSE out
  /\ UNCHANGED <<file, pc, list, out, result>>

(* A pointer to nowhere is followed: nothing is written any more.          *)
Crash ==
  /\ process' = "crashed"
  /\ UNCHANGED <<file, datafile, pc, list, out, result>>

ReadOwnFile(t) ==
  /\ process = "up" /\ pc[t] = "start"
  /\ \/ file[t] = Missing /\ ExitProcess
     \/ /\ file[t] # Missing
        /\ pc' = [pc EXCEPT ![t] = "lock"]
        /\ UNCHANGED <<process, file, datafile, list, out, result>>

Empty(f) == f = <<>>
Ready(t) == pc[t] = "lock" /\ Inside = {}

(* One list proper after the other, without their heads.                   *)
Spliced(data, f) == data \o f

(* With the mutex: reads datafile.dat, appends the own list to the one that*)
(* was read, and opens datafile.dat anew, by which it is emptied.          *)
Open(t) ==
  /\ process = "up" /\ Ready(t)
  /\ \/ datafile = Missing /\ ExitProcess
     \/ /\ datafile # Missing
        /\ \/ (Empty(file[t]) \/ Empty(datafile)) /\ Crash
           \/ /\ ~Empty(file[t]) /\ ~Empty(datafile)
              /\ \/ ExitProcess
                 \/ LET n == Len(Spliced(datafile, file[t])) IN
                      /\ val' = Spliced(datafile, file[t])
                      /\ next' = [k \in 1..n |-> IF k < n THEN k + 1 ELSE NULL]
                      /\ prev' = [k \in 1..n |-> k - 1]
                      /\ head' = 1
                      /\ datafile' = <<>> /\ out' = <<>>
                      /\ pc' = [pc EXCEPT ![t] = "write"]
                      /\ UNCHANGED <<process, file, result>>

(* The nodes from m on: the list is at an end when next is NULL.           *)
From(m) ==
  LET node[k \in 1..Len(val)] ==
        IF k = 1 THEN m
        ELSE IF node[k - 1] = NULL THEN NULL ELSE next[node[k - 1]]
      n == CHOOSE n \in 0..Len(val) :
             \A k \in 1..Len(val) : node[k] # NULL <=> k <= n
  IN [k \in 1..n |-> node[k]]

IsLess(a, b) == a < b

(* The first node that no node of the list is less than.                   *)
min_node ==
  LET nodes == From(head)
      least == {i \in DOMAIN nodes :
                  \A j \in DOMAIN nodes : ~IsLess(val[nodes[j]], val[nodes[i]])}
  IN nodes[CHOOSE i \in least : \A j \in least : i <= j]

PrevOf(m) == IF next[m] = NULL THEN prev
             ELSE [prev EXCEPT ![next[m]] = prev[m]]

(* The node is unlinked; the last one stays where it is.                   *)
Last(m) == prev[m] = NULL /\ next[m] = NULL

Remove(m) ==
  /\ head' = IF prev[m] = NULL THEN next[m] ELSE head
  /\ next' = IF prev[m] = NULL THEN next ELSE [next EXCEPT ![prev[m]] = next[m]]
  /\ prev' = PrevOf(m)

WriteMin(t) ==
  /\ process = "up" /\ pc[t] = "write"
  /\ LET m == min_node IN
       /\ out' = Append(out, val[m])
       /\ \/ Last(m) /\ pc' = [pc EXCEPT ![t] = "close"] /\ UNCHANGED list
          \/ ~Last(m) /\ Remove(m) /\ UNCHANGED <<val, pc>>
  /\ UNCHANGED <<process, file, datafile, result>>

Close(t) ==
  /\ process = "up" /\ pc[t] = "close"
  /\ datafile' = out /\ out' = <<>>
  /\ val' = <<>> /\ next' = <<>> /\ prev' = <<>> /\ head' = NULL
  /\ pc' = [pc EXCEPT ![t] = "done"]
  /\ UNCHANGED <<process, file, result>>

thread_job(t) == ReadOwnFile(t) \/ Open(t) \/ WriteMin(t) \/ Close(t)

-------------------------------------------------------------------------------
(* compare_lists goes along both lists until the answer ends or two values *)
(* differ; it does not look for the end of the data.                       *)
Verdict(list1, list2) ==
  LET differ == {i \in DOMAIN list1 \cap DOMAIN list2 : list1[i] # list2[i]}
  IN IF differ # {} THEN "NOT equal"
     ELSE IF Len(list1) = Len(list2) THEN "EQUAL"
     ELSE IF Len(list1) < Len(list2) THEN "NOT equal" ELSE "crash"

(* When all threads are joined.                                            *)
Compare ==
  /\ process = "up" /\ \A t \in Threads : pc[t] = "done"
  /\ \/ Missing \in Answers /\ ExitProcess
     \/ /\ answer' \in Answers \ {Missing}
        /\ \/ /\ Empty(answer') \/ Verdict(answer', datafile) = "crash"
              /\ process' = "crashed" /\ UNCHANGED printed
           \/ /\ ~Empty(answer') /\ Verdict(answer', datafile) # "crash"
              /\ process' = "returned"
              /\ printed' = Verdict(answer', datafile)
        /\ UNCHANGED <<file, datafile, pc, list, out>>

(* pthread_create may fail while some threads run already.                 *)
CreateFails ==
  /\ process = "up" /\ \E t \in Threads : pc[t] = "start"
  /\ ExitProcess

Terminated == process # "up" /\ UNCHANGED vars

Next == \/ \E t \in Threads : thread_job(t)
        \/ Compare \/ CreateFails \/ Terminated

Spec == Init /\ [][Next]_vars

-------------------------------------------------------------------------------
Nodes == 0..Len(val)

TypeOK ==
  /\ process \in {"up", "failed", "crashed", "returned"}
  /\ datafile \in Seq(Int) \cup {Missing}
  /\ pc \in [Threads -> {"start", "lock", "write", "close", "done"}]
  /\ val \in Seq(Int) /\ out \in Seq(Int)
  /\ next \in [1..Len(val) -> Nodes] /\ prev \in [1..Len(val) -> Nodes]
  /\ head \in Nodes
  /\ answer \in Answers \cup {Missing} /\ printed \in {"", "EQUAL", "NOT equal"}

(* How often x is a value of a sequence, or of any other function.         *)
Occurrences(s, x) == Cardinality({k \in DOMAIN s : s[k] = x})
ValuesOf(s)       == {s[k] : k \in DOMAIN s}
SameNumbers(s, u) ==
  \A x \in ValuesOf(s) \cup ValuesOf(u) : Occurrences(s, x) = Occurrences(u, x)
Ascending(s)      == \A j, k \in DOMAIN s : j < k => s[j] <= s[k]

(* While a thread takes the list apart, the pointers back are those forth, *)
(* what is written is sorted and not greater than what is left, and both   *)
(* together are the numbers that were read: no node is lost, written twice *)
(* or left hanging on the head read_file doubled.  (141-210)               *)
ListIntact ==
  \A t \in Threads : pc[t] = "write" =>
    LET left    == From(head)
        numbers == [k \in DOMAIN left |-> val[left[k]]]
    IN /\ \A k \in DOMAIN left :
            prev[left[k]] = IF k = 1 THEN NULL ELSE left[k - 1]
       /\ SameNumbers(out \o numbers, val)
       /\ Ascending(out)
       /\ \A j \in DOMAIN out, k \in DOMAIN numbers : out[j] <= numbers[k]

Done == {t \in Threads : pc[t] = "done"}

(* The numbers in the files of the threads that are done and in datafile,  *)
(* as it was: the k-th of file t is the value at <<t, k>>.                 *)
Merged ==
  LET lines == UNION {{t} \X DOMAIN file[t] : t \in {0} \cup Done}
  IN [l \in lines |-> file[l[1]][l[2]]]

(* Whenever nobody writes, and whatever ends the process then, datafile.dat*)
(* holds every number of its own and of the threads that are done, and     *)
(* sorted: what one thread has merged, the next one keeps.  (138-213)      *)
DatafileWhole ==
  datafile # Missing /\ Inside = {} =>
    /\ SameNumbers(datafile, Merged)
    /\ Done # {} => Ascending(datafile)

(* What is in memory and what is in the file are both right, at every step.*)
(* (138-213)                                                               *)
NothingLost == TypeOK /\ ListIntact /\ DatafileWhole

(* No thread meets datafile.dat as another one has emptied it: the threads *)
(* end the process by a pointer to nowhere only if a file was empty from   *)
(* the beginning.  (138-146)                                               *)
CrashesOnlyOnEmpty ==
  process = "crashed" /\ (\E t \in Threads : pc[t] # "done") =>
    \E t \in 0..NUM_OF_THREADS : file[t] = <<>>

(* The verdict is right of the files as they were at first: main prints    *)
(* EQUAL just when the answer is the sorted merge of all of them.  That it *)
(* prints at all is another question.  (217-256)                           *)
VerdictIsRight ==
  answer # Missing =>
    (printed = "EQUAL" <=> Ascending(answer) /\ SameNumbers(answer, Merged))

(* compare_lists "prints result if they have equal values or not": once    *)
(* there are two lists to compare, a verdict is printed.  It is not when   *)
(* nothing is in the answer, which has no head then, nor when the answer   *)
(* goes on where the data ends, for only its own end is looked for.        *)
(* (217-256)                                                               *)
VerdictPrinted == answer # Missing => printed # ""

===============================================================================
