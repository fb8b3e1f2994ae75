---------------------------- MODULE ProducerConsumer ---------------------------
(***************************************************************************)
(* LAB/Task5/ProducerConsumer.c: a parent that produces and a child that   *)
(* consumes, over a ring of cells in shared memory and three System V      *)
(* semaphores (sem2.h).  The semaphores are made for each run of the       *)
(* program (IPC_PRIVATE); the shared memory has a fixed key, is never      *)
(* removed, and serves all runs, whether at the same time or one after the *)
(* other.                                                                  *)
(*                                                                         *)
(* What the user enters is told apart by the run and the turn.  Input that *)
(* is no number, or has ended, leaves the cell as it was.  Segment and     *)
(* semaphores are always created.                                          *)
(***************************************************************************)
EXTENDS Integers, Sequences

CONSTANTS Runs,         \* runs of the program
          N,            \* cells of the ring: 3 in the code
          Loops,        \* how often each process goes round: N in the code
          MaxBadInputs  \* bound on inputs that are no number

ASSUME RunsAssumption == Runs # {}
ASSUME NAssumption == N \in Nat \ {0}
ASSUME LoopsAssumption == Loops \in Nat \ {0}
ASSUME MaxBadInputsAssumption == MaxBadInputs \in Nat

Roles      == {"producer", "consumer"}
Semaphores == {"mutex", "empty", "full"}

VARIABLES
  sem,                  \* the semaphores of each run
  buffer,               \* the ring, one for all
  nextp, nextc,         \* where the producer, the consumer of a run goes on
  at,                   \* the call each process makes next
  i,                    \* how many rounds it has behind it
  entered, consumed,    \* what a run put into the ring and took out of it
  badInputs,            \* inputs that were no number
  disturbed             \* runs during which another one produced

vars == <<sem, buffer, nextp, nextc, at, i, entered, consumed, badInputs, disturbed>>

(* What the segment holds before the first entry: zeros.                   *)
Zero == <<0, 0>>

(* The slips this module is checked against: the two P operations of the   *)
(* producer in the other order, a cell too many promised as empty, an      *)
(* index that wraps to the second cell.                                    *)
ProducerSwapped == <<<<"P", "mutex">>, <<"P", "empty">>, <<"produce">>,
                     <<"V", "mutex">>, <<"V", "full">>>>
EmptyOneMore    == N + 1
WrapsToSecond(n) == IF n = N THEN 1 ELSE n

ProducerText == <<<<"P", "empty">>, <<"P", "mutex">>, <<"produce">>,
                  <<"V", "mutex">>, <<"V", "full">>>>
ConsumerText == <<<<"P", "full">>, <<"P", "mutex">>, <<"consume">>,
                  <<"V", "mutex">>, <<"V", "empty">>>>

Text(role) == IF role = "producer" THEN ProducerText ELSE ConsumerText
NotBegun   == 0
AfterLoop  == 6
Exited     == 7

EmptyAtFirst == N

SemCreate == [s \in Semaphores |-> CASE s = "mutex" -> 1
                                     [] s = "empty" -> EmptyAtFirst
                                     [] s = "full"  -> 0]

Init ==
  /\ sem = [r \in Runs |-> SemCreate]
  /\ buffer = [c \in 0..(N - 1) |-> Zero]
  /\ nextp = [r \in Runs |-> 0] /\ nextc = [r \in Runs |-> 0]
  /\ at = [r \in Runs |-> [role \in Roles |-> NotBegun]]
  /\ i = [r \in Runs |-> [role \in Roles |-> 0]]
  /\ entered = [r \in Runs |-> <<>>] /\ consumed = [r \in Runs |-> <<>>]
  /\ badInputs = 0 /\ disturbed = {}

-------------------------------------------------------------------------------
MayCall(r, role, call) == at[r][role] \in 1..5 /\ Text(role)[at[r][role]] = call

(* On to the next call, of the next round after the last one.              *)
GoOn(r, role) ==
  IF at[r][role] < 5
  THEN at' = [at EXCEPT ![r][role] = @ + 1] /\ UNCHANGED i
  ELSE /\ i' = [i EXCEPT ![r][role] = @ + 1]
       /\ at' = [at EXCEPT ![r][role] = IF i[r][role] + 1 < Loops THEN 1
                                                                 ELSE AfterLoop]

SemCall(r, role) ==
  /\ \E s \in Semaphores :
       \/ /\ MayCall(r, role, <<"P", s>>) /\ sem[r][s] > 0
          /\ sem' = [sem EXCEPT ![r][s] = @ - 1]
       \/ /\ MayCall(r, role, <<"V", s>>)
          /\ sem' = [sem EXCEPT ![r][s] = @ + 1]
  /\ GoOn(r, role)
  /\ UNCHANGED <<buffer, nextp, nextc, entered, consumed, badInputs, disturbed>>

Wrapped(n) == IF n = N THEN 0 ELSE n

Begun(r) == at[r]["producer"] # NotBegun
Ended(r) == at[r]["producer"] = Exited

(* producer(): the input goes into the cell, if it is a number.            *)
Produce(r) ==
  /\ MayCall(r, "producer", <<"produce">>)
  /\ LET cell == Wrapped(nextp[r])
     IN  /\ \/ /\ buffer' = [buffer EXCEPT ![cell] = <<r, i[r]["producer"]>>]
               /\ UNCHANGED badInputs
            \/ /\ badInputs < MaxBadInputs
               /\ badInputs' = badInputs + 1 /\ UNCHANGED buffer
         /\ nextp' = [nextp EXCEPT ![r] = cell + 1]
         /\ entered' = [entered EXCEPT ![r] = Append(@, buffer'[cell])]
  /\ disturbed' = disturbed \cup {s \in Runs \ {r} : Begun(s) /\ ~Ended(s)}
  /\ GoOn(r, "producer")
  /\ UNCHANGED <<sem, nextc, consumed>>

(* consumer()                                                              *)
Consume(r) ==
  /\ MayCall(r, "consumer", <<"consume">>)
  /\ LET cell == Wrapped(nextc[r])
     IN  /\ consumed' = [consumed EXCEPT ![r] = Append(@, buffer[cell])]
         /\ nextc' = [nextc EXCEPT ![r] = cell + 1]
  /\ GoOn(r, "consumer")
  /\ UNCHANGED <<sem, buffer, nextp, entered, badInputs, disturbed>>

(* fork, which may fail: the parent exits then.                            *)
Fork(r) ==
  /\ ~Begun(r)
  /\ \E first \in {1, Exited} : at' = [at EXCEPT ![r] = [role \in Roles |-> first]]
  /\ UNCHANGED <<sem, buffer, nextp, nextc, i, entered, consumed, badInputs, disturbed>>

(* The end: the producer waits for its child.                              *)
Exit(r, role) ==
  /\ at[r][role] = AfterLoop
  /\ role = "producer" => at[r]["consumer"] = Exited
  /\ at' = [at EXCEPT ![r][role] = Exited]
  /\ UNCHANGED <<sem, buffer, nextp, nextc, i, entered, consumed, badInputs, disturbed>>

Step(r, role) ==
  \/ SemCall(r, role)
  \/ role = "producer" /\ Produce(r)
  \/ role = "consumer" /\ Consume(r)
  \/ Exit(r, role)

Next == \E r \in Runs : Fork(r) \/ \E role \in Roles : Step(r, role)

(* A process that can go on does; nobody need ever start a run.            *)
Spec == Init /\ [][Next]_vars
             /\ \A r \in Runs, role \in Roles : WF_vars(Step(r, role))

-------------------------------------------------------------------------------
Entries == {Zero} \cup (Runs \X (0..(Loops - 1)))

TypeOK ==
  /\ sem \in [Runs -> [Semaphores -> Nat]]
  /\ buffer \in [0..(N - 1) -> Entries]
  /\ nextp \in [Runs -> 0..N] /\ nextc \in [Runs -> 0..N]
  /\ at \in [Runs -> [Roles -> NotBegun..Exited]]
  /\ i \in [Runs -> [Roles -> 0..Loops]]
  /\ entered \in [Runs -> Seq(Entries)] /\ consumed \in [Runs -> Seq(Entries)]
  /\ badInputs \in 0..MaxBadInputs
  /\ disturbed \subseteq Runs

(* The values of the semaphores are what they count: empty and full, with  *)
(* the cells a process has reserved or not yet announced, add up to the    *)
(* ring, and mutex is 1 but for the one who is inside.                     *)
(* (ProducerConsumer.c:75-77, 90-97, 104-111)                              *)
Past(r, role, k, l) == IF at[r][role] \in k..l THEN 1 ELSE 0

Counted(r) ==
  /\ sem[r]["empty"] + sem[r]["full"] + Past(r, "producer", 2, 5)
                                       + Past(r, "consumer", 2, 5) = N
  /\ sem[r]["full"] + i[r]["consumer"] + Past(r, "consumer", 2, 5)
       = i[r]["producer"]
  /\ sem[r]["mutex"] + Past(r, "producer", 3, 4) + Past(r, "consumer", 3, 4) = 1

SemaphoresCount == TypeOK /\ \A r \in Runs : Counted(r)

(* A run is a bounded buffer of N cells: nothing that waits is overwritten,*)
(* and everything is consumed once and in the order in which it was put,   *)
(* around the ring; and what is consumed is what was put, until another    *)
(* run writes into the same segment.  (20-37, 44, 90-111)                  *)
AnyRun == CHOOSE r \in Runs : TRUE

Buffer == INSTANCE BoundedBuffer WITH
            Size <- N, put <- entered[AnyRun], taken <- consumed[AnyRun],
            alone <- AnyRun \notin disturbed

BufferSpec == Buffer!Spec

(* Producer and consumer do not block each other: once both are there, all *)
(* that is put is consumed and both exit.  (88-112)                        *)
EverythingConsumed ==
  \A r \in Runs : Begun(r) ~> /\ \A role \in Roles : at[r][role] = Exited
                              /\ Len(consumed[r]) = Len(entered[r])

===============================================================================
