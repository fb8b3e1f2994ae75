------------------------------ MODULE BoundedBuffer -----------------------------
(***************************************************************************)
(* What a bounded buffer promises: no more than Size entries wait, and they*)
(* are taken in the order in which they were put, each once.               *)
(* ProducerConsumer implements it, as long as its run has the buffer to    *)
(* itself; what an intruder leaves there is taken as well.                 *)
(***************************************************************************)
EXTENDS Naturals, Sequences

CONSTANTS Size,         \* how many entries the buffer holds
          Entries       \* what may be put

VARIABLES
  put, taken,           \* what was put and what was taken, in order
  alone                 \* nobody else uses the buffer

vars == <<put, taken, alone>>

Init == put = <<>> /\ taken = <<>> /\ alone = TRUE

Put(d) ==
  /\ Len(put) < Len(taken) + Size
  /\ put' = Append(put, d)
  /\ UNCHANGED <<taken, alone>>

Take(d) ==
  /\ Len(taken) < Len(put)
  /\ alone => d = put[Len(taken) + 1]
  /\ taken' = Append(taken, d)
  /\ UNCHANGED <<put, alone>>

Intrude == alone' = FALSE /\ UNCHANGED <<put, taken>>

Next == Intrude \/ \E d \in Entries : Put(d) \/ Take(d)

Spec == Init /\ [][Next]_vars
===============================================================================
