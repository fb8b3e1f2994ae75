---------------------------- MODULE BatchScheduling ----------------------------
(***************************************************************************)
(* What a batch scheduler promises, whatever its policy: jobs are ready    *)
(* only after they have arrived, one job at a time holds the processor, a  *)
(* job's remaining work shrinks only while it holds it, and a job is done  *)
(* exactly when none is left.  How the next job is picked, how long a turn *)
(* lasts and what a switch costs are left open.                            *)
(***************************************************************************)
EXTENDS Integers

CONSTANT Batches    \* sequences of rows with an arrival_time, an est_runtime

VARIABLES batch, now,
          phase,    \* "new", "ready", "running" or "done", for each job
          left      \* the work each job still needs

vars == <<batch, now, phase, left>>

Jobs == DOMAIN batch

Init ==
  /\ batch \in Batches
  /\ now = 0
  /\ phase = [j \in Jobs |-> "new"]
  /\ left = [j \in Jobs |-> batch[j].est_runtime]

NobodyRuns == \A j \in Jobs : phase[j] # "running"

(* The jobs that have arrived by t; any of them may become ready.          *)
ArrivedBy(t) == {j \in Jobs : phase[j] = "new" /\ batch[j].arrival_time <= t}

With(S) == [j \in Jobs |-> IF j \in S THEN "ready" ELSE phase[j]]

Wait ==
  /\ \A j \in Jobs : phase[j] \in {"new", "done"}
  /\ \E j \in Jobs : phase[j] = "new"
  /\ now' > now
  /\ UNCHANGED <<batch, phase, left>>

(* A job gets the processor; one with no work may be done at once.         *)
Start(j, S) ==
  /\ NobodyRuns /\ With(S)[j] = "ready"
  /\ \/ phase' = [With(S) EXCEPT ![j] = "running"]
     \/ left[j] = 0 /\ phase' = [With(S) EXCEPT ![j] = "done"]
  /\ now' > now
  /\ UNCHANGED <<batch, left>>

(* A turn of a running job ends: it keeps the processor, gives it up or is *)
(* done.                                                                   *)
EndTurn(j, S) ==
  /\ phase[j] = "running"
  /\ \E l \in 0..left[j] :
       /\ left' = [left EXCEPT ![j] = l]
       /\ \/ /\ 0 < l /\ l < left[j]
             /\ phase' = With(S) \/ phase' = [With(S) EXCEPT ![j] = "ready"]
          \/ l = 0 /\ phase' = [With(S) EXCEPT ![j] = "done"]
  /\ now' > now
  /\ UNCHANGED batch

Next == \/ Wait
        \/ \E j \in Jobs : \/ \E S \in SUBSET ArrivedBy(now) : Start(j, S)
                           \/ \E S \in SUBSET ArrivedBy(now') : EndTurn(j, S)

Spec == Init /\ [][Next]_vars

===============================================================================
