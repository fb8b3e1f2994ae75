------------------------------ MODULE SelectionLoop -----------------------------
(***************************************************************************)
(* The loop of SelectionScan beside the scheduler's own state: the same    *)
(* steps on variables with names of their own, so that one can speak of    *)
(* the loop and of CpuScheduler together (CpuScheduler_proofs).            *)
(***************************************************************************)
EXTENDS Integers, Sequences

CONSTANT Queues     \* the keys of the queued processes, front first

ASSUME QueuesAssumption == \A q \in Queues : q \in Seq(Int) /\ q # <<>>

VARIABLES keys, scan_pc, scan_queue, checked, scan_temp, shortest_run_time,
          shortest_index, scan_i

Loop == INSTANCE SelectionScan
        WITH key <- keys, pc <- scan_pc, processQueue <- scan_queue,
             temp <- scan_temp, i <- scan_i

LoopSpec == Loop!Spec

(* The process that a selection takes, for every queue of keys.  (92-185)  *)
Selected == Loop!SelectsFirstLeast /\ Loop!StartsOverAfterNone

(* The processes it leaves, for every queue of keys.  (112-119)            *)
OthersKeepOrder == Loop!LeavesOthersInOrder

================================================================================
