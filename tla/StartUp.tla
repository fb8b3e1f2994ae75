--------------------------------- MODULE StartUp -------------------------------
(***************************************************************************)
(* Launch beside the simulator it starts, with the assumption on its       *)
(* constants.                                                              *)
(***************************************************************************)
EXTENDS Integers, Sequences

CONSTANTS Runs, NoRun

ASSUME NoRunAssumption == NoRun \notin Runs

VARIABLES init, cpu_emulator, scheduler, backlog, peer

Starting == INSTANCE Launch WITH cpu <- cpu_emulator

(* init returns to the shell and no CPU emulator is left over, whichever   *)
(* calls fail (init.c:49-81, cpu_emulator.cpp:40-63).                      *)
NobodyLeftOver == Starting!NobodyLeftOver

(* A scheduler stays in accept only if a CPU was lost (scheduler.cpp:521). *)
StuckOnlyIfCPULost == Starting!StuckOnlyIfCPULost

================================================================================
