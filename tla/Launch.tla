---------------------------------- MODULE Launch -------------------------------
(***************************************************************************)
(* How init starts a CPU and a scheduler and how these two find each other *)
(* (Assignment3's init.c, setupTCPServer, setupTCPClient; Assignment1 has  *)
(* the same three, but its scheduler may never get past its process file,  *)
(* see TestMode).  A run is one command "./init ...".  All runs use port   *)
(* 4545: setsockopt is given SO_REUSEADDR | SO_REUSEPORT, whose value is   *)
(* that of SO_REUSEPORT, so several schedulers may listen at once, and the *)
(* kernel hands a connection to any of them.                               *)
(*                                                                         *)
(* What the two programs do once connected is CpuScheduler: it ends with a *)
(* "stop" to the CPU.  Every call that may fail does so or not, as it      *)
(* likes.  A scheduler's backlog (listen(server_fd, 3)) never fills with   *)
(* the few runs considered here.                                           *)
(***************************************************************************)
EXTENDS Integers, Sequences, SequencesExt

CONSTANTS Runs, NoRun

VARIABLES
  init,        \* what the init process of each run is about to do
  cpu,         \* the CPU emulator of each run
  scheduler,   \* the scheduler of each run
  backlog,     \* connections a scheduler's socket holds, not accepted yet
  peer         \* the CPU a scheduler accepted, or NoRun

vars == <<init, cpu, scheduler, backlog, peer>>

(* The slips this module is checked against: a wait for both children, no  *)
(* return after a failed fork, connections that outlive their socket.      *)
ChildDiedBoth(r)    == cpu[r] = "exited" /\ scheduler[r] = "exited"
AfterFailedForkGoOn == "forkScheduler"
DroppedNothing(s)   == backlog[s]

Init ==
  /\ init = [r \in Runs |-> "notStarted"]
  /\ cpu = [r \in Runs |-> "none"] /\ scheduler = [r \in Runs |-> "none"]
  /\ backlog = [r \in Runs |-> <<>>] /\ peer = [r \in Runs |-> NoRun]

-------------------------------------------------------------------------------
(* init                                                                    *)
Start(r) ==
  /\ init[r] = "notStarted"
  /\ init' = [init EXCEPT ![r] = "forkCPU"]
  /\ UNCHANGED <<cpu, scheduler, backlog, peer>>

AfterFailedFork == "exited"

ForkCPU(r) ==
  /\ init[r] = "forkCPU"
  /\ \/ /\ cpu' = [cpu EXCEPT ![r] = "forked"]
        /\ init' = [init EXCEPT ![r] = "forkScheduler"]
     \/ init' = [init EXCEPT ![r] = AfterFailedFork] /\ UNCHANGED cpu
  /\ UNCHANGED <<scheduler, backlog, peer>>

ForkScheduler(r) ==
  /\ init[r] = "forkScheduler"
  /\ \/ /\ scheduler' = [scheduler EXCEPT ![r] = "forked"]
        /\ init' = [init EXCEPT ![r] = "wait"]
     \/ init' = [init EXCEPT ![r] = "exited"] /\ UNCHANGED scheduler
  /\ UNCHANGED <<cpu, backlog, peer>>

(* wait(NULL) returns when one child, whichever, has died.                 *)
ChildDied(r) == cpu[r] = "exited" \/ scheduler[r] = "exited"

WaitReturns(r) ==
  /\ init[r] = "wait" /\ ChildDied(r)
  /\ init' = [init EXCEPT ![r] = "exited"]
  /\ UNCHANGED <<cpu, scheduler, backlog, peer>>

InitProcess(r) == ForkCPU(r) \/ ForkScheduler(r) \/ WaitReturns(r)

-------------------------------------------------------------------------------
(* scheduler                                                               *)
Dropped(s) == <<>>

SchedulerExits(s) ==
  /\ scheduler' = [scheduler EXCEPT ![s] = "exited"]
  /\ backlog' = [backlog EXCEPT ![s] = Dropped(s)]

ExecScheduler(s) ==
  /\ scheduler[s] = "forked"
  /\ \E next \in {"setup", "exited"} :
       scheduler' = [scheduler EXCEPT ![s] = next]
  /\ UNCHANGED <<init, cpu, backlog, peer>>

(* socket, setsockopt, bind, listen; or one of them fails.                 *)
Listen(s) ==
  /\ scheduler[s] = "setup"
  /\ \E next \in {"listening", "exited"} :
       scheduler' = [scheduler EXCEPT ![s] = next]
  /\ UNCHANGED <<init, cpu, backlog, peer>>

(* accept takes the oldest pending connection.                             *)
Accept(s) ==
  /\ scheduler[s] = "listening" /\ backlog[s] # <<>>
  /\ \/ /\ scheduler' = [scheduler EXCEPT ![s] = "serving"]
        /\ peer' = [peer EXCEPT ![s] = Head(backlog[s])]
        /\ backlog' = [backlog EXCEPT ![s] = Tail(@)]
     \/ SchedulerExits(s) /\ UNCHANGED peer
  /\ UNCHANGED <<init, cpu>>

(* The batch is done and "stop" is sent.                                   *)
StopCPU(s) ==
  /\ scheduler[s] = "serving"
  /\ scheduler' = [scheduler EXCEPT ![s] = "stopped"]
  /\ UNCHANGED <<init, cpu, backlog, peer>>

(* main returns: the connection and the listening socket, which nobody     *)
(* closed, go; what is still in the backlog is reset.                      *)
ExitScheduler(s) ==
  /\ scheduler[s] = "stopped"
  /\ SchedulerExits(s)
  /\ UNCHANGED <<init, cpu, peer>>

SchedulerProcess(s) == \/ ExecScheduler(s) \/ Listen(s) \/ Accept(s)
                       \/ StopCPU(s) \/ ExitScheduler(s)

-------------------------------------------------------------------------------
(* cpu_emulator                                                            *)
ExecCPU(c) ==
  /\ cpu[c] = "forked"
  /\ \E next \in {"connecting", "exited"} :
       cpu' = [cpu EXCEPT ![c] = next]
  /\ UNCHANGED <<init, scheduler, backlog, peer>>

Listeners == {s \in Runs : scheduler[s] \in {"listening", "serving", "stopped"}}

(* connect succeeds as soon as a listening socket takes the connection, be *)
(* its owner in accept or not.                                             *)
Connect(c) ==
  /\ cpu[c] = "connecting"
  /\ \E s \in Listeners : backlog' = [backlog EXCEPT ![s] = Append(@, c)]
  /\ cpu' = [cpu EXCEPT ![c] = "connected"]
  /\ UNCHANGED <<init, scheduler, peer>>

(* Nobody listens, or socket or connect fail otherwise: main returns -1.   *)
ConnectionFails(c) ==
  /\ cpu[c] = "connecting"
  /\ cpu' = [cpu EXCEPT ![c] = "exited"]
  /\ UNCHANGED <<init, scheduler, backlog, peer>>

Pending(c)   == \E s \in Runs : c \in Range(backlog[s])
PeersOf(c)   == {s \in Runs : peer[s] = c}

(* The CPU reads "stop"; or its connection was reset, the read fails, and  *)
(* sending the block it made of nothing raises SIGPIPE.                    *)
ExitCPU(c) ==
  /\ cpu[c] = "connected" /\ ~Pending(c)
  /\ \A s \in PeersOf(c) : scheduler[s] \in {"stopped", "exited"}
  /\ cpu' = [cpu EXCEPT ![c] = "exited"]
  /\ UNCHANGED <<init, scheduler, backlog, peer>>

CPUProcess(c) == ExecCPU(c) \/ Connect(c) \/ ConnectionFails(c) \/ ExitCPU(c)

Next == \E r \in Runs :
          Start(r) \/ InitProcess(r) \/ SchedulerProcess(r) \/ CPUProcess(r)

(* The operating system runs every process that is not blocked.            *)
Fairness == \A r \in Runs : /\ WF_vars(InitProcess(r))
                            /\ WF_vars(SchedulerProcess(r))
                            /\ WF_vars(CPUProcess(r))

Spec == Init /\ [][Next]_vars /\ Fairness

-------------------------------------------------------------------------------
TypeOK ==
  /\ init \in [Runs -> {"notStarted", "forkCPU", "forkScheduler", "wait",
                        "exited"}]
  /\ cpu \in [Runs -> {"none", "forked", "connecting", "connected", "exited"}]
  /\ scheduler \in [Runs -> {"none", "forked", "setup", "listening", "serving",
                             "stopped", "exited"}]
  /\ backlog \in [Runs -> Seq(Runs)]
  /\ peer \in [Runs -> Runs \cup {NoRun}]
  /\ \A s \in Runs : backlog[s] # <<>> => s \in Listeners

(* A CPU that was never accepted by a scheduler.                           *)
Lost(c) == cpu[c] = "exited" /\ PeersOf(c) = {}

(* init comes back to the shell, though it waits for a child that may be   *)
(* blocked in accept: the other child dies.  (init.c:49-81)                *)
InitReturns == \A r \in Runs : init[r] = "forkCPU" ~> init[r] = "exited"

(* No CPU emulator is left over: it is refused, stopped, or reset when the *)
(* scheduler whose backlog it was in goes.  (cpu_emulator.cpp:40-63)       *)
CPUsExit == \A c \in Runs : cpu[c] = "forked" ~> cpu[c] = "exited"

(* Whichever calls fail, of two runs at once, only schedulers may stay.    *)
(* (init.c:49-81, cpu_emulator.cpp:40-63)                                  *)
NobodyLeftOver == InitReturns /\ CPUsExit

(* A scheduler may stay in accept for ever, but only if some CPU, its own  *)
(* or another run's, was lost.  (init.c:49-65, scheduler.cpp:521)          *)
StuckOnlyIfCPULost ==
  (\A c \in Runs : []~Lost(c)) =>
    \A s \in Runs : scheduler[s] = "listening" ~> scheduler[s] = "exited"

===============================================================================
