------------------------- MODULE CpuScheduler_proofs -------------------------
(***************************************************************************)
(* What CpuScheduler guarantees for every process file and command line.   *)
(***************************************************************************)
EXTENDS CpuScheduler, SelectionLoop, FiniteSetTheorems, SequenceTheorems,
        WellFoundedInduction, TLAPS

-------------------------------------------------------------------------------
(* What appending to, splitting, joining and removing from a queue do to   *)
(* the set of its members, and when they keep them distinct.               *)

(* The members of a queue are of the queue's type.                         *)
LEMMA MembersOfSeq ==
  ASSUME NEW S, NEW s \in Seq(S)
  PROVE  Range(s) \subseteq S
<1> SUFFICES ASSUME NEW e \in Range(s) PROVE e \in S
  OBVIOUS
<1>1. PICK i \in DOMAIN s : e = s[i]
  BY DEF Range
<1> QED BY <1>1

(* Appending adds one member at the end.                                   *)
LEMMA AppendSeq ==
  ASSUME NEW S, NEW s \in Seq(S), NEW e \in S
  PROVE  /\ Append(s, e) \in Seq(S)
         /\ Range(Append(s, e)) = Range(s) \cup {e}
         /\ IsInjective(s) /\ e \notin Range(s) => IsInjective(Append(s, e))
<1> DEFINE t == Append(s, e)
<1>1. t \in Seq(S) /\ Len(t) = Len(s) + 1 /\ DOMAIN t = 1..(Len(s) + 1)
  OBVIOUS
<1>2. (\A i \in 1..Len(s) : t[i] = s[i]) /\ t[Len(s) + 1] = e
  OBVIOUS
<1> HIDE DEF t
<1>3. Range(t) = Range(s) \cup {e}
  BY <1>1, <1>2 DEF Range
<1>4. ASSUME IsInjective(s), e \notin Range(s)
      PROVE  IsInjective(t)
  BY <1>1, <1>2, <1>4 DEF Range, IsInjective
<1> QED BY <1>1, <1>3, <1>4 DEF t

(* Joining two queues joins their members.                                 *)
LEMMA ConcatSeq ==
  ASSUME NEW S, NEW s \in Seq(S), NEW t \in Seq(S)
  PROVE  /\ s \o t \in Seq(S)
         /\ Range(s \o t) = Range(s) \cup Range(t)
         /\ IsInjective(s) /\ IsInjective(t) /\ Range(s) \cap Range(t) = {}
              => IsInjective(s \o t)
<1> DEFINE u == s \o t
<1>1. u \in Seq(S) /\ Len(u) = Len(s) + Len(t)
  OBVIOUS
<1>2. \A i \in 1..Len(s) : u[i] = s[i]
  OBVIOUS
<1>3. \A i \in 1..Len(t) : u[Len(s) + i] = t[i]
  OBVIOUS
<1>4. /\ DOMAIN u = 1..(Len(s) + Len(t))
      /\ DOMAIN s = 1..Len(s) /\ DOMAIN t = 1..Len(t)
      /\ Len(s) \in Nat /\ Len(t) \in Nat
  BY <1>1
<1> HIDE DEF u
<1>5. \A i \in 1..(Len(s) + Len(t)) :
        \/ i \in 1..Len(s) /\ u[i] = s[i]
        \/ i - Len(s) \in 1..Len(t) /\ u[i] = t[i - Len(s)]
  <2> SUFFICES ASSUME NEW i \in 1..(Len(s) + Len(t)), i \notin 1..Len(s)
               PROVE  i - Len(s) \in 1..Len(t) /\ u[i] = t[i - Len(s)]
    BY <1>2
  <2>1. i - Len(s) \in 1..Len(t) /\ Len(s) + (i - Len(s)) = i
    BY <1>4
  <2> QED BY <2>1, <1>3
<1>6. Range(u) = Range(s) \cup Range(t)
  <2>1. Range(u) \subseteq Range(s) \cup Range(t)
    BY <1>4, <1>5 DEF Range
  <2>2. Range(s) \subseteq Range(u)
    BY <1>4, <1>2 DEF Range
  <2>3. Range(t) \subseteq Range(u)
    BY <1>4, <1>3 DEF Range
  <2> QED BY <2>1, <2>2, <2>3
<1>7. ASSUME IsInjective(s), IsInjective(t), Range(s) \cap Range(t) = {}
      PROVE  IsInjective(u)
  <2> SUFFICES ASSUME NEW i \in DOMAIN u, NEW j \in DOMAIN u, u[i] = u[j]
               PROVE  i = j
    BY DEF IsInjective
  <2>1. \A a \in DOMAIN s, b \in DOMAIN t : s[a] # t[b]
    BY <1>7 DEF Range
  <2> QED BY <2>1, <1>4, <1>5, <1>7 DEF IsInjective
<1> QED BY <1>1, <1>6, <1>7 DEF u

(* Cutting a queue of distinct members in two parts its members.           *)
LEMMA SplitSeq ==
  ASSUME NEW S, NEW s \in Seq(S), NEW k \in 0..Len(s)
  PROVE  LET a == SubSeq(s, 1, k)  b == SubSeq(s, k + 1, Len(s)) IN
         /\ a \in Seq(S) /\ b \in Seq(S)
         /\ Len(a) = k /\ Len(b) = Len(s) - k
         /\ Range(a) \cup Range(b) = Range(s)
         /\ IsInjective(s) => /\ IsInjective(a) /\ IsInjective(b)
                              /\ Range(a) \cap Range(b) = {}
<1> DEFINE a == SubSeq(s, 1, k)
           b == SubSeq(s, k + 1, Len(s))
<1>1. /\ a \in Seq(S) /\ b \in Seq(S)
      /\ Len(a) = k /\ Len(b) = Len(s) - k
      /\ \A j \in 1..k : a[j] = s[j]
      /\ \A j \in 1..(Len(s) - k) : b[j] = s[k + j]
  OBVIOUS
<1>2. /\ DOMAIN a = 1..k /\ DOMAIN b = 1..(Len(s) - k)
      /\ DOMAIN s = 1..Len(s) /\ Len(s) \in Nat /\ k \in Nat
  BY <1>1
<1> HIDE DEF a, b
<1>3. Range(s) \subseteq Range(a) \cup Range(b)
  <2> SUFFICES ASSUME NEW i \in 1..Len(s)
               PROVE  s[i] \in Range(a) \cup Range(b)
    BY <1>2 DEF Range
  <2>1. CASE i <= k
    <3>1. i \in DOMAIN a /\ a[i] = s[i]
      BY <2>1, <1>1, <1>2
    <3> QED BY <3>1 DEF Range
  <2>2. CASE i > k
    <3>1. i - k \in 1..(Len(s) - k) /\ k + (i - k) = i
      BY <2>2, <1>2
    <3> QED BY <3>1, <1>1, <1>2 DEF Range
  <2> QED BY <2>1, <2>2, <1>2
<1>4. /\ \A j \in DOMAIN a : j \in DOMAIN s /\ j <= k /\ a[j] = s[j]
      /\ \A j \in DOMAIN b : k + j \in DOMAIN s /\ k + j > k /\ b[j] = s[k + j]
  BY <1>1, <1>2
<1>5. Range(a) \subseteq Range(s) /\ Range(b) \subseteq Range(s)
  BY <1>4 DEF Range
<1>6. ASSUME IsInjective(s)
      PROVE  /\ IsInjective(a) /\ IsInjective(b)
             /\ Range(a) \cap Range(b) = {}
  <2>1. IsInjective(a)
    BY <1>4, <1>6 DEF IsInjective
  <2>2. IsInjective(b)
    <3> SUFFICES ASSUME NEW m \in DOMAIN b, NEW n \in DOMAIN b, b[m] = b[n]
                 PROVE  m = n
      BY DEF IsInjective
    <3>1. k + m = k + n
      BY <1>4, <1>6 DEF IsInjective
    <3> QED BY <3>1, <1>2
  <2>3. ASSUME NEW m \in DOMAIN a, NEW n \in DOMAIN b
        PROVE  a[m] # b[n]
    <3>1. m # k + n
      BY <1>2, <1>4
    <3> QED BY <3>1, <1>4, <1>6 DEF IsInjective
  <2> QED BY <2>1, <2>2, <2>3 DEF Range
<1> QED BY <1>1, <1>3, <1>5, <1>6 DEF a, b

(* Removing the i-th of distinct members leaves the others, in order.      *)
LEMMA RemoveAtSeq ==
  ASSUME NEW S, NEW s \in Seq(S), NEW i \in DOMAIN s, IsInjective(s)
  PROVE  /\ RemoveAt(s, i) \in Seq(S)
         /\ Range(RemoveAt(s, i)) = Range(s) \ {s[i]}
         /\ IsInjective(RemoveAt(s, i))
<1> DEFINE a == SubSeq(s, 1, i - 1)
           b == SubSeq(s, i, Len(s))
           c == SubSeq(s, i + 1, Len(s))
<1>1. i \in 1..Len(s) /\ i - 1 \in 0..Len(s) /\ i \in 0..Len(s)
      /\ (i - 1) + 1 = i /\ Len(s) \in Nat
  OBVIOUS
<1>2. /\ a \in Seq(S) /\ Range(a) \cup Range(b) = Range(s)
      /\ IsInjective(a) /\ Range(a) \cap Range(b) = {}
  BY <1>1, SplitSeq
<1>3. c \in Seq(S) /\ IsInjective(c)
  BY <1>1, SplitSeq
<1>4. /\ b \in Seq(S) /\ Len(b) = Len(s) - i + 1
      /\ \A j \in 1..(Len(s) - i + 1) : b[j] = s[i + j - 1]
  BY <1>1
<1>5. /\ Len(c) = Len(s) - i
      /\ \A j \in 1..(Len(s) - i) : c[j] = s[i + j]
  BY <1>1
<1> HIDE DEF a, b, c
<1>6. Range(b) = Range(c) \cup {s[i]} /\ s[i] \notin Range(c)
  <2>1. DOMAIN b = 1..(Len(s) - i + 1) /\ DOMAIN c = 1..(Len(s) - i)
    BY <1>3, <1>4, <1>5
  <2>2. \A j \in 1..(Len(s) - i + 1) :
          j = 1 \/ (j - 1 \in 1..(Len(s) - i) /\ i + (j - 1) = i + j - 1)
    BY <1>1
  <2>3. Range(b) \subseteq Range(c) \cup {s[i]}
    <3> SUFFICES ASSUME NEW j \in 1..(Len(s) - i + 1)
                 PROVE  b[j] \in Range(c) \cup {s[i]}
      BY <2>1 DEF Range
    <3>1. CASE j = 1
      BY <3>1, <1>1, <1>4
    <3>2. CASE j # 1
      <4>1. j - 1 \in 1..(Len(s) - i) /\ i + (j - 1) = i + j - 1
        BY <2>2, <3>2
      <4>2. b[j] = c[j - 1]
        BY <4>1, <1>4, <1>5
      <4> QED BY <4>1, <4>2, <2>1 DEF Range
    <3> QED BY <3>1, <3>2
  <2>4. Range(c) \subseteq Range(b)
    <3> SUFFICES ASSUME NEW j \in 1..(Len(s) - i)
                 PROVE  c[j] \in Range(b)
      BY <2>1 DEF Range
    <3>1. j + 1 \in 1..(Len(s) - i + 1) /\ i + (j + 1) - 1 = i + j
      BY <1>1
    <3>2. c[j] = b[j + 1]
      BY <3>1, <1>4, <1>5
    <3> QED BY <3>1, <3>2, <2>1 DEF Range
  <2>5. s[i] \in Range(b)
    <3>1. 1 \in 1..(Len(s) - i + 1) /\ i + 1 - 1 = i
      BY <1>1
    <3> QED BY <3>1, <1>4, <2>1 DEF Range
  <2>6. s[i] \notin Range(c)
    <3> SUFFICES ASSUME NEW j \in 1..(Len(s) - i)
                 PROVE  c[j] # s[i]
      BY <2>1 DEF Range
    <3>1. i + j \in DOMAIN s /\ i + j # i
      BY <1>1
    <3> QED BY <3>1, <1>5 DEF IsInjective
  <2> QED BY <2>3, <2>4, <2>5, <2>6
<1>7. Range(a) \cap Range(c) = {} /\ s[i] \notin Range(a)
  BY <1>2, <1>6
<1>8. /\ a \o c \in Seq(S) /\ Range(a \o c) = Range(a) \cup Range(c)
      /\ IsInjective(a \o c)
  BY <1>2, <1>3, <1>7, ConcatSeq
<1>9. RemoveAt(s, i) = a \o c
  BY DEF RemoveAt, a, c
<1> QED BY <1>2, <1>6, <1>7, <1>8, <1>9

(* Popping the front takes one member out.                                 *)
LEMMA HeadTailSeq ==
  ASSUME NEW S, NEW s \in Seq(S), s # <<>>
  PROVE  /\ Head(s) \in S /\ Tail(s) \in Seq(S)
         /\ Range(s) = {Head(s)} \cup Range(Tail(s))
         /\ IsInjective(s) => Head(s) \notin Range(Tail(s))
                              /\ IsInjective(Tail(s))
<1> DEFINE t == Tail(s)
<1>1. /\ t \in Seq(S) /\ Len(s) \in Nat /\ Len(s) >= 1
      /\ Len(t) = Len(s) - 1 /\ Head(s) = s[1]
      /\ \A j \in 1..(Len(s) - 1) : t[j] = s[j + 1]
  OBVIOUS
<1>2. DOMAIN s = 1..Len(s) /\ DOMAIN t = 1..(Len(s) - 1)
  BY <1>1
<1> HIDE DEF t
<1>3. Range(s) = {s[1]} \cup Range(t)
  <2>1. ASSUME NEW j \in 1..Len(s), j # 1
        PROVE  s[j] \in Range(t)
    <3>1. j - 1 \in 1..(Len(s) - 1) /\ t[j - 1] = s[(j - 1) + 1]
      BY <2>1, <1>1
    <3>2. (j - 1) + 1 = j
      BY <2>1
    <3> QED BY <3>1, <3>2, <1>2 DEF Range
  <2>2. ASSUME NEW j \in 1..(Len(s) - 1)
        PROVE  t[j] \in Range(s)
    <3>1. j + 1 \in 1..Len(s) /\ t[j] = s[j + 1]
      BY <1>1
    <3> QED BY <3>1, <1>2 DEF Range
  <2>3. s[1] \in Range(s)
    BY <1>1, <1>2 DEF Range
  <2> QED BY <2>1, <2>2, <2>3, <1>2 DEF Range
<1>4. ASSUME IsInjective(s)
      PROVE  s[1] \notin Range(t) /\ IsInjective(t)
  <2>1. \A j \in 1..(Len(s) - 1) :
          j + 1 \in DOMAIN s /\ 1 \in DOMAIN s /\ j + 1 # 1 /\ t[j] = s[j + 1]
    BY <1>1, <1>2
  <2>2. s[1] \notin Range(t)
    <3>1. \A j \in 1..(Len(s) - 1) : t[j] # s[1]
      BY <2>1, <1>4 DEF IsInjective
    <3> QED BY <3>1, <1>2 DEF Range
  <2>3. ASSUME NEW a \in DOMAIN t, NEW b \in DOMAIN t, t[a] = t[b]
        PROVE  a = b
    <3>1. a + 1 = b + 1
      BY <2>1, <2>3, <1>2, <1>4 DEF IsInjective
    <3> QED BY <3>1, <1>2, <1>1
  <2> QED BY <2>2, <2>3 DEF IsInjective
<1> QED BY <1>1, <1>3, <1>4 DEF t

-------------------------------------------------------------------------------
(* The queues of the scheduler.                                            *)

(* The inductive invariant: types, homes and the state of the wire prove   *)
(* each other, since a queue stays free of repetitions only if the block   *)
(* the CPU returns is the block that was dispatched.                       *)
IInv == TypeOK /\ OneHomePerProcess /\ Lockstep

(* Processes are numbered from 1, so that None is not one of them.         *)
LEMMA ProcessNumbers ==
  ASSUME TypeOK
  PROVE  /\ batch \in Seq(Row) /\ Len(batch) \in Nat
         /\ Processes = 1..Len(batch) /\ None \notin Processes
         /\ \A p \in Processes : batch[p] \in Row
         /\ mode \in Mode /\ mode.quantum \in Nat /\ mode.quantum > 0
<1>1. batch \in Seq(Row) /\ mode \in Mode
  BY BatchesAssumption, ModesAssumption DEF TypeOK
<1>2. Processes = 1..Len(batch) /\ Len(batch) \in Nat
  BY <1>1 DEF Processes
<1>3. \A p \in Processes : batch[p] \in Row
  BY <1>1, <1>2
<1>4. mode.quantum \in Nat /\ mode.quantum > 0
  BY <1>1 DEF Mode
<1> QED BY <1>1, <1>2, <1>3, <1>4 DEF None

(* A block that names a process and carries counters is a PCB.             *)
LEMMA BlockIsPCB ==
  ASSUME TypeOK, NEW p \in Processes, NEW r \in Nat, NEW c \in Nat
  PROVE  [process |-> p, est_remaining_runtime |-> r,
          context_switches |-> c] \in PCB
BY ProcessNumbers DEF PCB

(* updateProcessQueue moves rows from one queue to the other.              *)
LEMMA AdmitKeepsHomes ==
  ASSUME TypeOK, OneHomePerProcess, NEW k \in 0..Len(waitQueue)
  PROVE  /\ Admitted(k) \in Seq(Processes) /\ StillWaiting(k) \in Seq(Processes)
         /\ IsInjective(Admitted(k)) /\ IsInjective(StillWaiting(k))
         /\ Range(Admitted(k)) \cap Range(StillWaiting(k)) = {}
         /\ Range(Admitted(k)) \cup Range(StillWaiting(k))
              = Range(processQueue) \cup Range(waitQueue)
<1> DEFINE a == SubSeq(waitQueue, 1, k)
           b == SubSeq(waitQueue, k + 1, Len(waitQueue))
<1>1. /\ waitQueue \in Seq(Processes) /\ processQueue \in Seq(Processes)
      /\ IsInjective(waitQueue) /\ IsInjective(processQueue)
      /\ Range(waitQueue) \cap Range(processQueue) = {}
  BY DEF TypeOK, OneHomePerProcess
<1>2. /\ a \in Seq(Processes) /\ b \in Seq(Processes)
      /\ Range(a) \cup Range(b) = Range(waitQueue)
      /\ IsInjective(a) /\ IsInjective(b) /\ Range(a) \cap Range(b) = {}
  BY <1>1, SplitSeq
<1> HIDE DEF a, b
<1>3. /\ processQueue \o a \in Seq(Processes)
      /\ Range(processQueue \o a) = Range(processQueue) \cup Range(a)
      /\ IsInjective(processQueue \o a)
  BY <1>1, <1>2, ConcatSeq
<1>4. Admitted(k) = processQueue \o a /\ StillWaiting(k) = b
  BY DEF Admitted, StillWaiting, a, b
<1> QED BY <1>1, <1>2, <1>3, <1>4

(* Taking one of them leaves all others where they were.                   *)
LEMMA SelectKeepsHomes ==
  ASSUME TypeOK, OneHomePerProcess,
         NEW k \in 0..Len(waitQueue), NEW i, Select(k, i)
  PROVE  LET p == Admitted(k)[i] IN
         /\ p \in Processes
         /\ waitQueue' \in Seq(Processes) /\ processQueue' \in Seq(Processes)
         /\ IsInjective(waitQueue') /\ IsInjective(processQueue')
         /\ Range(waitQueue') \cap Range(processQueue') = {}
         /\ p \notin Range(waitQueue') /\ p \notin Range(processQueue')
         /\ Range(waitQueue') \cup Range(processQueue') \cup {p}
              = Range(waitQueue) \cup Range(processQueue)
<1> DEFINE q == Admitted(k)
<1>1. /\ i \in DOMAIN q /\ waitQueue' = StillWaiting(k)
      /\ processQueue' = RemoveAt(q, i)
  BY DEF Select
<1>2. /\ q \in Seq(Processes) /\ StillWaiting(k) \in Seq(Processes)
      /\ IsInjective(q) /\ IsInjective(StillWaiting(k))
      /\ Range(q) \cap Range(StillWaiting(k)) = {}
      /\ Range(q) \cup Range(StillWaiting(k))
           = Range(processQueue) \cup Range(waitQueue)
  BY AdmitKeepsHomes
<1> HIDE DEF q
<1>3. /\ RemoveAt(q, i) \in Seq(Processes)
      /\ Range(RemoveAt(q, i)) = Range(q) \ {q[i]}
      /\ IsInjective(RemoveAt(q, i))
  BY <1>1, <1>2, RemoveAtSeq
<1>4. q[i] \in Range(q)
  BY <1>1 DEF Range
<1>5. q[i] \in Processes
  BY <1>1, <1>2
<1> QED BY <1>1, <1>2, <1>3, <1>4, <1>5 DEF q

(* Recording a completion keeps the types and adds one completed process.  *)
LEMMA CompletionTypes ==
  ASSUME TypeOK, NEW p \in Processes, NEW t \in Nat, ProcessCompleted(p, t),
         batch' = batch, mode' = mode,
         waitQueue' \in Seq(Processes), processQueue' \in Seq(Processes),
         est_remaining_runtime' \in [Processes -> Nat],
         context_switches' \in [Processes -> Nat],
         cpu' \in {"running", "halted"},
         toCPU' \in Seq(PCB \cup {Stop}), toScheduler' \in Seq(PCB)
  PROVE  /\ TypeOK'
         /\ Range(completedProcesses') = Range(completedProcesses) \cup {p}
         /\ IsInjective(completedProcesses) /\ p \notin Range(completedProcesses)
              => IsInjective(completedProcesses')
         /\ temp' = None /\ pc' = "schedule"
<1>1. /\ turnaround_time' = [turnaround_time EXCEPT ![p] =
                               t - batch[p].arrival_time]
      /\ wait_time' = [wait_time EXCEPT ![p] =
                         t - batch[p].arrival_time - batch[p].est_runtime]
      /\ completedProcesses' = Append(completedProcesses, p)
      /\ temp' = None /\ TIME' = t + 1 /\ pc' = "schedule"
  BY DEF ProcessCompleted
<1>2. batch[p].arrival_time \in Nat /\ batch[p].est_runtime \in Nat
  BY ProcessNumbers DEF Row
<1>3. /\ t - batch[p].arrival_time \in Int
      /\ t - batch[p].arrival_time - batch[p].est_runtime \in Int
  BY <1>2
<1>4. /\ turnaround_time' \in [Processes -> Int]
      /\ wait_time' \in [Processes -> Int]
  BY <1>1, <1>3 DEF TypeOK
<1>5. completedProcesses' \in Seq(Processes)
  BY <1>1 DEF TypeOK
<1>6. Processes' = Processes
  BY DEF Processes
<1>7. /\ batch \in Batches /\ mode \in Modes
      /\ completedProcesses \in Seq(Processes)
  BY DEF TypeOK
<1>8. TypeOK'
  <2>1. batch' \in Batches /\ mode' \in Modes /\ TIME' \in Nat
    BY <1>1, <1>7
  <2> QED BY <1>1, <1>4, <1>5, <1>6, <2>1 DEF TypeOK
<1>9. /\ Range(Append(completedProcesses, p)) = Range(completedProcesses) \cup {p}
      /\ IsInjective(completedProcesses) /\ p \notin Range(completedProcesses)
           => IsInjective(Append(completedProcesses, p))
  BY <1>7, AppendSeq
<1> QED BY <1>1, <1>8, <1>9

(* A visit to the CPU never turns the clock back.  When the clock counts   *)
(* the work, it advances by at least the work the burst did.               *)
LEMMA TimePassedBounds ==
  ASSUME TypeOK, temp \in Processes
  PROVE  /\ TimePassed(temp) \in Nat
         /\ ClockCountsWork =>
              TimePassed(temp) >= est_remaining_runtime[temp]
                                    - AfterBurst(est_remaining_runtime[temp])
<1>1. /\ est_remaining_runtime[temp] \in Nat
      /\ mode.quantum \in Nat /\ mode.quantum > 0
  BY ProcessNumbers DEF TypeOK
<1> QED BY <1>1 DEF TimePassed, AfterBurst, ClockCountsWork

(* What the scheduler reads is the block it dispatched, one burst later.   *)
LEMMA ReturnedBlock ==
  ASSUME IInv, Receive
  PROVE  /\ temp \in Processes /\ cpu = "running"
         /\ toCPU = <<>> /\ toScheduler' = <<>>
         /\ Returned.process = temp
         /\ Returned.est_remaining_runtime
              = AfterBurst(est_remaining_runtime[temp])
         /\ Returned.context_switches = context_switches[temp] + 1
         /\ AfterBurst(est_remaining_runtime[temp]) \in Nat
         /\ context_switches[temp] + 1 \in Nat
         /\ est_remaining_runtime' \in [Processes -> Nat]
         /\ context_switches' \in [Processes -> Nat]
         /\ est_remaining_runtime' = [est_remaining_runtime EXCEPT
              ![temp] = AfterBurst(est_remaining_runtime[temp])]
         /\ context_switches' = [context_switches EXCEPT
              ![temp] = context_switches[temp] + 1]
<1>1. pc = "await" /\ toScheduler # <<>> /\ toScheduler' = Tail(toScheduler)
  BY DEF Receive
<1>2. temp \in Processes /\ cpu = "running"
  BY <1>1 DEF IInv, TypeOK, Lockstep
<1> DEFINE m == [process |-> temp,
                 est_remaining_runtime |->
                   AfterBurst(est_remaining_runtime[temp]),
                 context_switches |-> context_switches[temp] + 1]
<1>3. toCPU = <<>> /\ toScheduler = <<m>>
  BY <1>1 DEF IInv, Lockstep
<1>4. Returned = m /\ toScheduler' = <<>>
  BY <1>1, <1>3 DEF Returned
<1>5. /\ est_remaining_runtime[temp] \in Nat /\ context_switches[temp] \in Nat
      /\ mode.quantum \in Nat
  BY <1>2, ProcessNumbers DEF IInv, TypeOK
<1>6. /\ AfterBurst(est_remaining_runtime[temp]) \in Nat
      /\ context_switches[temp] + 1 \in Nat
  BY <1>5 DEF AfterBurst
<1>7. /\ est_remaining_runtime' = [est_remaining_runtime EXCEPT
           ![temp] = AfterBurst(est_remaining_runtime[temp])]
      /\ context_switches' = [context_switches EXCEPT
           ![temp] = context_switches[temp] + 1]
  BY <1>4 DEF Receive
<1>8. /\ est_remaining_runtime' \in [Processes -> Nat]
      /\ context_switches' \in [Processes -> Nat]
  BY <1>6, <1>7 DEF IInv, TypeOK
<1> QED BY <1>2, <1>3, <1>4, <1>6, <1>7, <1>8

-------------------------------------------------------------------------------
(* The inductive step, one lemma for each action of the scheduler.         *)

(* At the start every process waits and the wire is empty.                 *)
LEMMA InitIInv == Init => IInv
<1> SUFFICES ASSUME Init PROVE IInv
  OBVIOUS
<1>1. batch \in Seq(Row) /\ mode \in Modes
  BY BatchesAssumption DEF Init
<1>2. Processes = 1..Len(batch) /\ Len(batch) \in Nat
  BY <1>1 DEF Processes
<1>3. \A p \in Processes : batch[p].est_runtime \in Nat
  <2>1. \A p \in Processes : batch[p] \in Row
    BY <1>1, <1>2
  <2> QED BY <2>1 DEF Row
<1>4. waitQueue \in Seq(Processes)
  BY <1>2 DEF Init
<1>5. TypeOK
  BY <1>2, <1>3, <1>4 DEF Init, TypeOK
<1>6. /\ IsInjective(waitQueue) /\ Range(waitQueue) = Processes
      /\ IsInjective(<<>>) /\ Range(<<>>) = {}
  BY DEF Init, IsInjective, Range
<1>7. OneHomePerProcess
  BY <1>6 DEF Init, OneHomePerProcess
<1>8. Lockstep
  BY DEF Init, Lockstep
<1> QED BY <1>5, <1>7, <1>8 DEF IInv

LEMMA DispatchIInv == IInv /\ Dispatch => IInv'
<1> SUFFICES ASSUME IInv, Dispatch PROVE IInv'
  OBVIOUS
<1> USE DEF IInv
<1>1. PICK k \in 0..Len(waitQueue), i \in 1..Len(batch) :
        /\ Select(k, i)
        /\ LET p == Admitted(k)[i] IN
           /\ mode.policy = "RR" \/ est_remaining_runtime[p] > 0
           /\ temp' = p /\ pc' = "await" /\ TIME' = TIME + 2
           /\ Send(p, est_remaining_runtime[p], context_switches[p])
        /\ UNCHANGED <<input, pcbs, completedProcesses, cpu, toScheduler>>
  BY DEF Dispatch
<1> DEFINE p == Admitted(k)[i]
<1>2. /\ p \in Processes
      /\ waitQueue' \in Seq(Processes) /\ processQueue' \in Seq(Processes)
      /\ IsInjective(waitQueue') /\ IsInjective(processQueue')
      /\ Range(waitQueue') \cap Range(processQueue') = {}
      /\ p \notin Range(waitQueue') /\ p \notin Range(processQueue')
      /\ Range(waitQueue') \cup Range(processQueue') \cup {p}
           = Range(waitQueue) \cup Range(processQueue)
  BY <1>1, SelectKeepsHomes
<1> HIDE DEF p
<1>3. /\ batch' = batch /\ mode' = mode /\ Processes' = Processes
      /\ est_remaining_runtime' = est_remaining_runtime
      /\ context_switches' = context_switches
      /\ turnaround_time' = turnaround_time /\ wait_time' = wait_time
      /\ completedProcesses' = completedProcesses /\ cpu' = cpu
      /\ toScheduler' = toScheduler
  BY <1>1 DEF input, pcbs, Processes
<1>4. /\ pc = "schedule" /\ temp = None /\ toCPU = <<>> /\ toScheduler = <<>>
      /\ cpu = "running" /\ pc' = "await" /\ temp' = p /\ TIME' = TIME + 2
  BY <1>1 DEF Select, AtLoopTop, Lockstep, p
<1> DEFINE m == [process |-> p,
                 est_remaining_runtime |-> est_remaining_runtime[p],
                 context_switches |-> context_switches[p]]
<1>5. toCPU' = <<m>>
  BY <1>1, <1>4 DEF Send, p
<1>6. m \in PCB
  BY <1>2, BlockIsPCB DEF TypeOK
<1>7. TypeOK'
  BY <1>2, <1>3, <1>4, <1>5, <1>6 DEF TypeOK
<1>8. OneHomePerProcess'
  <2>1. p # None
    BY <1>2, ProcessNumbers
  <2>2. ({temp} \ {None})' = {p} /\ {temp} \ {None} = {}
    BY <1>4, <2>1 DEF None
  <2> QED BY <1>2, <1>3, <2>2 DEF OneHomePerProcess
<1>9. Lockstep'
  BY <1>2, <1>3, <1>4, <1>5, ProcessNumbers DEF Lockstep, None
<1> QED BY <1>7, <1>8, <1>9

LEMMA CompleteWithoutRunningIInv == IInv /\ CompleteWithoutRunning => IInv'
<1> SUFFICES ASSUME IInv, CompleteWithoutRunning PROVE IInv'
  OBVIOUS
<1> USE DEF IInv
<1>1. PICK k \in 0..Len(waitQueue), i \in 1..Len(batch) :
        /\ Select(k, i)
        /\ LET p == Admitted(k)[i] IN
           /\ mode.policy # "RR" /\ est_remaining_runtime[p] = 0
           /\ ProcessCompleted(p, TIME + 2)
        /\ UNCHANGED <<input, est_remaining_runtime, context_switches, cpu,
                       wire>>
  BY DEF CompleteWithoutRunning
<1> DEFINE p == Admitted(k)[i]
<1>2. /\ p \in Processes
      /\ waitQueue' \in Seq(Processes) /\ processQueue' \in Seq(Processes)
      /\ IsInjective(waitQueue') /\ IsInjective(processQueue')
      /\ Range(waitQueue') \cap Range(processQueue') = {}
      /\ p \notin Range(waitQueue') /\ p \notin Range(processQueue')
      /\ Range(waitQueue') \cup Range(processQueue') \cup {p}
           = Range(waitQueue) \cup Range(processQueue)
  BY <1>1, SelectKeepsHomes
<1> HIDE DEF p
<1>3. /\ batch' = batch /\ mode' = mode /\ Processes' = Processes
      /\ est_remaining_runtime' = est_remaining_runtime
      /\ context_switches' = context_switches /\ cpu' = cpu
      /\ toCPU' = toCPU /\ toScheduler' = toScheduler
  BY <1>1 DEF input, wire, Processes
<1>4. /\ ProcessCompleted(p, TIME + 2) /\ pc = "schedule" /\ temp = None
  BY <1>1 DEF Select, AtLoopTop, Lockstep, p
<1>5. /\ TypeOK' /\ temp' = None /\ pc' = "schedule"
      /\ Range(completedProcesses') = Range(completedProcesses) \cup {p}
      /\ IsInjective(completedProcesses) /\ p \notin Range(completedProcesses)
           => IsInjective(completedProcesses')
  <2>1. TIME + 2 \in Nat
    BY DEF TypeOK
  <2> QED BY <1>2, <1>3, <1>4, <2>1, CompletionTypes DEF TypeOK
<1>6. p \notin Range(completedProcesses)
  BY <1>2 DEF OneHomePerProcess
<1>7. OneHomePerProcess'
  BY <1>2, <1>3, <1>4, <1>5, <1>6 DEF OneHomePerProcess
<1>8. Lockstep'
  BY <1>3, <1>4, <1>5 DEF Lockstep
<1> QED BY <1>5, <1>7, <1>8

LEMMA DispatchAgainIInv == IInv /\ DispatchAgain => IInv'
<1> SUFFICES ASSUME IInv, DispatchAgain PROVE IInv'
  OBVIOUS
<1> USE DEF IInv
<1>1. /\ temp \in Processes /\ cpu = "running"
      /\ toCPU = <<>> /\ toScheduler' = <<>> /\ Returned.process = temp
      /\ Returned.est_remaining_runtime
           = AfterBurst(est_remaining_runtime[temp])
      /\ Returned.context_switches = context_switches[temp] + 1
      /\ est_remaining_runtime' \in [Processes -> Nat]
      /\ context_switches' \in [Processes -> Nat]
      /\ est_remaining_runtime'[temp] = Returned.est_remaining_runtime
      /\ context_switches'[temp] = Returned.context_switches
  BY ReturnedBlock DEF DispatchAgain, TypeOK
<1>2. PICK k \in 0..Len(waitQueue) :
        processQueue' = Admitted(k) /\ waitQueue' = StillWaiting(k)
  BY DEF DispatchAgain
<1>3. /\ processQueue' \in Seq(Processes) /\ waitQueue' \in Seq(Processes)
      /\ IsInjective(processQueue') /\ IsInjective(waitQueue')
      /\ Range(processQueue') \cap Range(waitQueue') = {}
      /\ Range(processQueue') \cup Range(waitQueue')
           = Range(processQueue) \cup Range(waitQueue)
  BY <1>2, AdmitKeepsHomes
<1>4. /\ batch' = batch /\ mode' = mode /\ Processes' = Processes
      /\ pc' = pc /\ pc = "await" /\ temp' = temp /\ TIME' = TIME + 1
      /\ turnaround_time' = turnaround_time /\ wait_time' = wait_time
      /\ completedProcesses' = completedProcesses /\ cpu' = cpu
  BY <1>1 DEF DispatchAgain, Receive, input, Processes
<1> DEFINE m == [process |-> temp,
                 est_remaining_runtime |-> est_remaining_runtime'[temp],
                 context_switches |-> context_switches'[temp]]
<1>5. toCPU' = <<m>>
  BY <1>1 DEF DispatchAgain, Send
<1>6. m \in PCB
  BY <1>1, BlockIsPCB
<1>7. TypeOK'
  BY <1>1, <1>3, <1>4, <1>5, <1>6 DEF TypeOK
<1>8. OneHomePerProcess'
  BY <1>3, <1>4 DEF OneHomePerProcess
<1>9. Lockstep'
  BY <1>1, <1>4, <1>5, ProcessNumbers DEF Lockstep
<1> QED BY <1>7, <1>8, <1>9
LEMMA PushBackIInv == IInv /\ PushBack => IInv'
<1> SUFFICES ASSUME IInv, PushBack PROVE IInv'
  OBVIOUS
<1> USE DEF IInv
<1>1. /\ temp \in Processes /\ cpu = "running"
      /\ toCPU = <<>> /\ toScheduler' = <<>> /\ Returned.process = temp
      /\ est_remaining_runtime' \in [Processes -> Nat]
      /\ context_switches' \in [Processes -> Nat]
  BY ReturnedBlock DEF PushBack
<1>2. PICK k \in 0..Len(waitQueue) :
        /\ processQueue' = Append(Admitted(k), temp)
        /\ waitQueue' = StillWaiting(k)
  BY <1>1 DEF PushBack
<1> DEFINE q == Admitted(k)
<1>3. /\ q \in Seq(Processes) /\ waitQueue' \in Seq(Processes)
      /\ IsInjective(q) /\ IsInjective(waitQueue')
      /\ Range(q) \cap Range(waitQueue') = {}
      /\ Range(q) \cup Range(waitQueue')
           = Range(processQueue) \cup Range(waitQueue)
  BY <1>2, AdmitKeepsHomes
<1>4. /\ batch' = batch /\ mode' = mode /\ Processes' = Processes
      /\ pc' = "schedule" /\ temp' = None
      /\ TIME' = TIME + TimePassed(temp)
      /\ turnaround_time' = turnaround_time /\ wait_time' = wait_time
      /\ completedProcesses' = completedProcesses
      /\ cpu' = cpu /\ toCPU' = toCPU
  BY DEF PushBack, input, Processes
<1>5. temp # None /\ temp \notin Range(q) \cup Range(waitQueue')
                                   \cup Range(completedProcesses)
  BY <1>1, <1>3, ProcessNumbers DEF OneHomePerProcess
<1>6. processQueue' = Append(q, temp)
  BY <1>2
<1> HIDE DEF q
<1>7. /\ processQueue' \in Seq(Processes) /\ IsInjective(processQueue')
      /\ Range(processQueue') = Range(q) \cup {temp}
  BY <1>1, <1>3, <1>5, <1>6, AppendSeq
<1>8. TIME' \in Nat
  <2>1. TIME \in Nat
    BY DEF TypeOK
  <2>2. TimePassed(temp) \in Nat
    BY <1>1, TimePassedBounds
  <2> QED
    BY <1>4, <2>1, <2>2
<1>9. TypeOK'
  BY <1>1, <1>3, <1>4, <1>7, <1>8 DEF TypeOK
<1>10. OneHomePerProcess'
  <2>1. {temp} \ {None} = {temp} /\ ({temp} \ {None})' = {}
    BY <1>4, <1>5 DEF None
  <2> QED BY <1>3, <1>4, <1>5, <1>7, <2>1 DEF OneHomePerProcess
<1>11. Lockstep'
  BY <1>1, <1>4 DEF Lockstep, None
<1> QED BY <1>9, <1>10, <1>11

LEMMA CompleteIInv == IInv /\ Complete => IInv'
<1> SUFFICES ASSUME IInv, Complete PROVE IInv'
  OBVIOUS
<1> USE DEF IInv
<1>1. /\ temp \in Processes /\ cpu = "running"
      /\ toCPU = <<>> /\ toScheduler' = <<>> /\ Returned.process = temp
      /\ est_remaining_runtime' \in [Processes -> Nat]
      /\ context_switches' \in [Processes -> Nat]
  BY ReturnedBlock DEF Complete
<1> DEFINE t == TIME + TimePassed(temp)
<1>2. PICK k \in 0..Len(waitQueue) :
        processQueue' = Admitted(k) /\ waitQueue' = StillWaiting(k)
  BY DEF Complete
<1>3. /\ processQueue' \in Seq(Processes) /\ waitQueue' \in Seq(Processes)
      /\ IsInjective(processQueue') /\ IsInjective(waitQueue')
      /\ Range(processQueue') \cap Range(waitQueue') = {}
      /\ Range(processQueue') \cup Range(waitQueue')
           = Range(processQueue) \cup Range(waitQueue)
  BY <1>2, AdmitKeepsHomes
<1>4. /\ batch' = batch /\ mode' = mode /\ Processes' = Processes
      /\ cpu' = cpu /\ toCPU' = toCPU
      /\ ProcessCompleted(temp, t)
  BY <1>1 DEF Complete, input, Processes
<1>5. t \in Nat
  <2>1. TIME \in Nat
    BY DEF TypeOK
  <2>2. TimePassed(temp) \in Nat
    BY <1>1, TimePassedBounds
  <2> QED
    BY <2>1, <2>2
<1> HIDE DEF t
<1>6. /\ TypeOK' /\ temp' = None /\ pc' = "schedule"
      /\ Range(completedProcesses') = Range(completedProcesses) \cup {temp}
      /\ IsInjective(completedProcesses) /\ temp \notin Range(completedProcesses)
           => IsInjective(completedProcesses')
  <2>1. toCPU' \in Seq(PCB \cup {Stop}) /\ toScheduler' \in Seq(PCB)
        /\ cpu' \in {"running", "halted"}
    BY <1>1, <1>4 DEF TypeOK
  <2> QED BY <1>1, <1>3, <1>4, <1>5, <2>1, CompletionTypes
<1>7. temp # None /\ temp \notin Range(waitQueue) \cup Range(processQueue)
                                   \cup Range(completedProcesses)
  BY <1>1, ProcessNumbers DEF OneHomePerProcess
<1>8. OneHomePerProcess'
  <2>1. {temp} \ {None} = {temp} /\ ({temp} \ {None})' = {}
    BY <1>6, <1>7 DEF None
  <2> QED BY <1>3, <1>4, <1>6, <1>7, <2>1 DEF OneHomePerProcess
<1>9. Lockstep'
  BY <1>1, <1>4, <1>6 DEF Lockstep, None
<1> QED BY <1>6, <1>8, <1>9

(* The actions that move no process: idling, stopping, and the CPU's two.  *)
LEMMA OtherStepsIInv ==
  IInv /\ (Idle \/ Finish \/ CPU \/ UNCHANGED vars) => IInv'
<1> SUFFICES ASSUME IInv, Idle \/ Finish \/ CPU \/ UNCHANGED vars
             PROVE  IInv'
  OBVIOUS
<1> USE DEF IInv
<1>1. /\ batch' = batch /\ mode' = mode /\ Processes' = Processes
      /\ waitQueue' = waitQueue /\ processQueue' = processQueue
      /\ temp' = temp /\ completedProcesses' = completedProcesses
      /\ est_remaining_runtime' = est_remaining_runtime
      /\ context_switches' = context_switches
      /\ turnaround_time' = turnaround_time /\ wait_time' = wait_time
  BY DEF Idle, Finish, CPU, ExecuteBurst, Halt, vars, input, pcbs, Processes
<1>2. OneHomePerProcess'
  BY <1>1 DEF OneHomePerProcess
<1>3. CASE Idle
  <2>1. /\ TIME' = TIME + 1 /\ pc' = pc /\ cpu' = cpu
        /\ toCPU' = toCPU /\ toScheduler' = toScheduler
    BY <1>3 DEF Idle, wire
  <2>2. TypeOK'
    BY <1>1, <2>1 DEF TypeOK
  <2>3. Lockstep'
    BY <1>1, <2>1 DEF Lockstep, AfterBurst
  <2> QED BY <1>2, <2>2, <2>3
<1>4. CASE Finish
  <2>1. /\ pc = "schedule" /\ pc' = "stopped" /\ TIME' = TIME /\ cpu' = cpu
        /\ toCPU' = Append(toCPU, Stop) /\ toScheduler' = toScheduler
    BY <1>4 DEF Finish
  <2>2. toCPU' = <<Stop>>
    BY <2>1 DEF Lockstep
  <2>3. TypeOK'
    BY <1>1, <2>1, <2>2 DEF TypeOK
  <2>4. Lockstep'
    BY <1>1, <2>1, <2>2 DEF Lockstep
  <2> QED BY <1>2, <2>3, <2>4
<1>5. CASE ExecuteBurst
  <2>1. /\ toCPU # <<>> /\ Head(toCPU) # Stop /\ toCPU' = Tail(toCPU)
        /\ pc' = pc /\ TIME' = TIME /\ cpu' = cpu
        /\ toScheduler' = Append(toScheduler,
             [process |-> Head(toCPU).process,
              est_remaining_runtime |->
                AfterBurst(Head(toCPU).est_remaining_runtime),
              context_switches |-> Head(toCPU).context_switches + 1])
    BY <1>5 DEF ExecuteBurst
  <2>2. pc = "await"
    BY <2>1 DEF Lockstep, TypeOK
  <2> DEFINE r == est_remaining_runtime[temp]
             c == context_switches[temp]
  <2>3. /\ temp \in Processes /\ temp # None /\ cpu = "running"
        /\ toScheduler = <<>>
        /\ toCPU = <<[process |-> temp, est_remaining_runtime |-> r,
                      context_switches |-> c]>>
    BY <2>1, <2>2 DEF Lockstep, TypeOK
  <2>4. /\ toCPU' = <<>>
        /\ toScheduler' = <<[process |-> temp,
                             est_remaining_runtime |-> AfterBurst(r),
                             context_switches |-> c + 1]>>
    <3>1. /\ Head(toCPU).process = temp
          /\ Head(toCPU).est_remaining_runtime = r
          /\ Head(toCPU).context_switches = c
          /\ toCPU' = <<>>
      BY <2>1, <2>3
    <3> QED BY <2>1, <2>3, <3>1
  <2>5. r \in Nat /\ c \in Nat /\ mode.quantum \in Nat
    BY <2>3, ProcessNumbers DEF TypeOK
  <2>6. AfterBurst(r) \in Nat /\ c + 1 \in Nat
    BY <2>5 DEF AfterBurst
  <2>7. toScheduler' \in Seq(PCB) /\ toCPU' \in Seq(PCB \cup {Stop})
    BY <2>3, <2>4, <2>6, BlockIsPCB
  <2>8. TypeOK'
    BY <1>1, <2>1, <2>7 DEF TypeOK
  <2>9. AfterBurst(r)' = AfterBurst(r)
    BY <1>1 DEF AfterBurst
  <2>10. Lockstep'
    BY <1>1, <2>1, <2>2, <2>3, <2>4, <2>9 DEF Lockstep
  <2> QED BY <1>2, <2>8, <2>10
<1>6. CASE Halt
  <2>1. /\ toCPU # <<>> /\ Head(toCPU) = Stop /\ toCPU' = Tail(toCPU)
        /\ pc' = pc /\ TIME' = TIME /\ cpu' = "halted"
        /\ toScheduler' = toScheduler
    BY <1>6 DEF Halt
  <2>2. pc = "stopped"
    <3> SUFFICES ASSUME pc = "await" PROVE FALSE
      BY <2>1 DEF Lockstep, TypeOK
    <3>1. temp \in Processes
      BY DEF Lockstep, TypeOK
    <3>2. est_remaining_runtime[temp] \in Nat /\ context_switches[temp] \in Nat
      BY <3>1 DEF TypeOK
    <3>3. Stop \in PCB
      BY <2>1, <3>1, <3>2, BlockIsPCB DEF Lockstep
    <3> QED BY <3>3, StopAssumption
  <2>3. toCPU' = <<>> /\ toScheduler = <<>>
    BY <2>1, <2>2 DEF Lockstep
  <2>4. TypeOK'
    BY <1>1, <2>1, <2>3 DEF TypeOK
  <2>5. Lockstep'
    BY <1>1, <2>1, <2>2, <2>3 DEF Lockstep
  <2> QED BY <1>2, <2>4, <2>5
<1>7. CASE UNCHANGED vars
  <2>1. /\ pc' = pc /\ TIME' = TIME /\ cpu' = cpu
        /\ toCPU' = toCPU /\ toScheduler' = toScheduler
    BY <1>7 DEF vars, wire
  <2>2. TypeOK'
    BY <1>1, <2>1 DEF TypeOK
  <2>3. Lockstep'
    BY <1>1, <2>1 DEF Lockstep, AfterBurst
  <2> QED BY <1>2, <2>2, <2>3
<1> QED BY <1>3, <1>4, <1>5, <1>6, <1>7 DEF CPU

-------------------------------------------------------------------------------
(* The invariant is inductive.                                             *)
LEMMA StepIInv == IInv /\ [Next]_vars => IInv'
BY DispatchIInv, CompleteWithoutRunningIInv, DispatchAgainIInv, PushBackIInv,
   CompleteIInv, OtherStepsIInv DEF Next, Scheduler, Terminated

(* The invariant holds in every reachable state of the two programs.       *)
THEOREM Invariance == Spec => []IInv
BY InitIInv, StepIInv, PTL DEF Spec

(* Every variable keeps its type: in particular no remaining run time goes *)
(* below zero and no queue holds anything but rows of the file.            *)
THEOREM TypeCorrectness == Spec => []TypeOK
BY Invariance, PTL DEF IInv

(* No process is lost or duplicated by the handling of the queues.         *)
THEOREM NoProcessLost == Spec => []OneHomePerProcess
BY Invariance, PTL DEF IInv

(* The scheduler and the CPU emulator never have two blocks under way, the *)
(* one under way is the dispatched process's, and the stop block comes     *)
(* after the last of them.                                                 *)
THEOREM TakeTurns == Spec => []Lockstep
BY Invariance, PTL DEF IInv

-------------------------------------------------------------------------------
(* Waiting times.  The bound on the time in the system is what makes the   *)
(* bound on the waiting time inductive.                                    *)
WInv == IInv /\ TimeInSystem /\ WaitCoversSwitches

(* The numbers the bounds are about.                                       *)
LEMMA Numbers ==
  ASSUME TypeOK
  PROVE  /\ TIME \in Nat
         /\ \A p \in Processes :
              /\ batch[p].arrival_time \in Nat /\ batch[p].est_runtime \in Nat
              /\ est_remaining_runtime[p] \in Nat /\ context_switches[p] \in Nat
              /\ wait_time[p] \in Int /\ Taken(p) \in Nat /\ Selections(p) \in Nat
<1>1. \A p \in Processes : batch[p] \in Row
  BY ProcessNumbers
<1>2. \A p \in Processes : /\ batch[p].arrival_time \in Nat
                           /\ batch[p].est_runtime \in Nat
  BY <1>1 DEF Row
<1>3. /\ TIME \in Nat
      /\ \A p \in Processes : /\ est_remaining_runtime[p] \in Nat
                              /\ context_switches[p] \in Nat
                              /\ wait_time[p] \in Int
  BY DEF TypeOK
<1> QED BY <1>2, <1>3 DEF Taken, Selections

(* The selected process is one of the queue, and leaves it.                *)
LEMMA SelectedIsAdmitted ==
  ASSUME TypeOK, OneHomePerProcess,
         NEW k \in 0..Len(waitQueue), NEW i, Select(k, i)
  PROVE  /\ Admitted(k)[i] \in Range(Admitted(k))
         /\ waitQueue' = StillWaiting(k)
         /\ Range(processQueue') \subseteq Range(Admitted(k))
         /\ Admitted(k)[i] \notin Range(processQueue')
<1> DEFINE q == Admitted(k)
<1>1. /\ i \in DOMAIN q /\ waitQueue' = StillWaiting(k)
      /\ processQueue' = RemoveAt(q, i)
  BY DEF Select
<1>2. q \in Seq(Processes) /\ IsInjective(q)
  BY AdmitKeepsHomes
<1> HIDE DEF q
<1>3. Range(RemoveAt(q, i)) = Range(q) \ {q[i]}
  BY <1>1, <1>2, RemoveAtSeq
<1>4. q[i] \in Range(q)
  BY <1>1 DEF Range
<1> QED BY <1>1, <1>3, <1>4 DEF q

(* At a time t not before TIME, with the first k rows arrived, everyone in *)
(* the queue meets the bound, and who still waits is untouched.            *)
LEMMA QueueTimes ==
  ASSUME TypeOK, OneHomePerProcess, TimeInSystem, ClockCountsWork,
         NEW k \in 0..Len(waitQueue), NEW t \in Nat, t >= TIME,
         \A j \in 1..k : HasArrived(waitQueue[j], t)
  PROVE  /\ \A p \in Range(StillWaiting(k)) :
              /\ p \in Processes
              /\ est_remaining_runtime[p] = batch[p].est_runtime
              /\ context_switches[p] = 0
         /\ \A p \in Range(Admitted(k)) :
              /\ p \in Processes /\ p # temp
              /\ t - batch[p].arrival_time >=
                   batch[p].est_runtime - est_remaining_runtime[p] + 2 * Taken(p)
<1> DEFINE a == SubSeq(waitQueue, 1, k)
           b == SubSeq(waitQueue, k + 1, Len(waitQueue))
<1>1. waitQueue \in Seq(Processes) /\ processQueue \in Seq(Processes)
  BY DEF TypeOK
<1>2. /\ a \in Seq(Processes) /\ b \in Seq(Processes) /\ Len(a) = k
      /\ Range(a) \cup Range(b) = Range(waitQueue)
  BY <1>1, SplitSeq
<1>3. \A j \in 1..k : a[j] = waitQueue[j]
  BY <1>1
<1>4. \A p \in Range(waitQueue) :
        /\ est_remaining_runtime[p] = batch[p].est_runtime
        /\ context_switches[p] = 0
  BY DEF TimeInSystem
<1> HIDE DEF a, b
<1>5. Range(Admitted(k)) = Range(processQueue) \cup Range(a)
  <2>1. Admitted(k) = processQueue \o a
    BY DEF Admitted, a
  <2>2. Range(processQueue \o a) = Range(processQueue) \cup Range(a)
    BY <1>1, <1>2, ConcatSeq
  <2> QED BY <2>1, <2>2
<1>6. StillWaiting(k) = b
  BY DEF StillWaiting, b
<1>7. /\ Range(b) \subseteq Processes /\ Range(a) \subseteq Processes
      /\ Range(processQueue) \subseteq Processes
  BY <1>1, <1>2, MembersOfSeq
<1>8. ASSUME NEW p \in Range(processQueue)
      PROVE  /\ p \in Processes /\ p # temp
             /\ t - batch[p].arrival_time >=
                  batch[p].est_runtime - est_remaining_runtime[p] + 2 * Taken(p)
  <2>1. p \in Processes
    BY <1>7
  <2>2. p # temp
    BY <2>1, ProcessNumbers DEF OneHomePerProcess
  <2>3. TIME - batch[p].arrival_time >=
          batch[p].est_runtime - est_remaining_runtime[p] + 2 * Taken(p)
    BY DEF TimeInSystem
  <2>4. /\ batch[p].arrival_time \in Nat /\ TIME \in Nat
        /\ batch[p].est_runtime \in Nat /\ est_remaining_runtime[p] \in Nat
        /\ Taken(p) \in Nat
    BY <2>1, Numbers
  <2> QED BY <2>1, <2>2, <2>3, <2>4
<1>9. ASSUME NEW p \in Range(a)
      PROVE  /\ p \in Processes /\ p # temp
             /\ t - batch[p].arrival_time >=
                  batch[p].est_runtime - est_remaining_runtime[p] + 2 * Taken(p)
  <2>1. p \in Processes /\ p \in Range(waitQueue)
    BY <1>2, <1>7
  <2>2. p # temp
    BY <2>1, ProcessNumbers DEF OneHomePerProcess
  <2>3. PICK j \in 1..k : p = waitQueue[j]
    BY <1>2, <1>3 DEF Range
  <2>4. batch[p].arrival_time <= t
    BY <2>3 DEF HasArrived
  <2>5. Taken(p) = 0 /\ est_remaining_runtime[p] = batch[p].est_runtime
    BY <2>1, <2>2, <1>4 DEF Taken
  <2>6. batch[p].arrival_time \in Nat /\ batch[p].est_runtime \in Nat
    BY <2>1, Numbers
  <2> QED BY <2>1, <2>2, <2>4, <2>5, <2>6
<1> QED BY <1>2, <1>4, <1>5, <1>6, <1>7, <1>8, <1>9
(* Two ticks pay for being taken once more.                                *)
LEMMA TwoTicksMore ==
  ASSUME NEW t \in Nat, NEW a \in Nat, NEW e \in Nat, NEW r \in Nat,
         NEW n \in Nat, NEW m, m = n \/ m = n + 1, t - a >= e - r + 2 * n
  PROVE  (t + 2) - a >= e - r + 2 * m
OBVIOUS

(* A bound that held earlier holds later.                                  *)
LEMMA LaterStill ==
  ASSUME NEW t \in Nat, NEW d \in Nat, NEW a \in Nat, NEW e \in Nat,
         NEW r \in Nat, NEW n \in Nat, t - a >= e - r + 2 * n
  PROVE  (t + d) - a >= e - r + 2 * n
OBVIOUS

(* A process without work is done right after its switch.                 *)
LEMMA DoneAtOnce ==
  ASSUME NEW t \in Nat, NEW a \in Nat, NEW e \in Nat,
         NEW n \in Nat, t - a >= e - 0 + 2 * n
  PROVE  (t + 2) - a - e >= 2
OBVIOUS

(* A burst the clock has counted keeps the bound.                          *)
LEMMA PaidBurst ==
  ASSUME NEW t \in Nat, NEW w \in Nat, NEW a \in Nat, NEW e \in Nat,
         NEW r \in Nat, NEW u \in Nat, NEW n \in Nat,
         t - a >= e - r + 2 * n, w >= r - u
  PROVE  (t + w) - a >= e - u + 2 * n
OBVIOUS

(* Being taken costs two ticks and is counted once.                        *)
LEMMA DispatchWInv == WInv /\ Dispatch => WInv'
<1> SUFFICES ASSUME WInv, Dispatch, ClockCountsWork'
             PROVE  TimeInSystem' /\ WaitCoversSwitches'
  BY DispatchIInv DEF WInv, TimeInSystem, WaitCoversSwitches
<1> USE DEF WInv, IInv
<1>1. PICK k \in 0..Len(waitQueue), i \in 1..Len(batch) :
        /\ Select(k, i)
        /\ LET p == Admitted(k)[i] IN
           /\ mode.policy = "RR" \/ est_remaining_runtime[p] > 0
           /\ temp' = p /\ pc' = "await" /\ TIME' = TIME + 2
           /\ Send(p, est_remaining_runtime[p], context_switches[p])
        /\ UNCHANGED <<input, pcbs, completedProcesses, cpu, toScheduler>>
  BY DEF Dispatch
<1> DEFINE p == Admitted(k)[i]
<1>2. /\ batch' = batch /\ mode' = mode
      /\ est_remaining_runtime' = est_remaining_runtime
      /\ context_switches' = context_switches /\ wait_time' = wait_time
      /\ completedProcesses' = completedProcesses
      /\ temp' = p /\ TIME' = TIME + 2 /\ temp = None
  BY <1>1 DEF input, pcbs, Select, AtLoopTop, Lockstep
<1>3. /\ p \in Range(Admitted(k)) /\ waitQueue' = StillWaiting(k)
      /\ Range(processQueue') \subseteq Range(Admitted(k))
      /\ p \notin Range(processQueue')
      /\ \A j \in 1..k : HasArrived(waitQueue[j], TIME)
  BY <1>1, SelectedIsAdmitted DEF Select, Arrived
<1> HIDE DEF p
<1>4. ClockCountsWork
  BY <1>2 DEF ClockCountsWork
<1>5. /\ \A q \in Range(StillWaiting(k)) :
           /\ q \in Processes
           /\ est_remaining_runtime[q] = batch[q].est_runtime
           /\ context_switches[q] = 0
      /\ \A q \in Range(Admitted(k)) :
           /\ q \in Processes /\ q # temp
           /\ TIME - batch[q].arrival_time >=
                batch[q].est_runtime - est_remaining_runtime[q] + 2 * Taken(q)
  <2>1. TIME \in Nat /\ TIME >= TIME
    BY Numbers
  <2> QED BY <1>3, <1>4, <2>1, QueueTimes
<1>6. ASSUME NEW q \in Range(Admitted(k))
      PROVE  /\ q # p => Taken(q)' = Taken(q)
             /\ q = p => Taken(q)' = Taken(q) + 1
             /\ q \in Processes
  BY <1>2, <1>5, Numbers DEF Taken
<1>7. ASSUME NEW q \in Range(Admitted(k)), q = p \/ q \in Range(processQueue')
      PROVE  TIME' - batch[q].arrival_time >=
               batch[q].est_runtime - est_remaining_runtime[q] + 2 * Taken(q)'
  <2>1. /\ batch[q].arrival_time \in Nat /\ TIME \in Nat
        /\ batch[q].est_runtime \in Nat /\ est_remaining_runtime[q] \in Nat
        /\ Taken(q) \in Nat
    BY <1>5, Numbers
  <2>2. TIME - batch[q].arrival_time >=
          batch[q].est_runtime - est_remaining_runtime[q] + 2 * Taken(q)
    BY <1>5
  <2>3. Taken(q)' = Taken(q) \/ Taken(q)' = Taken(q) + 1
    BY <1>6
  <2>4. TIME' = TIME + 2
    BY <1>2
  <2> QED BY <2>1, <2>2, <2>3, <2>4, TwoTicksMore
<1>8. TimeInSystem'
  BY <1>2, <1>3, <1>5, <1>7 DEF TimeInSystem
<1>9. WaitCoversSwitches'
  BY <1>2, <1>4 DEF WaitCoversSwitches, Selections
<1> QED BY <1>8, <1>9
LEMMA CompleteWithoutRunningWInv == WInv /\ CompleteWithoutRunning => WInv'
<1> SUFFICES ASSUME WInv, CompleteWithoutRunning, ClockCountsWork'
             PROVE  TimeInSystem' /\ WaitCoversSwitches'
  BY CompleteWithoutRunningIInv DEF WInv, TimeInSystem, WaitCoversSwitches
<1> USE DEF WInv, IInv
<1>1. PICK k \in 0..Len(waitQueue), i \in 1..Len(batch) :
        /\ Select(k, i)
        /\ LET p == Admitted(k)[i] IN
           /\ mode.policy # "RR" /\ est_remaining_runtime[p] = 0
           /\ ProcessCompleted(p, TIME + 2)
        /\ UNCHANGED <<input, est_remaining_runtime, context_switches, cpu,
                       wire>>
  BY DEF CompleteWithoutRunning
<1> DEFINE p == Admitted(k)[i]
<1>2. /\ batch' = batch /\ mode' = mode /\ mode.policy # "RR"
      /\ est_remaining_runtime' = est_remaining_runtime
      /\ est_remaining_runtime[p] = 0
      /\ context_switches' = context_switches
      /\ completedProcesses' = Append(completedProcesses, p)
      /\ wait_time' = [wait_time EXCEPT ![p] =
           (TIME + 2) - batch[p].arrival_time - batch[p].est_runtime]
      /\ temp' = None /\ TIME' = TIME + 3 /\ temp = None
  <2>1. TIME + 2 + 1 = TIME + 3
    BY Numbers
  <2>2. temp = None
    BY <1>1 DEF Select, AtLoopTop, Lockstep
  <2>3. ProcessCompleted(p, TIME + 2)
    BY <1>1
  <2>4. /\ batch' = batch /\ mode' = mode /\ mode.policy # "RR"
        /\ est_remaining_runtime' = est_remaining_runtime
        /\ est_remaining_runtime[p] = 0
        /\ context_switches' = context_switches
    BY <1>1 DEF input
  <2> HIDE DEF p
  <2>5. /\ completedProcesses' = Append(completedProcesses, p)
        /\ wait_time' = [wait_time EXCEPT ![p] =
             (TIME + 2) - batch[p].arrival_time - batch[p].est_runtime]
        /\ temp' = None /\ TIME' = TIME + 2 + 1
    BY <2>3 DEF ProcessCompleted
  <2> QED BY <2>1, <2>2, <2>4, <2>5
<1>3. /\ p \in Range(Admitted(k)) /\ waitQueue' = StillWaiting(k)
      /\ Range(processQueue') \subseteq Range(Admitted(k))
      /\ p \notin Range(processQueue')
      /\ \A j \in 1..k : HasArrived(waitQueue[j], TIME)
  BY <1>1, SelectedIsAdmitted DEF Select, Arrived
<1> HIDE DEF p
<1>4. ClockCountsWork
  BY <1>2 DEF ClockCountsWork
<1>5. /\ \A q \in Range(StillWaiting(k)) :
           /\ q \in Processes
           /\ est_remaining_runtime[q] = batch[q].est_runtime
           /\ context_switches[q] = 0
      /\ \A q \in Range(Admitted(k)) :
           /\ q \in Processes /\ q # temp
           /\ TIME - batch[q].arrival_time >=
                batch[q].est_runtime - est_remaining_runtime[q] + 2 * Taken(q)
  <2>1. TIME \in Nat /\ TIME >= TIME
    BY Numbers
  <2> QED BY <1>3, <1>4, <2>1, QueueTimes
<1>6. \A q \in Processes : Taken(q)' = Taken(q)
  BY <1>2 DEF Taken
<1>7. ASSUME NEW q \in Range(processQueue')
      PROVE  TIME' - batch[q].arrival_time >=
               batch[q].est_runtime - est_remaining_runtime[q] + 2 * Taken(q)'
  <2>1. q \in Processes /\ Taken(q)' = Taken(q)
        /\ TIME - batch[q].arrival_time >=
             batch[q].est_runtime - est_remaining_runtime[q] + 2 * Taken(q)
    BY <1>3, <1>5, <1>6
  <2>2. /\ batch[q].arrival_time \in Nat /\ TIME \in Nat
        /\ batch[q].est_runtime \in Nat /\ est_remaining_runtime[q] \in Nat
        /\ Taken(q) \in Nat
    BY <2>1, Numbers
  <2>3. TIME' = TIME + 3
    BY <1>2
  <2> QED BY <2>1, <2>2, <2>3, LaterStill
<1>8. TimeInSystem'
  BY <1>2, <1>3, <1>5, <1>7 DEF TimeInSystem
<1>9. p \in Processes /\ wait_time'[p] >= 2
  <2>1. p \in Processes
        /\ TIME - batch[p].arrival_time >=
             batch[p].est_runtime - est_remaining_runtime[p] + 2 * Taken(p)
    BY <1>3, <1>5
  <2>2. /\ batch[p].arrival_time \in Nat /\ TIME \in Nat
        /\ batch[p].est_runtime \in Nat /\ Taken(p) \in Nat
        /\ est_remaining_runtime[p] = 0
    BY <1>2, <2>1, Numbers
  <2>3. (TIME + 2) - batch[p].arrival_time - batch[p].est_runtime >= 2
    BY <2>1, <2>2, DoneAtOnce
  <2>4. wait_time'[p] = (TIME + 2) - batch[p].arrival_time - batch[p].est_runtime
    BY <1>2, <2>1 DEF TypeOK
  <2> QED BY <2>1, <2>3, <2>4
<1>10. WaitCoversSwitches'
  <2>1. Range(completedProcesses') = Range(completedProcesses) \cup {p}
    BY <1>2, <1>9, AppendSeq DEF TypeOK
  <2>2. ASSUME NEW q \in Range(completedProcesses')
        PROVE  (wait_time[q] >= 2 * Selections(q))'
    <3>1. CASE q = p
      BY <1>2, <1>9, <3>1 DEF Selections
    <3>2. CASE q # p
      <4>1. q \in Range(completedProcesses) /\ q \in Processes
        BY <2>1, <3>2, MembersOfSeq DEF TypeOK
      <4>2. wait_time[q] >= 2 * Selections(q)
        BY <1>4, <4>1 DEF WaitCoversSwitches
      <4>3. wait_time'[q] = wait_time[q] /\ Selections(q)' = Selections(q)
        BY <1>2, <3>2, <4>1 DEF Selections, TypeOK
      <4> QED BY <4>2, <4>3
    <3> QED BY <3>1, <3>2
  <2> QED BY <2>2 DEF WaitCoversSwitches
<1> QED BY <1>8, <1>10
(* What one visit to the CPU does to the bound of the process it was for:  *)
(* the clock pays for the burst, and the visit moves from "on the CPU" to  *)
(* context_switches.                                                       *)
LEMMA BurstIsPaid ==
  ASSUME WInv, Receive, ClockCountsWork, mode' = mode, batch' = batch
  PROVE  /\ temp \in Processes /\ temp # None
         /\ TIME \in Nat /\ TimePassed(temp) \in Nat
         /\ (TIME + TimePassed(temp)) - batch[temp].arrival_time >=
              batch[temp].est_runtime - est_remaining_runtime'[temp]
                + 2 * Taken(temp)
         /\ \A q \in Processes \ {temp} :
              /\ est_remaining_runtime'[q] = est_remaining_runtime[q]
              /\ context_switches'[q] = context_switches[q]
         /\ context_switches'[temp] = context_switches[temp] + 1
         /\ est_remaining_runtime'[temp] \in Nat
<1> DEFINE r == est_remaining_runtime[temp]
           u == AfterBurst(r)
           w == TimePassed(temp)
<1>1. TypeOK /\ IInv /\ TimeInSystem
  BY DEF WInv, IInv
<1>2. /\ temp \in Processes /\ u \in Nat
      /\ est_remaining_runtime' = [est_remaining_runtime EXCEPT ![temp] = u]
      /\ context_switches' = [context_switches EXCEPT
           ![temp] = context_switches[temp] + 1]
  BY <1>1, ReturnedBlock
<1>3. /\ est_remaining_runtime'[temp] = u
      /\ context_switches'[temp] = context_switches[temp] + 1
      /\ \A q \in Processes \ {temp} :
           /\ est_remaining_runtime'[q] = est_remaining_runtime[q]
           /\ context_switches'[q] = context_switches[q]
  BY <1>1, <1>2 DEF TypeOK
<1>4. temp # None
  BY <1>1, <1>2, ProcessNumbers
<1>5. w \in Nat /\ w >= r - u
  BY <1>1, <1>2, TimePassedBounds
<1>6. TIME - batch[temp].arrival_time >=
        batch[temp].est_runtime - r + 2 * Taken(temp)
  BY <1>1, <1>4 DEF TimeInSystem
<1>7. /\ batch[temp].arrival_time \in Nat /\ TIME \in Nat
      /\ batch[temp].est_runtime \in Nat /\ r \in Nat /\ Taken(temp) \in Nat
  BY <1>1, <1>2, Numbers
<1> HIDE DEF r, u, w
<1>8. (TIME + w) - batch[temp].arrival_time >=
        batch[temp].est_runtime - u + 2 * Taken(temp)
  BY <1>2, <1>5, <1>6, <1>7, PaidBurst
<1> QED BY <1>2, <1>3, <1>4, <1>5, <1>7, <1>8 DEF w

(* After a visit, the bound still holds for everyone else at time t.       *)
LEMMA OthersStillMeetBound ==
  ASSUME WInv, Receive, ClockCountsWork, mode' = mode, batch' = batch,
         NEW k \in 0..Len(waitQueue), NEW t \in Nat, t >= TIME,
         \A j \in 1..k : HasArrived(waitQueue[j], t),
         temp' = temp \/ temp' = None, NEW d \in Nat
  PROVE  /\ \A q \in Range(StillWaiting(k)) :
              /\ est_remaining_runtime'[q] = batch[q].est_runtime
              /\ context_switches'[q] = 0
         /\ \A q \in Range(Admitted(k)) :
              (t + d) - batch[q].arrival_time >=
                batch[q].est_runtime - est_remaining_runtime'[q] + 2 * Taken(q)'
<1>1. TypeOK /\ OneHomePerProcess /\ TimeInSystem
  BY DEF WInv, IInv
<1>2. /\ temp \in Processes /\ temp # None
      /\ \A q \in Processes \ {temp} :
           /\ est_remaining_runtime'[q] = est_remaining_runtime[q]
           /\ context_switches'[q] = context_switches[q]
  BY BurstIsPaid
<1>3. /\ \A q \in Range(StillWaiting(k)) :
           /\ q \in Processes
           /\ est_remaining_runtime[q] = batch[q].est_runtime
           /\ context_switches[q] = 0
      /\ \A q \in Range(Admitted(k)) :
           /\ q \in Processes /\ q # temp
           /\ t - batch[q].arrival_time >=
                batch[q].est_runtime - est_remaining_runtime[q] + 2 * Taken(q)
  BY <1>1, QueueTimes
<1>4. \A q \in Range(StillWaiting(k)) : q # temp
  <2>1. Range(StillWaiting(k)) \subseteq Range(processQueue) \cup Range(waitQueue)
    BY <1>1, AdmitKeepsHomes
  <2> QED BY <1>1, <1>2, <2>1 DEF OneHomePerProcess
<1>5. ASSUME NEW q \in Range(Admitted(k))
      PROVE  (t + d) - batch[q].arrival_time >=
                batch[q].est_runtime - est_remaining_runtime'[q] + 2 * Taken(q)'
  <2>1. /\ q \in Processes /\ q # temp
        /\ t - batch[q].arrival_time >=
             batch[q].est_runtime - est_remaining_runtime[q] + 2 * Taken(q)
    BY <1>3
  <2>2. /\ est_remaining_runtime'[q] = est_remaining_runtime[q]
        /\ context_switches'[q] = context_switches[q]
    BY <1>2, <2>1
  <2>3. q # None
    BY <1>1, <2>1, ProcessNumbers
  <2>4. Taken(q)' = Taken(q)
    BY <2>1, <2>2, <2>3 DEF Taken
  <2>5. /\ batch[q].arrival_time \in Nat /\ batch[q].est_runtime \in Nat
        /\ est_remaining_runtime[q] \in Nat /\ Taken(q) \in Nat
    BY <1>1, <2>1, Numbers
  <2> QED BY <2>1, <2>2, <2>4, <2>5, LaterStill
<1> QED BY <1>2, <1>3, <1>4, <1>5

LEMMA DispatchAgainWInv == WInv /\ DispatchAgain => WInv'
<1> SUFFICES ASSUME WInv, DispatchAgain, ClockCountsWork'
             PROVE  TimeInSystem' /\ WaitCoversSwitches'
  BY DispatchAgainIInv DEF WInv, TimeInSystem, WaitCoversSwitches
<1>1. /\ Receive /\ batch' = batch /\ mode' = mode /\ mode.policy # "RR"
      /\ TIME' = TIME + 1 /\ temp' = Returned.process
      /\ completedProcesses' = completedProcesses /\ wait_time' = wait_time
  BY DEF DispatchAgain, input
<1>2. PICK k \in 0..Len(waitQueue) :
        /\ Arrived(k, TIME')
        /\ processQueue' = Admitted(k) /\ waitQueue' = StillWaiting(k)
  BY DEF DispatchAgain
<1>3. ClockCountsWork /\ temp' = temp
  BY <1>1, ReturnedBlock DEF ClockCountsWork, WInv
<1>4. /\ temp \in Processes /\ temp # None /\ TIME \in Nat
      /\ (TIME + TimePassed(temp)) - batch[temp].arrival_time >=
           batch[temp].est_runtime - est_remaining_runtime'[temp]
             + 2 * Taken(temp)
  BY <1>1, <1>3, BurstIsPaid
<1>5. TimePassed(temp) = 1 /\ Taken(temp)' = Taken(temp)
  BY <1>1, <1>3 DEF TimePassed, Taken
<1>6. /\ \A q \in Range(waitQueue') :
           /\ est_remaining_runtime'[q] = batch[q].est_runtime
           /\ context_switches'[q] = 0
      /\ \A q \in Range(processQueue') :
           (TIME' + 0) - batch[q].arrival_time >=
             batch[q].est_runtime - est_remaining_runtime'[q] + 2 * Taken(q)'
  <2>1. TIME' \in Nat /\ TIME' >= TIME /\ 0 \in Nat
    BY <1>1, <1>4
  <2>2. \A j \in 1..k : HasArrived(waitQueue[j], TIME')
    BY <1>2 DEF Arrived
  <2> QED BY <1>1, <1>2, <1>3, <2>1, <2>2, OthersStillMeetBound
<1>7. TIME' + 0 = TIME'
  BY <1>1, <1>4
<1>8. TimeInSystem'
  BY <1>1, <1>3, <1>4, <1>5, <1>6, <1>7 DEF TimeInSystem
<1>9. WaitCoversSwitches'
  BY <1>1, <1>3 DEF WaitCoversSwitches, Selections, WInv
<1> QED BY <1>8, <1>9

LEMMA PushBackWInv == WInv /\ PushBack => WInv'
<1> SUFFICES ASSUME WInv, PushBack, ClockCountsWork'
             PROVE  TimeInSystem' /\ WaitCoversSwitches'
  BY PushBackIInv DEF WInv, TimeInSystem, WaitCoversSwitches
<1>1. /\ Receive /\ batch' = batch /\ mode' = mode /\ mode.policy = "RR"
      /\ TIME' = TIME + TimePassed(temp) /\ temp' = None
      /\ completedProcesses' = completedProcesses /\ wait_time' = wait_time
  BY DEF PushBack, input
<1>2. PICK k \in 0..Len(waitQueue) :
        /\ Arrived(k, TIME')
        /\ processQueue' = Append(Admitted(k), Returned.process)
        /\ waitQueue' = StillWaiting(k)
  BY DEF PushBack
<1>3. ClockCountsWork
  BY <1>1 DEF ClockCountsWork
<1>4. /\ temp \in Processes /\ temp # None
      /\ TIME \in Nat /\ TimePassed(temp) \in Nat
      /\ (TIME + TimePassed(temp)) - batch[temp].arrival_time >=
           batch[temp].est_runtime - est_remaining_runtime'[temp]
             + 2 * Taken(temp)
      /\ context_switches'[temp] = context_switches[temp] + 1
      /\ \A q \in Processes \ {temp} : context_switches'[q] = context_switches[q]
  BY <1>1, <1>3, BurstIsPaid
<1>5. ASSUME NEW q, q = temp
      PROVE  Taken(q)' = Taken(q)
  <2>1. context_switches[temp] \in Nat
    BY <1>4, Numbers DEF WInv, IInv
  <2>2. context_switches'[q] = context_switches[q] + 1 /\ q # None
    BY <1>4, <1>5
  <2> QED BY <1>1, <1>5, <2>1, <2>2 DEF Taken
<1>6. /\ \A q \in Range(waitQueue') :
           /\ est_remaining_runtime'[q] = batch[q].est_runtime
           /\ context_switches'[q] = 0
      /\ \A q \in Range(Admitted(k)) :
           (TIME' + 0) - batch[q].arrival_time >=
             batch[q].est_runtime - est_remaining_runtime'[q] + 2 * Taken(q)'
  <2>1. TIME' \in Nat /\ TIME' >= TIME /\ 0 \in Nat
    BY <1>1, <1>4
  <2>2. \A j \in 1..k : HasArrived(waitQueue[j], TIME')
    BY <1>2 DEF Arrived
  <2> QED BY <1>1, <1>2, <1>3, <2>1, <2>2, OthersStillMeetBound
<1>7. Range(processQueue') = Range(Admitted(k)) \cup {temp}
  <2>1. Returned.process = temp
    BY <1>1, ReturnedBlock DEF WInv
  <2>2. Admitted(k) \in Seq(Processes)
    BY AdmitKeepsHomes DEF WInv, IInv
  <2> QED BY <1>2, <1>4, <2>1, <2>2, AppendSeq
<1>8. TIME' + 0 = TIME'
  BY <1>1, <1>4
<1>9. TimeInSystem'
  <2>1. ASSUME NEW q \in Range(processQueue')
        PROVE  TIME' - batch[q].arrival_time >=
                 batch[q].est_runtime - est_remaining_runtime'[q] + 2 * Taken(q)'
    <3>1. CASE q \in Range(Admitted(k))
      BY <1>6, <1>8, <3>1
    <3>2. CASE q = temp
      BY <1>1, <1>4, <1>5, <3>2
    <3> QED BY <1>7, <3>1, <3>2
  <2> QED BY <1>1, <1>6, <2>1 DEF TimeInSystem
<1>10. WaitCoversSwitches'
  <2>1. \A q \in Range(completedProcesses) :
          q \in Processes /\ context_switches'[q] = context_switches[q]
    BY <1>4, MembersOfSeq DEF OneHomePerProcess, TypeOK, WInv, IInv
  <2> QED BY <1>1, <1>3, <2>1 DEF WaitCoversSwitches, Selections, WInv
<1> QED BY <1>9, <1>10
LEMMA CompleteWInv == WInv /\ Complete => WInv'
<1> SUFFICES ASSUME WInv, Complete, ClockCountsWork'
             PROVE  TimeInSystem' /\ WaitCoversSwitches'
  BY CompleteIInv DEF WInv, TimeInSystem, WaitCoversSwitches
<1> DEFINE t == TIME + TimePassed(temp)
<1>1. /\ Receive /\ batch' = batch /\ mode' = mode
      /\ Returned.est_remaining_runtime = 0
      /\ ProcessCompleted(Returned.process, t)
  BY DEF Complete, input
<1>2. PICK k \in 0..Len(waitQueue) :
        /\ IF t = TIME THEN k = 0 ELSE Arrived(k, t)
        /\ processQueue' = Admitted(k) /\ waitQueue' = StillWaiting(k)
  BY DEF Complete
<1>3. ClockCountsWork
  BY <1>1 DEF ClockCountsWork
<1>4. /\ temp \in Processes /\ temp # None
      /\ TIME \in Nat /\ TimePassed(temp) \in Nat
      /\ t - batch[temp].arrival_time >=
           batch[temp].est_runtime - est_remaining_runtime'[temp]
             + 2 * Taken(temp)
      /\ context_switches'[temp] = context_switches[temp] + 1
      /\ \A q \in Processes \ {temp} : context_switches'[q] = context_switches[q]
  BY <1>1, <1>3, BurstIsPaid
<1>5. /\ est_remaining_runtime'[temp] = 0 /\ Returned.process = temp
  <2>1. /\ Returned.process = temp
        /\ Returned.est_remaining_runtime
             = AfterBurst(est_remaining_runtime[temp])
        /\ est_remaining_runtime' = [est_remaining_runtime EXCEPT
             ![temp] = AfterBurst(est_remaining_runtime[temp])]
    BY <1>1, ReturnedBlock DEF WInv
  <2> QED BY <1>1, <1>4, <2>1 DEF WInv, IInv, TypeOK
<1>6. t \in Nat /\ t >= TIME
  BY <1>4
<1>7. /\ completedProcesses' = Append(completedProcesses, temp)
      /\ wait_time' = [wait_time EXCEPT ![temp] =
           t - batch[temp].arrival_time - batch[temp].est_runtime]
      /\ temp' = None /\ TIME' = t + 1
  BY <1>1, <1>5 DEF ProcessCompleted
<1> HIDE DEF t
<1>8. /\ \A q \in Range(waitQueue') :
           /\ est_remaining_runtime'[q] = batch[q].est_runtime
           /\ context_switches'[q] = 0
      /\ \A q \in Range(processQueue') :
           (t + 1) - batch[q].arrival_time >=
             batch[q].est_runtime - est_remaining_runtime'[q] + 2 * Taken(q)'
  <2>1. \A j \in 1..k : HasArrived(waitQueue[j], t)
    <3>1. CASE k = 0
      BY <3>1
    <3>2. CASE Arrived(k, t)
      BY <3>2 DEF Arrived
    <3> QED BY <1>2, <3>1, <3>2
  <2>2. 1 \in Nat
    OBVIOUS
  <2> QED BY <1>1, <1>2, <1>3, <1>6, <1>7, <2>1, <2>2, OthersStillMeetBound
<1>9. TimeInSystem'
  BY <1>1, <1>7, <1>8 DEF TimeInSystem
<1>10. wait_time'[temp] >= 2 * Taken(temp)
  <2>1. /\ batch[temp].arrival_time \in Nat /\ batch[temp].est_runtime \in Nat
        /\ Taken(temp) \in Nat
    BY <1>4, Numbers DEF WInv, IInv
  <2>2. t - batch[temp].arrival_time >=
          batch[temp].est_runtime - 0 + 2 * Taken(temp)
    BY <1>4, <1>5 DEF t
  <2>3. t - batch[temp].arrival_time - batch[temp].est_runtime
          >= 2 * Taken(temp)
    BY <1>6, <2>1, <2>2
  <2>4. wait_time'[temp]
          = t - batch[temp].arrival_time - batch[temp].est_runtime
    BY <1>4, <1>7 DEF WInv, IInv, TypeOK
  <2> QED BY <2>3, <2>4
<1>11. WaitCoversSwitches'
  <2>1. Range(completedProcesses') = Range(completedProcesses) \cup {temp}
    BY <1>4, <1>7, AppendSeq DEF WInv, IInv, TypeOK
  <2>2. ASSUME NEW q \in Range(completedProcesses')
        PROVE  (wait_time[q] >= 2 * Selections(q))'
    <3>1. CASE q = temp
      <4>1. Selections(q)' = Taken(temp)
        <5>1. context_switches[temp] \in Nat
          BY <1>4, Numbers DEF WInv, IInv
        <5> QED BY <1>1, <1>4, <3>1, <5>1 DEF Selections, Taken
      <4> QED BY <1>10, <3>1, <4>1
    <3>2. CASE q # temp
      <4>1. q \in Range(completedProcesses) /\ q \in Processes
        BY <2>1, <3>2, MembersOfSeq DEF WInv, IInv, TypeOK
      <4>2. wait_time[q] >= 2 * Selections(q)
        BY <1>3, <4>1 DEF WaitCoversSwitches, WInv
      <4>3. wait_time'[q] = wait_time[q]
        BY <1>7, <3>2, <4>1 DEF WInv, IInv, TypeOK
      <4>4. Selections(q)' = Selections(q)
        BY <1>1, <1>4, <3>2, <4>1 DEF Selections
      <4> QED BY <4>2, <4>3, <4>4
    <3> QED BY <3>1, <3>2
  <2> QED BY <2>2 DEF WaitCoversSwitches
<1> QED BY <1>9, <1>11

LEMMA OtherStepsWInv ==
  WInv /\ (Idle \/ Finish \/ CPU \/ UNCHANGED vars) => WInv'
<1> SUFFICES ASSUME WInv, Idle \/ Finish \/ CPU \/ UNCHANGED vars,
                    ClockCountsWork'
             PROVE  TimeInSystem' /\ WaitCoversSwitches'
  BY OtherStepsIInv DEF WInv, TimeInSystem, WaitCoversSwitches
<1>1. /\ batch' = batch /\ mode' = mode
      /\ waitQueue' = waitQueue /\ processQueue' = processQueue
      /\ temp' = temp /\ completedProcesses' = completedProcesses
      /\ est_remaining_runtime' = est_remaining_runtime
      /\ context_switches' = context_switches /\ wait_time' = wait_time
  BY DEF Idle, Finish, CPU, ExecuteBurst, Halt, vars, input, pcbs
<1>2. TIME \in Nat /\ (TIME' = TIME \/ TIME' = TIME + 1)
  BY Numbers DEF Idle, Finish, CPU, ExecuteBurst, Halt, vars, WInv, IInv
<1>3. ClockCountsWork
  BY <1>1 DEF ClockCountsWork
<1>4. WaitCoversSwitches'
  BY <1>1, <1>3 DEF WaitCoversSwitches, Selections, WInv
<1>5. ASSUME NEW q \in Range(processQueue) \cup ({temp} \ {None})
      PROVE  TIME' - batch[q].arrival_time >=
               batch[q].est_runtime - est_remaining_runtime[q] + 2 * Taken(q)
  <2>1. TIME - batch[q].arrival_time >=
          batch[q].est_runtime - est_remaining_runtime[q] + 2 * Taken(q)
    BY <1>3 DEF TimeInSystem, WInv
  <2>2. q \in Processes
    BY MembersOfSeq DEF WInv, IInv, TypeOK
  <2>3. /\ batch[q].arrival_time \in Nat /\ batch[q].est_runtime \in Nat
        /\ est_remaining_runtime[q] \in Nat /\ Taken(q) \in Nat
    BY <2>2, Numbers DEF WInv, IInv
  <2> QED BY <1>2, <2>1, <2>3, LaterStill
<1>6. \A q : Taken(q)' = Taken(q)
  BY <1>1 DEF Taken
<1>7. TimeInSystem'
  BY <1>1, <1>3, <1>5, <1>6 DEF TimeInSystem, WInv
<1> QED BY <1>4, <1>7

(* The bounds hold in every reachable state.                               *)
LEMMA WaitInvariance == Spec => []WInv
<1>1. Init => WInv
  <2> SUFFICES ASSUME Init PROVE TimeInSystem /\ WaitCoversSwitches
    BY InitIInv DEF WInv
  <2>1. /\ Range(processQueue) = {} /\ Range(completedProcesses) = {}
        /\ {temp} \ {None} = {}
    BY DEF Init, Range
  <2>2. Range(waitQueue) \subseteq Processes
    BY DEF Init, Range
  <2>3. \A p \in Processes : /\ est_remaining_runtime[p] = batch[p].est_runtime
                             /\ context_switches[p] = 0
    BY DEF Init
  <2> QED BY <2>1, <2>2, <2>3 DEF TimeInSystem, WaitCoversSwitches
<1>2. WInv /\ [Next]_vars => WInv'
  BY DispatchWInv, CompleteWithoutRunningWInv, DispatchAgainWInv, PushBackWInv,
     CompleteWInv, OtherStepsWInv DEF Next, Scheduler, Terminated
<1> QED BY <1>1, <1>2, PTL DEF Spec

(* Whatever the file and the policy, the times of every process cover its  *)
(* work and its switches: an unfinished one has been in the system for at  *)
(* least the work it has done and two ticks for each time it was taken,    *)
(* and a completed one has waited for at least its own selections.  The    *)
(* clock is charged for a burst before the process is.                     *)
THEOREM WaitingTimes == Spec => []TimesCoverWork
<1>1. WInv => TimesCoverWork
  BY DEF WInv, TimesCoverWork
<1> QED BY <1>1, WaitInvariance, PTL

-------------------------------------------------------------------------------
(* Counting: completedProcesses is as long as the file exactly when every  *)
(* process is in it, because no process is in it twice.                    *)
LEMMA LoopDoneWhenAllCompleted ==
  ASSUME IInv
  PROVE  LoopDone <=> Range(completedProcesses) = Processes
<1> DEFINE c == completedProcesses
           L == 1..Len(c)
           N == 1..Len(batch)
<1>1. /\ c \in Seq(Processes) /\ IsInjective(c)
      /\ Len(batch) \in Nat /\ Processes = N
  BY ProcessNumbers DEF IInv, TypeOK, OneHomePerProcess
<1>2. Len(c) \in Nat /\ DOMAIN c = L /\ c \in [L -> N]
  BY <1>1
<1>3. c \in Injection(L, N)
  BY <1>1, <1>2 DEF Injection, IsInjective
<1>4. /\ IsFiniteSet(L) /\ Cardinality(L) = Len(c)
      /\ IsFiniteSet(N) /\ Cardinality(N) = Len(batch)
  <2>1. ASSUME NEW n \in Nat
        PROVE  IsFiniteSet(1..n) /\ Cardinality(1..n) = n
    <3>1. /\ IsFiniteSet(1..n)
          /\ Cardinality(1..n) = IF 1 > n THEN 0 ELSE n - 1 + 1
      BY FS_Interval
    <3> QED BY <3>1
  <2> QED BY <1>1, <1>2, <2>1
<1> HIDE DEF c, L, N
<1>5. /\ Len(c) <= Len(batch)
      /\ Len(c) = Len(batch) <=> c \in Surjection(L, N)
  BY <1>3, <1>4, FS_Injection
<1>6. c \in Surjection(L, N) <=> Range(c) = N
  BY <1>2, MembersOfSeq DEF Surjection, Range
<1>7. LoopDone <=> Len(c) = Len(batch)
  BY <1>1, <1>2, <1>5 DEF LoopDone, c
<1> QED BY <1>1, <1>5, <1>6, <1>7 DEF c

(* The scheduler stops the CPU only when every process has completed.      *)
THEOREM StopsWhenDone == Spec => []StopsWhenAllComplete
<1> DEFINE Inv == IInv /\ StopsWhenAllComplete
<1>1. Init => Inv
  BY InitIInv DEF Init, StopsWhenAllComplete
<1>2. Inv /\ [Next]_vars => Inv'
  <2> SUFFICES ASSUME IInv, StopsWhenAllComplete, [Next]_vars,
                      IInv', pc' = "stopped"
               PROVE  Range(completedProcesses)' = Processes'
    BY StepIInv DEF StopsWhenAllComplete
  <2>1. CASE Finish
    <3>1. LoopDone /\ completedProcesses' = completedProcesses
          /\ batch' = batch
      BY <2>1 DEF Finish, input
    <3> QED BY <3>1, LoopDoneWhenAllCompleted DEF Processes
  <2>2. CASE CPU \/ UNCHANGED vars
    <3>1. pc' = pc /\ completedProcesses' = completedProcesses /\ batch' = batch
      BY <2>2 DEF CPU, ExecuteBurst, Halt, vars, input
    <3> QED BY <3>1 DEF StopsWhenAllComplete, Processes
  <2>3. ~(Idle \/ Dispatch \/ CompleteWithoutRunning \/ DispatchAgain
            \/ PushBack \/ Complete)
    BY DEF Idle, AtLoopTop, Dispatch, CompleteWithoutRunning, Select,
           DispatchAgain, Receive, PushBack, Complete, ProcessCompleted
  <2> QED BY <2>1, <2>2, <2>3 DEF Next, Scheduler, Terminated
<1> QED BY <1>1, <1>2, PTL DEF Spec

-------------------------------------------------------------------------------
(* Order: who is taken, and who stands before whom.  waitQueue is the tail *)
(* of the file, so in a file sorted by arrival the rows admitted are all   *)
(* that have arrived; a policy's choice among the admitted is then one     *)
(* among all who are there.                                                *)

(* waitQueue is what is left of the file.                                  *)
RestOfFile ==
  \A j \in DOMAIN waitQueue :
    waitQueue[j] = Len(batch) - Len(waitQueue) + j

(* Cutting off a head keeps it so.                                         *)
LEMMA RestOfFileCut ==
  ASSUME IInv, RestOfFile, batch' = batch, NEW k \in 0..Len(waitQueue),
         waitQueue' = StillWaiting(k)
  PROVE  RestOfFile'
<1>1. waitQueue \in Seq(Processes) /\ Len(batch) \in Nat
  BY ProcessNumbers DEF IInv, TypeOK
<1>2. /\ Len(waitQueue') = Len(waitQueue) - k
      /\ DOMAIN waitQueue' = 1..(Len(waitQueue) - k)
      /\ \A j \in 1..(Len(waitQueue) - k) : waitQueue'[j] = waitQueue[k + j]
  BY <1>1 DEF StillWaiting
<1> SUFFICES ASSUME NEW j \in 1..(Len(waitQueue) - k)
             PROVE  waitQueue'[j] = Len(batch) - Len(waitQueue') + j
  BY <1>2 DEF RestOfFile
<1>3. k + j \in DOMAIN waitQueue
  BY <1>1
<1>4. waitQueue'[j] = Len(batch) - Len(waitQueue) + (k + j)
  BY <1>2, <1>3 DEF RestOfFile
<1> QED BY <1>1, <1>2, <1>4

(* In every reachable state: updateProcessQueue only pops the front.       *)
LEMMA RestOfFileInvariance == Spec => [](IInv /\ RestOfFile)
<1>1. Init => RestOfFile
  <2> SUFFICES ASSUME Init PROVE RestOfFile
    OBVIOUS
  <2>1. batch \in Seq(Row)
    BY BatchesAssumption DEF Init
  <2>2. waitQueue = [p \in 1..Len(batch) |-> p] /\ Len(batch) \in Nat
    BY <2>1 DEF Init, Processes
  <2>3. Len(waitQueue) = Len(batch) /\ DOMAIN waitQueue = 1..Len(batch)
    BY <2>2
  <2> QED BY <2>2, <2>3 DEF RestOfFile
<1>2. ASSUME IInv, RestOfFile, [Next]_vars
      PROVE  RestOfFile'
  <2>1. CASE \E k \in 0..Len(waitQueue) :
               waitQueue' = StillWaiting(k) /\ batch' = batch
    BY <2>1, <1>2, RestOfFileCut
  <2>2. CASE waitQueue' = waitQueue /\ batch' = batch
    BY <2>2, <1>2 DEF RestOfFile
  <2>3. CASE Dispatch
    BY <2>1, <2>3 DEF Dispatch, Select, input
  <2>4. CASE CompleteWithoutRunning
    BY <2>1, <2>4 DEF CompleteWithoutRunning, Select, input
  <2>5. CASE DispatchAgain
    BY <2>1, <2>5 DEF DispatchAgain, input
  <2>6. CASE PushBack
    BY <2>1, <2>6 DEF PushBack, input
  <2>7. CASE Complete
    BY <2>1, <2>7 DEF Complete, input
  <2>8. CASE Idle \/ Finish \/ CPU \/ UNCHANGED vars
    BY <2>2, <2>8 DEF Idle, Finish, CPU, ExecuteBurst, Halt, vars, input
  <2> QED BY <1>2, <2>3, <2>4, <2>5, <2>6, <2>7, <2>8
          DEF Next, Scheduler, Terminated
<1> QED BY <1>1, <1>2, InitIInv, StepIInv, PTL DEF Spec

(* In a sorted file a process that has arrived is not behind one that has  *)
(* not: the k rows that are admitted are all that have arrived.            *)
LEMMA AllArrivedAreAdmitted ==
  ASSUME IInv, RestOfFile, Sorted, NEW k, Arrived(k, TIME),
         NEW m \in DOMAIN waitQueue, batch[waitQueue[m]].arrival_time <= TIME
  PROVE  m <= k
<1>1. waitQueue \in Seq(Processes) /\ Len(batch) \in Nat /\ TIME \in Nat
      /\ Processes = 1..Len(batch)
  BY ProcessNumbers DEF IInv, TypeOK
<1>2. k \in 0..Len(waitQueue) /\ m \in 1..Len(waitQueue)
      /\ DOMAIN waitQueue = 1..Len(waitQueue)
  BY <1>1 DEF Arrived
<1> SUFFICES ASSUME m > k PROVE FALSE
  BY <1>1, <1>2
<1>3. k + 1 \in DOMAIN waitQueue /\ k < Len(waitQueue) /\ k + 1 <= m
  BY <1>1, <1>2
<1>4. waitQueue[k + 1] <= waitQueue[m]
  BY <1>1, <1>3 DEF RestOfFile
<1>5. waitQueue[k + 1] \in Processes /\ waitQueue[m] \in Processes
  BY <1>1, <1>3
<1>6. /\ batch[waitQueue[k + 1]].arrival_time \in Nat
      /\ batch[waitQueue[m]].arrival_time \in Nat
  BY <1>5, ProcessNumbers DEF IInv, Row
<1>7. batch[waitQueue[k + 1]].arrival_time <= batch[waitQueue[m]].arrival_time
  <2>1. CASE waitQueue[k + 1] < waitQueue[m]
    BY <2>1, <1>5 DEF Sorted
  <2>2. CASE waitQueue[k + 1] = waitQueue[m]
    BY <2>2, <1>6
  <2> QED BY <2>1, <2>2, <1>1, <1>4, <1>5
<1>8. ~(batch[waitQueue[k + 1]].arrival_time <= TIME)
  BY <1>3 DEF Arrived, HasArrived
<1> QED BY <1>1, <1>6, <1>7, <1>8

(* The front of the line are the admitted, the rest still waits.           *)
LEMMA LineSplit ==
  ASSUME IInv, NEW k \in 0..Len(waitQueue)
  PROVE  LET line == processQueue \o waitQueue IN
         /\ line \in Seq(Processes) /\ IsInjective(line)
         /\ DOMAIN Admitted(k) = 1..(Len(processQueue) + k)
         /\ \A j \in DOMAIN Admitted(k) :
              j \in DOMAIN line /\ Admitted(k)[j] = line[j]
         /\ \A j \in DOMAIN line \ DOMAIN Admitted(k) :
              /\ j - Len(processQueue) \in DOMAIN waitQueue
              /\ j - Len(processQueue) > k
              /\ line[j] = waitQueue[j - Len(processQueue)]
<1> DEFINE line == processQueue \o waitQueue
           q == processQueue
           w == waitQueue
           a == SubSeq(w, 1, k)
           u == q \o a
<1>1. /\ q \in Seq(Processes) /\ w \in Seq(Processes)
      /\ IsInjective(q) /\ IsInjective(w) /\ Range(q) \cap Range(w) = {}
  BY DEF IInv, TypeOK, OneHomePerProcess
<1>2. line \in Seq(Processes) /\ IsInjective(line)
  BY <1>1, ConcatSeq
<1>3. /\ a \in Seq(Processes) /\ Len(a) = k /\ \A j \in 1..k : a[j] = w[j]
  BY <1>1
<1>4. /\ Len(line) = Len(q) + Len(w)
      /\ \A j \in 1..(Len(q) + Len(w)) :
           line[j] = IF j <= Len(q) THEN q[j] ELSE w[j - Len(q)]
  BY <1>1
<1>5. /\ Len(u) = Len(q) + k /\ u \in Seq(Processes)
      /\ \A j \in 1..(Len(q) + k) :
           u[j] = IF j <= Len(q) THEN q[j] ELSE a[j - Len(q)]
  BY <1>1, <1>3
<1>6. Admitted(k) = u
  BY DEF Admitted
<1>7. /\ DOMAIN line = 1..(Len(q) + Len(w)) /\ DOMAIN u = 1..(Len(q) + k)
      /\ DOMAIN w = 1..Len(w) /\ Len(q) \in Nat /\ Len(w) \in Nat /\ k \in Nat
  BY <1>1, <1>2, <1>4, <1>5
<1> HIDE DEF line, u, a, q, w
<1>8. \A j \in 1..(Len(q) + k) : u[j] = line[j]
  <2> TAKE j \in 1..(Len(q) + k)
  <2>1. CASE j <= Len(q)
    BY <2>1, <1>4, <1>5, <1>7 DEF w
  <2>2. CASE j > Len(q)
    <3>1. j - Len(q) \in 1..k /\ j \in 1..(Len(q) + Len(w))
      BY <2>2, <1>7 DEF w
    <3> QED BY <3>1, <2>2, <1>3, <1>4, <1>5, <1>7
  <2> QED BY <2>1, <2>2, <1>7
<1>9. ASSUME NEW j \in DOMAIN line, j \notin DOMAIN u
      PROVE  /\ j - Len(q) \in DOMAIN w /\ j - Len(q) > k
             /\ line[j] = w[j - Len(q)]
  <2>1. j > Len(q) + k
    BY <1>7, <1>9
  <2> QED BY <2>1, <1>4, <1>7
<1>10. \A j \in DOMAIN u : j \in DOMAIN line
  BY <1>7 DEF w
<1> QED BY <1>2, <1>6, <1>7, <1>8, <1>9, <1>10 DEF line, q, w

LEMMA KeyIsNatural ==
  ASSUME IInv, NEW p \in Processes
  PROVE  Key(p) \in Nat
<1>1. batch[p].est_runtime \in Nat /\ batch[p].priority \in Nat
  BY ProcessNumbers DEF IInv, Row
<1>2. est_remaining_runtime[p] \in Nat
  BY DEF IInv, TypeOK
<1> QED BY <1>1, <1>2 DEF Key

(* A selection takes the best of all that have arrived.                    *)
LEMMA SelectTakesBest ==
  ASSUME IInv, RestOfFile, Sorted, NEW k, NEW n, Select(k, n),
         NEW i \in DOMAIN (processQueue \o waitQueue),
         NEW j \in DOMAIN (processQueue \o waitQueue),
         (processQueue \o waitQueue)[i] = Admitted(k)[n],
         batch[(processQueue \o waitQueue)[j]].arrival_time <= TIME
  PROVE  LET line == processQueue \o waitQueue IN
         \/ Key(line[i]) < Key(line[j])
         \/ Key(line[i]) = Key(line[j]) /\ i <= j
<1> DEFINE line == processQueue \o waitQueue
           a == Admitted(k)
<1>1. k \in 0..Len(waitQueue) /\ n \in DOMAIN a /\ Best(a, n)
      /\ Arrived(k, TIME)
  BY DEF Select, Arrived
<1>2. /\ line \in Seq(Processes) /\ IsInjective(line)
      /\ DOMAIN a = 1..(Len(processQueue) + k)
      /\ \A m \in DOMAIN a : m \in DOMAIN line /\ a[m] = line[m]
      /\ \A m \in DOMAIN line \ DOMAIN a :
              /\ m - Len(processQueue) \in DOMAIN waitQueue
              /\ m - Len(processQueue) > k
              /\ line[m] = waitQueue[m - Len(processQueue)]
  BY <1>1, LineSplit
<1> HIDE DEF line, a
<1>3. i = n
  BY <1>1, <1>2 DEF IsInjective, line, a
<1>4. j \in DOMAIN a
  <2> SUFFICES ASSUME j \notin DOMAIN a PROVE FALSE
    OBVIOUS
  <2>1. /\ j - Len(processQueue) \in DOMAIN waitQueue
        /\ j - Len(processQueue) > k
        /\ line[j] = waitQueue[j - Len(processQueue)]
    BY <1>2 DEF line
  <2>2. j - Len(processQueue) <= k
    BY <2>1, <1>1, AllArrivedAreAdmitted DEF line
  <2>3. processQueue \in Seq(Processes) /\ waitQueue \in Seq(Processes)
    BY DEF IInv, TypeOK
  <2> QED BY <2>1, <2>2, <2>3, <1>1
<1>5. /\ Key(a[n]) <= Key(a[j])
      /\ j < n => Key(a[n]) < Key(a[j])
  BY <1>1, <1>4 DEF Best
<1>6. a[n] = line[i] /\ a[j] = line[j] /\ i \in Nat /\ j \in Nat
      /\ line[i] \in Processes /\ line[j] \in Processes
  BY <1>1, <1>2, <1>3, <1>4 DEF line
<1>7. \A p \in Processes : Key(p) \in Nat
  BY KeyIsNatural
<1> QED BY <1>3, <1>5, <1>6, <1>7 DEF line

(* Every policy gives the CPU to the process its key asks for.             *)
THEOREM PolicyIsRespected == Spec => PolicyRespected
<1> DEFINE line == processQueue \o waitQueue
           Picked(p) == /\ temp = None
                        /\ \/ temp' = p
                           \/ completedProcesses' = Append(completedProcesses, p)
           Right == Sorted => \A i, j \in DOMAIN line :
                Picked(line[i]) /\ batch[line[j]].arrival_time <= TIME =>
                  \/ Key(line[i]) < Key(line[j])
                  \/ Key(line[i]) = Key(line[j]) /\ i <= j
<1>1. ASSUME IInv, RestOfFile, [Next]_vars
      PROVE  Right
  <2> SUFFICES ASSUME Sorted, NEW i \in DOMAIN line, NEW j \in DOMAIN line,
                      Picked(line[i]), batch[line[j]].arrival_time <= TIME
               PROVE  \/ Key(line[i]) < Key(line[j])
                      \/ Key(line[i]) = Key(line[j]) /\ i <= j
    OBVIOUS
  <2>1. /\ line \in Seq(Processes) /\ None \notin Processes
        /\ completedProcesses \in Seq(Processes)
    BY <1>1, ConcatSeq, ProcessNumbers DEF IInv, TypeOK
  <2>2. line[i] \in Processes /\ line[i] # None
    BY <2>1
  <2>3. /\ \A p, r : Append(completedProcesses, p) = Append(completedProcesses, r) => p = r
        /\ \A p : Append(completedProcesses, p) # completedProcesses
    <3>1. \A p : /\ Len(Append(completedProcesses, p)) = Len(completedProcesses) + 1
                 /\ Append(completedProcesses, p)[Len(completedProcesses) + 1] = p
      BY <2>1
    <3>2. Len(completedProcesses) \in Nat
      BY <2>1
    <3> QED BY <3>1, <3>2
  <2>4. ASSUME NEW k, NEW n, Select(k, n), line[i] = Admitted(k)[n]
        PROVE  \/ Key(line[i]) < Key(line[j])
               \/ Key(line[i]) = Key(line[j]) /\ i <= j
    BY <1>1, <2>4, SelectTakesBest
  <2> HIDE DEF line
  <2>5. CASE Dispatch
    <3>1. PICK k \in 0..Len(waitQueue), n \in 1..Len(batch) :
            /\ Select(k, n) /\ temp' = Admitted(k)[n]
            /\ completedProcesses' = completedProcesses
      BY <2>5 DEF Dispatch
    <3>2. line[i] = Admitted(k)[n]
      BY <3>1, <2>3
    <3> QED BY <3>1, <3>2, <2>4
  <2>6. CASE CompleteWithoutRunning
    <3>1. PICK k \in 0..Len(waitQueue), n \in 1..Len(batch) :
            /\ Select(k, n) /\ temp' = None
            /\ completedProcesses' = Append(completedProcesses, Admitted(k)[n])
      BY <2>6 DEF CompleteWithoutRunning, ProcessCompleted
    <3>2. line[i] = Admitted(k)[n]
      BY <3>1, <2>2, <2>3
    <3> QED BY <3>1, <3>2, <2>4
  <2>7. CASE DispatchAgain \/ PushBack \/ Complete
    <3>1. pc = "await"
      BY <2>7 DEF DispatchAgain, PushBack, Complete, Receive
    <3>2. temp # None
      BY <3>1, <1>1 DEF IInv, Lockstep
    <3> QED BY <3>2
  <2>8. CASE Idle \/ Finish \/ CPU \/ UNCHANGED vars
    <3>1. temp' = temp /\ completedProcesses' = completedProcesses
      BY <2>8 DEF Idle, Finish, CPU, ExecuteBurst, Halt, vars
    <3>2. line[i] # temp'
      BY <3>1, <2>2
    <3> QED BY <3>1, <3>2, <2>3
  <2> QED BY <1>1, <2>5, <2>6, <2>7, <2>8 DEF Next, Scheduler, Terminated
<1>2. IInv /\ RestOfFile /\ [Next]_vars => Right
  BY <1>1
<1>3. Spec => [][Right]_vars
  BY <1>2, RestOfFileInvariance, PTL DEF Spec
<1> QED BY <1>3 DEF PolicyRespected

(* What stays when one member is removed keeps its order.                  *)
LEMMA RemoveAtKeepsOrder ==
  ASSUME NEW S, NEW s \in Seq(S), NEW n \in DOMAIN s
  PROVE  LET r == RemoveAt(s, n) IN
         \A i, j \in DOMAIN r : i < j =>
           \E a, b \in DOMAIN s : a < b /\ s[a] = r[i] /\ s[b] = r[j]
<1> DEFINE r == RemoveAt(s, n)
           From(i) == IF i < n THEN i ELSE i + 1
<1>1. DOMAIN s = 1..Len(s) /\ Len(s) \in Nat /\ n \in 1..Len(s)
  OBVIOUS
<1>2. /\ DOMAIN r = 1..(Len(s) - 1)
      /\ \A i \in 1..(Len(s) - 1) : r[i] = s[From(i)]
  <2> DEFINE c == SubSeq(s, 1, n - 1)
             d == SubSeq(s, n + 1, Len(s))
  <2>1. /\ c \in Seq(S) /\ Len(c) = n - 1 /\ \A i \in 1..(n - 1) : c[i] = s[i]
    BY <1>1
  <2>2. /\ d \in Seq(S) /\ Len(d) = Len(s) - n
        /\ \A i \in 1..(Len(s) - n) : d[i] = s[n + i]
    BY <1>1
  <2> HIDE DEF c, d, r
  <2>3. /\ c \o d \in Seq(S) /\ Len(c \o d) = Len(s) - 1
        /\ \A i \in 1..(Len(s) - 1) :
             (c \o d)[i] = IF i <= n - 1 THEN c[i] ELSE d[i - (n - 1)]
    <3>1. /\ c \o d \in Seq(S) /\ Len(c \o d) = Len(c) + Len(d)
          /\ \A i \in 1..(Len(c) + Len(d)) :
               (c \o d)[i] = IF i <= Len(c) THEN c[i] ELSE d[i - Len(c)]
      BY <2>1, <2>2
    <3>2. Len(c) + Len(d) = Len(s) - 1
      BY <1>1, <2>1, <2>2
    <3> QED BY <3>1, <3>2, <2>1
  <2>4. r = c \o d
    BY DEF RemoveAt, c, d, r
  <2>5. DOMAIN r = 1..(Len(s) - 1)
    BY <2>3, <2>4
  <2>6. ASSUME NEW i \in 1..(Len(s) - 1)
        PROVE  r[i] = s[IF i < n THEN i ELSE i + 1]
    <3>1. CASE i < n
      BY <3>1, <1>1, <2>1, <2>3, <2>4
    <3>2. CASE i >= n
      <4>1. i - (n - 1) \in 1..(Len(s) - n) /\ n + (i - (n - 1)) = i + 1
        BY <3>2, <1>1
      <4>2. r[i] = d[i - (n - 1)]
        BY <3>2, <1>1, <2>3, <2>4
      <4>3. r[i] = s[i + 1]
        BY <4>1, <4>2, <2>2
      <4> QED BY <4>3, <3>2, <1>1
    <3> QED BY <3>1, <3>2, <1>1
  <2> QED BY <2>5, <2>6
<1> SUFFICES ASSUME NEW i \in DOMAIN r, NEW j \in DOMAIN r, i < j
             PROVE  \E a, b \in DOMAIN s : a < b /\ s[a] = r[i] /\ s[b] = r[j]
  OBVIOUS
<1> HIDE DEF r
<1>3. From(i) \in DOMAIN s /\ From(j) \in DOMAIN s /\ From(i) < From(j)
  BY <1>1, <1>2
<1> QED BY <1>2, <1>3

(* No step lets anybody overtake another.                                  *)
THEOREM NobodyOvertakes == Spec => QueueKeepsOrder
<1> DEFINE line == processQueue \o waitQueue
           Kept == \A i, j \in DOMAIN processQueue' : i < j =>
              \/ \E a, b \in DOMAIN line : /\ a < b
                                           /\ line[a] = processQueue'[i]
                                           /\ line[b] = processQueue'[j]
              \/ processQueue'[j] = temp /\ j = Len(processQueue')
<1>1. ASSUME IInv, [Next]_vars
      PROVE  Kept
  <2>1. ASSUME NEW k \in 0..Len(waitQueue)
        PROVE  /\ Admitted(k) \in Seq(Processes)
               /\ DOMAIN Admitted(k) \subseteq Nat
               /\ \A j \in DOMAIN Admitted(k) :
                    j \in DOMAIN line /\ Admitted(k)[j] = line[j]
    BY <1>1, LineSplit, AdmitKeepsHomes DEF IInv
  <2>2. 0 \in 0..Len(waitQueue) /\ Admitted(0) = processQueue
    <3>1. waitQueue \in Seq(Processes) /\ processQueue \in Seq(Processes)
      BY <1>1 DEF IInv, TypeOK
    <3>2. SubSeq(waitQueue, 1, 0) = <<>>
      BY <3>1
    <3> QED BY <3>1, <3>2 DEF Admitted
  <2> HIDE DEF line
  <2>3. ASSUME NEW k \in 0..Len(waitQueue), processQueue' = Admitted(k)
        PROVE  Kept
    BY <2>1, <2>3
  <2>4. ASSUME NEW k, NEW n, Select(k, n)
        PROVE  Kept
    <3>1. /\ k \in 0..Len(waitQueue) /\ n \in DOMAIN Admitted(k)
          /\ processQueue' = RemoveAt(Admitted(k), n)
      BY <2>4 DEF Select, Arrived
    <3> DEFINE q == Admitted(k)
    <3>2. q \in Seq(Processes)
      BY <3>1, <2>1
    <3>3. \A j \in DOMAIN q : j \in DOMAIN line /\ q[j] = line[j]
      BY <3>1, <2>1
    <3> HIDE DEF q
    <3>4. n \in DOMAIN q /\ processQueue' = RemoveAt(q, n)
      BY <3>1 DEF q
    <3>5. \A i, j \in DOMAIN processQueue' : i < j =>
            \E a, b \in DOMAIN q : /\ a < b /\ q[a] = processQueue'[i]
                                   /\ q[b] = processQueue'[j]
      BY <3>2, <3>4, RemoveAtKeepsOrder
    <3> QED BY <3>3, <3>5
  <2>5. CASE Dispatch \/ CompleteWithoutRunning
    BY <2>4, <2>5 DEF Dispatch, CompleteWithoutRunning
  <2>6. CASE DispatchAgain \/ Complete
    BY <2>3, <2>6 DEF DispatchAgain, Complete
  <2>7. CASE PushBack
    <3>1. PICK k \in 0..Len(waitQueue) :
            processQueue' = Append(Admitted(k), Returned.process)
      BY <2>7 DEF PushBack
    <3>2. Returned.process = temp
      BY <1>1, <2>7, ReturnedBlock DEF PushBack
    <3> DEFINE q == Admitted(k)
    <3>3. /\ q \in Seq(Processes)
          /\ \A j \in DOMAIN q : j \in DOMAIN line /\ q[j] = line[j]
      BY <3>1, <2>1
    <3> HIDE DEF q
    <3>4. processQueue' = Append(q, temp)
      BY <3>1, <3>2 DEF q
    <3>5. /\ Len(q) \in Nat /\ DOMAIN q = 1..Len(q)
          /\ DOMAIN processQueue' = 1..(Len(q) + 1)
          /\ Len(processQueue') = Len(q) + 1
          /\ processQueue'[Len(q) + 1] = temp
          /\ \A j \in 1..Len(q) : processQueue'[j] = q[j]
      BY <3>3, <3>4
    <3> QED
      <4> SUFFICES ASSUME NEW i \in 1..(Len(q) + 1), NEW j \in 1..Len(q), i < j
                   PROVE  \E a, b \in DOMAIN line :
                            /\ a < b /\ line[a] = processQueue'[i]
                            /\ line[b] = processQueue'[j]
        BY <3>5
      <4>1. i \in 1..Len(q)
        BY <3>5
      <4>2. i \in DOMAIN line /\ line[i] = processQueue'[i]
        BY <4>1, <3>3, <3>5
      <4>3. j \in DOMAIN line /\ line[j] = processQueue'[j]
        BY <3>3, <3>5
      <4> QED BY <4>2, <4>3
  <2>8. CASE Idle \/ Finish \/ CPU \/ UNCHANGED vars
    <3>1. processQueue' = processQueue
      BY <2>8 DEF Idle, Finish, CPU, ExecuteBurst, Halt, vars
    <3> QED BY <3>1, <2>2, <2>3
  <2> QED BY <1>1, <2>5, <2>6, <2>7, <2>8 DEF Next, Scheduler, Terminated
<1>2. IInv /\ [Next]_vars => Kept
  BY <1>1
<1>3. Spec => [][Kept]_vars
  BY <1>2, Invariance, PTL DEF Spec
<1> QED BY <1>3 DEF QueueKeepsOrder

-------------------------------------------------------------------------------
(* Adding up.  Sum is a fold over a set.  What it returns is proved from   *)
(* the sets with the fewest members: a set of numbers that is not empty    *)
(* has a least one, so a smallest counterexample would leave a smaller one.*)

(* A set of natural numbers that is not empty has a least member.          *)
LEMMA LeastNumber ==
  ASSUME NEW T \in SUBSET Nat, T # {}
  PROVE  \E m \in T : \A k \in T : m <= k
<1> DEFINE R == OpToRel(<, Nat)
<1>1. IsWellFoundedOn(R, Nat)
  BY NatLessThanWellFounded
<1> HIDE DEF R
<1>2. PICK m \in T : \A k \in T : ~(<<k, m>> \in R)
  BY <1>1, WFMin
<1>3. \A k \in T : ~(k < m)
  BY <1>2 DEF R, OpToRel
<1> QED BY <1>3

(* The fold behind Sum takes a member, adds its value and goes on with the *)
(* rest.                                                                   *)
Pick(s) == CHOOSE x \in s : TRUE
(* F adds up f over every set of its arguments.                            *)
IsTally(F, f) ==
  F = [s \in SUBSET DOMAIN f |->
         IF s = {} THEN 0 ELSE f[Pick(s)] + F[s \ {Pick(s)}]]
Tally(f) == CHOOSE F : IsTally(F, f)

(* What Sum returns is such a function, at the whole domain.               *)
LEMMA SumIsTally ==
  ASSUME NEW f
  PROVE  Sum(f) = Tally(f)[DOMAIN f]
BY DEF Sum, FoldFunction, FoldFunctionOnSet, MapThenFoldSet, IsTally, Tally,
       Pick

(* The sets with fewer members come first.                                 *)
LEMMA PickedLeaves ==
  ASSUME NEW S, IsFiniteSet(S), NEW s \in SUBSET S
  PROVE  /\ IsFiniteSet(s) /\ Cardinality(s) \in Nat
         /\ s # {} => /\ Pick(s) \in s /\ s \ {Pick(s)} \in SUBSET S
                      /\ Cardinality(s \ {Pick(s)}) = Cardinality(s) - 1
                      /\ Cardinality(s) > 0
<1>1. IsFiniteSet(s) /\ Cardinality(s) \in Nat
  BY FS_Subset, FS_CardinalityType
<1>2. ASSUME s # {} PROVE Pick(s) \in s
  BY <1>2 DEF Pick
<1>3. ASSUME s # {}
      PROVE  /\ s \ {Pick(s)} \in SUBSET S
             /\ Cardinality(s \ {Pick(s)}) = Cardinality(s) - 1
             /\ Cardinality(s) > 0
  <2>1. Cardinality(s \ {Pick(s)}) = Cardinality(s) - 1
    BY <1>1, <1>2, <1>3, FS_RemoveElement
  <2>2. Cardinality(s) # 0
    BY <1>1, <1>3, FS_EmptySet
  <2> QED BY <1>1, <2>1, <2>2
<1> QED BY <1>1, <1>2, <1>3

(* There is such a function: it is defined on the sets of at most n        *)
(* members for every n.                                                    *)
LEMMA TallyExists ==
  ASSUME NEW f, IsFiniteSet(DOMAIN f)
  PROVE  IsTally(Tally(f), f)
<1> DEFINE S == DOMAIN f
           D(n) == {s \in SUBSET S : Cardinality(s) <= n}
           IsPart(G, n) ==
             G = [s \in D(n) |->
                    IF s = {} THEN 0 ELSE f[Pick(s)] + G[s \ {Pick(s)}]]
           Bad == {n \in Nat : ~\E G : IsPart(G, n)}
<1>1. Bad = {}
  <2> SUFFICES ASSUME Bad # {} PROVE FALSE
    OBVIOUS
  <2>1. PICK m \in Bad : \A k \in Bad : m <= k
    BY LeastNumber
  <2>2. CASE m = 0
    <3> DEFINE G == [s \in D(0) |-> 0]
    <3>1. D(0) = {{}}
      <4>1. \A s \in SUBSET S : IsFiniteSet(s) /\ Cardinality(s) \in Nat
        BY PickedLeaves
      <4>2. \A s \in SUBSET S : Cardinality(s) <= 0 <=> s = {}
        BY <4>1, FS_EmptySet
      <4> QED BY <4>2
    <3> HIDE DEF D
    <3>2. G = [s \in D(0) |->
                 IF s = {} THEN 0 ELSE f[Pick(s)] + G[s \ {Pick(s)}]]
      BY <3>1
    <3> QED BY <2>2, <3>2
  <2>3. CASE m # 0
    <3>1. m - 1 \in Nat /\ m - 1 \notin Bad /\ m \in Nat
      <4>1. m \in Nat /\ m - 1 \in Nat
        BY <2>3
      <4> HIDE DEF Bad
      <4> QED BY <2>1, <4>1
    <3>2. PICK G : IsPart(G, m - 1)
      BY <3>1
    <3> DEFINE H == [s \in D(m) |->
                       IF s = {} THEN 0 ELSE f[Pick(s)] + G[s \ {Pick(s)}]]
    <3>3. \A s \in D(m) : s # {} => s \ {Pick(s)} \in D(m - 1)
                                    /\ s \ {Pick(s)} \in D(m)
      BY <3>1, PickedLeaves
    <3>4. \A s \in D(m - 1) : s \in D(m)
      <4>1. \A s \in SUBSET S : Cardinality(s) \in Nat
        BY PickedLeaves
      <4> QED BY <3>1, <4>1
    <3> HIDE DEF D
    <3>5. \A s \in D(m - 1) : G[s] = H[s]
      BY <3>2, <3>4
    <3>6. IsPart(H, m)
      BY <3>3, <3>5
    <3> QED BY <2>1, <3>6
  <2> QED BY <2>2, <2>3
<1>2. Cardinality(S) \in Nat
  BY FS_CardinalityType
<1>3. PICK G : IsPart(G, Cardinality(S))
  BY <1>1, <1>2
<1>4. D(Cardinality(S)) = SUBSET S
  BY FS_Subset
<1>5. IsTally(G, f)
  BY <1>3, <1>4 DEF IsTally
<1> QED BY <1>5 DEF Tally

(* Functions that differ in one place have sums that differ by as much.    *)
LEMMA SumOfOneChange ==
  ASSUME NEW S, IsFiniteSet(S), NEW f \in [S -> Int], NEW g \in [S -> Int],
         NEW p \in S, \A q \in S \ {p} : g[q] = f[q]
  PROVE  /\ Sum(f) \in Int /\ Sum(g) \in Int
         /\ Sum(g) = Sum(f) + (g[p] - f[p])
<1> DEFINE F == Tally(f)
           G == Tally(g)
           Right(s) == /\ F[s] \in Int /\ G[s] \in Int
                       /\ G[s] = F[s] + (IF p \in s THEN g[p] - f[p] ELSE 0)
           Bad == {n \in Nat : \E s \in SUBSET S :
                                 Cardinality(s) = n /\ ~Right(s)}
<1>1. DOMAIN f = S /\ DOMAIN g = S
  OBVIOUS
<1>2. /\ \A s \in SUBSET S : F[s] = IF s = {} THEN 0
                                    ELSE f[Pick(s)] + F[s \ {Pick(s)}]
      /\ \A s \in SUBSET S : G[s] = IF s = {} THEN 0
                                    ELSE g[Pick(s)] + G[s \ {Pick(s)}]
  <2>1. IsTally(F, f) /\ IsTally(G, g)
    BY <1>1, TallyExists
  <2> HIDE DEF F, G
  <2> QED BY <1>1, <2>1 DEF IsTally
<1> HIDE DEF F, G
<1>3. Bad = {}
  <2> SUFFICES ASSUME Bad # {} PROVE FALSE
    OBVIOUS
  <2>1. PICK m \in Bad : \A k \in Bad : m <= k
    BY LeastNumber
  <2>2. PICK s \in SUBSET S : Cardinality(s) = m /\ ~Right(s)
    BY <2>1
  <2>3. s # {}
    <3>1. F[{}] = 0 /\ G[{}] = 0
      BY <1>2
    <3>2. Right({})
      BY <3>1
    <3> QED BY <2>2, <3>2
  <2> DEFINE x == Pick(s)
             r == s \ {x}
  <2>4. /\ x \in s /\ r \in SUBSET S /\ Cardinality(r) = m - 1 /\ m > 0
        /\ m \in Nat
    BY <2>1, <2>2, <2>3, PickedLeaves
  <2>5. F[s] = f[x] + F[r] /\ G[s] = g[x] + G[r]
    BY <1>2, <2>3
  <2> HIDE DEF x
  <2>6. Right(r)
    BY <2>1, <2>4
  <2>7. p \in r <=> p \in s /\ p # x
    OBVIOUS
  <2>8. f[x] \in Int /\ g[x] \in Int /\ f[p] \in Int /\ g[p] \in Int
    BY <2>4
  <2>9. g[x] = f[x] \/ x = p
    BY <2>4
  <2> HIDE DEF r
  <2> QED BY <2>2, <2>4, <2>5, <2>6, <2>7, <2>8, <2>9
<1>4. Right(S)
  BY <1>3, FS_CardinalityType
<1> QED BY <1>1, <1>4, SumIsTally DEF F, G

(* The sum of zeros is zero.                                               *)
LEMMA SumOfZeros ==
  ASSUME NEW S, IsFiniteSet(S), NEW f \in [S -> Int], \A q \in S : f[q] = 0
  PROVE  Sum(f) = 0
<1> DEFINE F == Tally(f)
           Bad == {n \in Nat : \E s \in SUBSET S :
                                 Cardinality(s) = n /\ F[s] # 0}
<1>1. DOMAIN f = S
  OBVIOUS
<1>2. \A s \in SUBSET S : F[s] = IF s = {} THEN 0
                                 ELSE f[Pick(s)] + F[s \ {Pick(s)}]
  <2>1. IsTally(F, f)
    BY <1>1, TallyExists
  <2> HIDE DEF F
  <2> QED BY <1>1, <2>1 DEF IsTally
<1> HIDE DEF F
<1>3. Bad = {}
  <2> SUFFICES ASSUME Bad # {} PROVE FALSE
    OBVIOUS
  <2>1. PICK m \in Bad : \A k \in Bad : m <= k
    BY LeastNumber
  <2>2. PICK s \in SUBSET S : Cardinality(s) = m /\ F[s] # 0
    BY <2>1
  <2>3. s # {}
    BY <1>2, <2>2
  <2> DEFINE x == Pick(s)
             r == s \ {x}
  <2>4. /\ x \in s /\ r \in SUBSET S /\ Cardinality(r) = m - 1 /\ m > 0
        /\ m \in Nat
    BY <2>1, <2>2, <2>3, PickedLeaves
  <2>5. F[s] = f[x] + F[r]
    BY <1>2, <2>3
  <2>6. F[r] = 0
    BY <2>1, <2>4
  <2>7. f[x] = 0
    BY <2>4
  <2> QED BY <2>2, <2>5, <2>6, <2>7
<1>4. F[S] = 0
  BY <1>3, FS_CardinalityType
<1> QED BY <1>1, <1>4, SumIsTally DEF F

-------------------------------------------------------------------------------
(* Work, switches and clock.                                               *)

(* Nobody is sent to the CPU with nothing left to run, but by roundRobin,  *)
(* and that once.                                                          *)
WorkLeft ==
  /\ \A p \in Processes \ Range(completedProcesses) :
       \/ est_remaining_runtime[p] > 0
       \/ batch[p].est_runtime = 0 /\ context_switches[p] = 0
  /\ temp # None /\ mode.policy # "RR" => est_remaining_runtime[temp] > 0

(* The inductive invariant about work and switches.                        *)
SInv == IInv /\ SwitchesMatchWork /\ WorkLeft

(* One burst more.                                                         *)
LEMMA OneBurstMore ==
  ASSUME NEW q \in Nat, q > 0, NEW c \in Nat, NEW w \in Nat, NEW r \in Nat,
         r = IF q * c < w THEN w - q * c ELSE 0,
         r > 0 \/ (w = 0 /\ c = 0)
  PROVE  /\ (IF r < q THEN 0 ELSE r - q)
              = IF q * (c + 1) < w THEN w - q * (c + 1) ELSE 0
         /\ c + 1 > 0
         /\ \/ q * (c + 1) - q < w
            \/ w = 0 /\ c + 1 = 1
<1> DEFINE g == q * c
<1>1. g \in Nat /\ q * (c + 1) = g + q
  OBVIOUS
<1>2. c = 0 => g = 0
  OBVIOUS
<1> HIDE DEF g
<1>3. r = IF g < w THEN w - g ELSE 0
  BY DEF g
<1> QED BY <1>1, <1>2, <1>3

(* A visit to the CPU keeps switches and work matched and touches nobody   *)
(* but the process it was for.                                             *)
LEMMA ReceiveSwitches ==
  ASSUME SInv, Receive, batch' = batch, mode' = mode
  PROVE  /\ SwitchesMatchWork'
         /\ \A p \in Processes \ {temp} :
              /\ est_remaining_runtime'[p] = est_remaining_runtime[p]
              /\ context_switches'[p] = context_switches[p]
         /\ est_remaining_runtime'[temp] = Returned.est_remaining_runtime
         /\ temp \notin Range(completedProcesses)
<1> USE DEF SInv
<1> DEFINE q == mode.quantum
           c == context_switches[temp]
           w == batch[temp].est_runtime
           r == est_remaining_runtime[temp]
<1>1. /\ temp \in Processes
      /\ est_remaining_runtime' =
           [est_remaining_runtime EXCEPT ![temp] = AfterBurst(r)]
      /\ context_switches' = [context_switches EXCEPT ![temp] = c + 1]
      /\ Returned.est_remaining_runtime = AfterBurst(r)
  BY ReturnedBlock
<1>2. /\ est_remaining_runtime \in [Processes -> Nat]
      /\ context_switches \in [Processes -> Nat]
      /\ q \in Nat /\ q > 0 /\ w \in Nat /\ Processes' = Processes
      /\ None \notin Processes
  BY <1>1, ProcessNumbers DEF IInv, TypeOK, Row, Processes
<1>3. c \in Nat /\ r \in Nat
  BY <1>1, <1>2
<1>4. /\ est_remaining_runtime'[temp] = AfterBurst(r)
      /\ context_switches'[temp] = c + 1
      /\ \A p \in Processes \ {temp} :
              /\ est_remaining_runtime'[p] = est_remaining_runtime[p]
              /\ context_switches'[p] = context_switches[p]
  BY <1>1, <1>2
<1>5. temp \notin Range(completedProcesses)
  BY <1>1, <1>2 DEF IInv, OneHomePerProcess
<1>6. \/ r > 0
      \/ w = 0 /\ c = 0
  BY <1>1, <1>5 DEF WorkLeft
<1>7. r = 0 => mode.policy = "RR"
  BY <1>1, <1>2 DEF WorkLeft
<1>8. r = IF q * c < w THEN w - q * c ELSE 0
  BY <1>1 DEF SwitchesMatchWork
<1> HIDE DEF q, c, w, r
<1>9. /\ AfterBurst(r) = IF q * (c + 1) < w THEN w - q * (c + 1) ELSE 0
      /\ \/ q * (c + 1) - q < w
         \/ w = 0 /\ c + 1 = 1
  <2>1. AfterBurst(r) = IF r < q THEN 0 ELSE r - q
    BY DEF AfterBurst, q
  <2> QED BY <2>1, <1>2, <1>3, <1>6, <1>8, OneBurstMore
<1>10. \/ q * (c + 1) - q < w
       \/ mode.policy = "RR" /\ w = 0 /\ c + 1 = 1
  <2>1. CASE r > 0
    <3>1. q * c < w
      BY <2>1, <1>8
    <3>2. q * (c + 1) - q = q * c
      BY <1>2, <1>3
    <3> QED BY <3>1, <3>2
  <2>2. CASE r = 0
    BY <2>2, <1>7, <1>9
  <2> QED BY <2>1, <2>2, <1>3
<1>11. ASSUME NEW p \in Processes
       PROVE  LET work == batch[p].est_runtime
                  given == mode.quantum * context_switches'[p]
              IN /\ est_remaining_runtime'[p] =
                      IF given < work THEN work - given ELSE 0
                 /\ context_switches'[p] > 0 =>
                      \/ given - mode.quantum < work
                      \/ /\ mode.policy = "RR" /\ work = 0
                         /\ context_switches'[p] = 1
  <2>1. CASE p = temp
    BY <2>1, <1>4, <1>9, <1>10 DEF q, c, w
  <2>2. CASE p # temp
    BY <2>2, <1>4, <1>11 DEF SwitchesMatchWork
  <2> QED BY <2>1, <2>2
<1>12. SwitchesMatchWork'
  BY <1>2, <1>11 DEF SwitchesMatchWork
<1> QED BY <1>1, <1>4, <1>5, <1>12

(* What a selection takes has not completed.                               *)
LEMMA SelectedNotCompleted ==
  ASSUME IInv, NEW k, NEW i, Select(k, i)
  PROVE  LET p == Admitted(k)[i] IN
         /\ p \in Processes /\ p \notin Range(completedProcesses)
         /\ temp = None
<1>1. k \in 0..Len(waitQueue)
  BY DEF Select, Arrived
<1>2. /\ Admitted(k)[i] \in Range(Admitted(k))
      /\ Admitted(k)[i] \in Processes
  BY <1>1, SelectedIsAdmitted, SelectKeepsHomes DEF IInv
<1>3. Range(Admitted(k)) \subseteq Range(processQueue) \cup Range(waitQueue)
  BY <1>1, AdmitKeepsHomes DEF IInv
<1>4. temp = None
  BY DEF Select, AtLoopTop, IInv, Lockstep
<1> QED BY <1>2, <1>3, <1>4 DEF IInv, OneHomePerProcess

(* Both facts about the work are inductive together.                       *)
LEMMA StepSInv == SInv /\ [Next]_vars => SInv'
<1> SUFFICES ASSUME SInv, [Next]_vars
             PROVE  SwitchesMatchWork' /\ WorkLeft'
  BY StepIInv DEF SInv
<1> USE DEF SInv
<1>1. None \notin Processes /\ mode.quantum > 0
      /\ completedProcesses \in Seq(Processes)
      /\ est_remaining_runtime \in [Processes -> Nat]
  BY ProcessNumbers DEF IInv, TypeOK
<1>2. CASE Dispatch
  <2>1. PICK k \in 0..Len(waitQueue), i \in 1..Len(batch) :
          /\ Select(k, i)
          /\ mode.policy = "RR" \/ est_remaining_runtime[Admitted(k)[i]] > 0
          /\ temp' = Admitted(k)[i]
          /\ UNCHANGED <<input, pcbs, completedProcesses, cpu, toScheduler>>
    BY <1>2 DEF Dispatch
  <2> QED BY <2>1 DEF SwitchesMatchWork, WorkLeft, Processes, input, pcbs
<1>3. CASE CompleteWithoutRunning
  <2>1. PICK k \in 0..Len(waitQueue), i \in 1..Len(batch) :
          /\ Select(k, i)
          /\ ProcessCompleted(Admitted(k)[i], TIME + 2)
          /\ UNCHANGED <<input, est_remaining_runtime, context_switches>>
    BY <1>3 DEF CompleteWithoutRunning
  <2> DEFINE p == Admitted(k)[i]
  <2>2. p \in Processes
    BY <2>1, SelectedNotCompleted
  <2>3. /\ completedProcesses' = Append(completedProcesses, p)
        /\ temp' = None /\ Processes' = Processes
    BY <2>1 DEF ProcessCompleted, Processes, input
  <2>4. Range(completedProcesses') = Range(completedProcesses) \cup {p}
    BY <1>1, <2>2, <2>3, AppendSeq
  <2> QED BY <2>1, <2>3, <2>4 DEF SwitchesMatchWork, WorkLeft, Processes, input
<1>4. CASE DispatchAgain
  <2>1. /\ Receive /\ batch' = batch /\ mode' = mode
        /\ Processes' = Processes /\ Returned.est_remaining_runtime > 0
        /\ temp' = Returned.process /\ temp' = temp
        /\ completedProcesses' = completedProcesses
    BY <1>4, ReturnedBlock DEF DispatchAgain, Processes, input
  <2> QED BY <2>1, ReceiveSwitches DEF WorkLeft
<1>5. CASE PushBack
  <2>1. /\ Receive /\ batch' = batch /\ mode' = mode
        /\ Processes' = Processes /\ Returned.est_remaining_runtime > 0
        /\ temp' = None /\ completedProcesses' = completedProcesses
    BY <1>5 DEF PushBack, Processes, input
  <2> QED BY <2>1, ReceiveSwitches DEF WorkLeft
<1>6. CASE Complete
  <2>1. /\ Receive /\ batch' = batch /\ mode' = mode
        /\ Processes' = Processes
        /\ temp' = None
        /\ completedProcesses' = Append(completedProcesses, Returned.process)
        /\ Returned.process = temp /\ temp \in Processes
    BY <1>6, ReturnedBlock DEF Complete, ProcessCompleted, Processes, input
  <2>2. Range(completedProcesses') = Range(completedProcesses) \cup {temp}
    BY <1>1, <2>1, AppendSeq
  <2> QED BY <2>1, <2>2, ReceiveSwitches DEF WorkLeft
<1>7. CASE Idle \/ Finish \/ CPU \/ UNCHANGED vars
  <2>1. /\ batch' = batch /\ mode' = mode /\ temp' = temp
        /\ est_remaining_runtime' = est_remaining_runtime
        /\ context_switches' = context_switches
        /\ completedProcesses' = completedProcesses
    BY <1>7 DEF Idle, Finish, CPU, ExecuteBurst, Halt, vars, input, pcbs
  <2> QED BY <2>1 DEF SwitchesMatchWork, WorkLeft, Processes
<1> QED BY <1>2, <1>3, <1>4, <1>5, <1>6, <1>7 DEF Next, Scheduler, Terminated

(* They hold before anything has run.                                      *)
LEMMA InitSInv == Init => SInv
<1> SUFFICES ASSUME Init PROVE SwitchesMatchWork /\ WorkLeft
  BY InitIInv DEF SInv
<1>1. IInv
  BY InitIInv
<1>2. /\ temp = None /\ mode.quantum \in Nat
      /\ \A p \in Processes : /\ batch[p].est_runtime \in Nat
                              /\ est_remaining_runtime[p] = batch[p].est_runtime
                              /\ context_switches[p] = 0
  BY <1>1, ProcessNumbers DEF Init, IInv, Row
<1>3. mode.quantum * 0 = 0
  BY <1>2
<1> QED BY <1>2, <1>3 DEF SwitchesMatchWork, WorkLeft

(* The parts of ClockBounds.                                               *)
WorkOf(p)  == batch[p].est_runtime - est_remaining_runtime[p]
WorkDone   == Sum([p \in Processes |-> WorkOf(p)])
Switches   == (IF temp = None THEN 0 ELSE 1)
                + IF mode.policy = "RR" THEN Sum(context_switches)
                                        ELSE Len(completedProcesses)
IdleTicks  == TIME - (WorkDone + 2 * Switches + Len(completedProcesses))

(* ClockBounds speaks of the idle ticks.                                   *)
LEMMA ClockBoundsParts ==
  ClockBounds <=>
    (ClockCountsWork => /\ IdleTicks >= 0
                        /\ IdleTicks > 0 => \E p \in Processes :
                             IdleTicks <= batch[p].arrival_time)
BY DEF ClockBounds, IdleTicks, WorkDone, WorkOf, Switches

(* What is added up is finite and made of integers.                        *)
LEMMA TallyTypes ==
  ASSUME TypeOK
  PROVE  /\ IsFiniteSet(Processes)
         /\ [p \in Processes |-> WorkOf(p)] \in [Processes -> Int]
         /\ context_switches \in [Processes -> Int]
<1>1. IsFiniteSet(Processes)
  BY ProcessNumbers, FS_Interval
<1>2. \A p \in Processes : batch[p].est_runtime \in Nat
                           /\ est_remaining_runtime[p] \in Nat
  BY ProcessNumbers DEF TypeOK, Row
<1>3. \A p \in Processes : WorkOf(p) \in Int
  BY <1>2 DEF WorkOf
<1> QED BY <1>1, <1>3 DEF TypeOK

(* The numbers are numbers; a file without rows adds up to nothing.        *)
LEMMA SumTypes ==
  ASSUME TypeOK
  PROVE  WorkDone \in Int /\ Sum(context_switches) \in Int
<1>1. CASE Processes = {}
  <2>1. /\ Sum([p \in Processes |-> WorkOf(p)]) = 0
        /\ Sum(context_switches) = 0
    BY <1>1, TallyTypes, SumOfZeros
  <2> QED BY <2>1 DEF WorkDone
<1>2. CASE Processes # {}
  <2>1. PICK p \in Processes : TRUE
    BY <1>2
  <2>2. \A f \in [Processes -> Int] : Sum(f) \in Int
    BY <2>1, TallyTypes, SumOfOneChange
  <2> QED BY <2>2, TallyTypes DEF WorkDone
<1> QED BY <1>1, <1>2

(* All the parts are integers.                                             *)
LEMMA ClockTypes ==
  ASSUME TypeOK
  PROVE  /\ TIME \in Nat /\ Len(completedProcesses) \in Nat
         /\ Switches \in Int /\ IdleTicks \in Int /\ WorkDone \in Int
         /\ Sum(context_switches) \in Int
<1>1. TIME \in Nat /\ Len(completedProcesses) \in Nat
  BY DEF TypeOK
<1>2. Switches \in Int
  BY <1>1, SumTypes DEF Switches
<1> QED BY <1>1, <1>2, SumTypes DEF IdleTicks

(* A visit to the CPU adds its burst to the work and one to the switches.  *)
LEMMA ReceiveAddsUp ==
  ASSUME SInv, Receive, batch' = batch, mode' = mode
  PROVE  /\ WorkDone' = WorkDone + (est_remaining_runtime[temp]
                            - AfterBurst(est_remaining_runtime[temp]))
         /\ Sum(context_switches)' = Sum(context_switches) + 1
<1> DEFINE r == est_remaining_runtime[temp]
           c == context_switches[temp]
           f == [p \in Processes |-> WorkOf(p)]
           g == [p \in Processes |-> WorkOf(p)]'
<1>1. TypeOK /\ IInv
  BY DEF SInv, IInv
<1>2. /\ temp \in Processes /\ Processes' = Processes
      /\ est_remaining_runtime' =
           [est_remaining_runtime EXCEPT ![temp] = AfterBurst(r)]
      /\ context_switches' = [context_switches EXCEPT ![temp] = c + 1]
      /\ AfterBurst(r) \in Nat
      /\ est_remaining_runtime' \in [Processes -> Nat]
      /\ context_switches' \in [Processes -> Nat]
  BY <1>1, ReturnedBlock DEF Processes
<1>3. /\ IsFiniteSet(Processes) /\ f \in [Processes -> Int]
      /\ context_switches \in [Processes -> Int]
  BY <1>1, TallyTypes
<1>4. \A p \in Processes : batch[p].est_runtime \in Nat
  BY <1>1, ProcessNumbers DEF Row
<1>5. g \in [Processes -> Int]
      /\ \A p \in Processes : g[p] = batch[p].est_runtime
                                       - est_remaining_runtime'[p]
  BY <1>2, <1>4 DEF WorkOf
<1>6. \A p \in Processes : f[p] = batch[p].est_runtime
                                    - est_remaining_runtime[p]
  BY DEF WorkOf
<1>7. est_remaining_runtime \in [Processes -> Nat]
  BY <1>1 DEF TypeOK
<1>8. WorkDone' = Sum(g) /\ WorkDone = Sum(f)
  BY DEF WorkDone
<1> HIDE DEF f, g
<1>9. Sum(g) = Sum(f) + (g[temp] - f[temp]) /\ Sum(f) \in Int
  <2>1. \A p \in Processes \ {temp} : g[p] = f[p]
    BY <1>2, <1>5, <1>6, <1>7
  <2> QED BY <2>1, <1>2, <1>3, <1>5, SumOfOneChange
<1>10. g[temp] - f[temp] = r - AfterBurst(r)
  <2>1. est_remaining_runtime'[temp] = AfterBurst(r) /\ r \in Nat
    BY <1>2, <1>7
  <2>2. batch[temp].est_runtime \in Nat
    BY <1>2, <1>4
  <2> HIDE DEF r
  <2> QED BY <2>1, <2>2, <1>2, <1>5, <1>6 DEF r
<1>11. Sum(context_switches') = Sum(context_switches) + 1
  <2>1. /\ context_switches' \in [Processes -> Int]
        /\ c \in Nat /\ context_switches'[temp] = c + 1
        /\ \A p \in Processes \ {temp} :
             context_switches'[p] = context_switches[p]
    BY <1>1, <1>2 DEF TypeOK
  <2> DEFINE u == context_switches
             v == context_switches'
  <2>2. /\ IsFiniteSet(Processes) /\ temp \in Processes
        /\ u \in [Processes -> Int] /\ v \in [Processes -> Int]
        /\ \A p \in Processes \ {temp} : v[p] = u[p]
        /\ v[temp] - u[temp] = 1
    BY <2>1, <1>2, <1>3
  <2> HIDE DEF u, v
  <2>3. Sum(v) = Sum(u) + (v[temp] - u[temp]) /\ Sum(u) \in Int
    BY <2>2, SumOfOneChange
  <2> QED BY <2>2, <2>3 DEF u, v
<1>12. Sum(context_switches)' = Sum(context_switches')
  OBVIOUS
<1> QED BY <1>8, <1>9, <1>10, <1>11, <1>12

(* What a visit costs the clock is the burst.                              *)
LEMMA BurstOnClock ==
  ASSUME SInv, Receive, ClockCountsWork
  PROVE  /\ TimePassed(temp) = est_remaining_runtime[temp]
                                 - AfterBurst(est_remaining_runtime[temp])
         /\ TimePassed(temp) \in Nat
<1>1. /\ temp \in Processes /\ temp # None
      /\ est_remaining_runtime[temp] \in Nat
      /\ mode.quantum \in Nat /\ mode.quantum > 0
  BY ReturnedBlock, ProcessNumbers DEF SInv, IInv, TypeOK
<1>2. mode.policy # "RR" => est_remaining_runtime[temp] > 0
                            /\ mode.quantum = 1
  BY <1>1 DEF SInv, WorkLeft, ClockCountsWork
<1> QED BY <1>1, <1>2 DEF TimePassed, AfterBurst

(* No step but Idle changes the number of idle ticks.                      *)
LEMMA IdleTicksKept ==
  ASSUME SInv, SInv', ClockCountsWork,
         Dispatch \/ CompleteWithoutRunning \/ DispatchAgain \/ PushBack
           \/ Complete \/ Finish \/ CPU \/ UNCHANGED vars
  PROVE  IdleTicks' = IdleTicks
<1>1. TypeOK /\ TypeOK' /\ IInv /\ IInv'
  BY DEF SInv, IInv
<1>2. /\ TIME \in Nat /\ Len(completedProcesses) \in Nat
      /\ WorkDone \in Int /\ Sum(context_switches) \in Int
      /\ None \notin Processes /\ completedProcesses \in Seq(Processes)
  BY <1>1, ClockTypes, ProcessNumbers DEF TypeOK
<1>3. ASSUME batch' = batch, est_remaining_runtime' = est_remaining_runtime
      PROVE  WorkDone' = WorkDone
  BY <1>3 DEF WorkDone, WorkOf, Processes
<1>4. CASE Dispatch
  <2>1. PICK k \in 0..Len(waitQueue), i \in 1..Len(batch) :
          /\ Select(k, i) /\ temp' = Admitted(k)[i] /\ TIME' = TIME + 2
          /\ UNCHANGED <<input, pcbs, completedProcesses, cpu, toScheduler>>
    BY <1>4 DEF Dispatch
  <2>2. temp = None /\ temp' # None
    BY <1>1, <1>2, <2>1, SelectedNotCompleted
  <2>3. /\ WorkDone' = WorkDone /\ mode' = mode
        /\ context_switches' = context_switches
        /\ completedProcesses' = completedProcesses
    BY <1>3, <2>1 DEF input, pcbs
  <2>4. Sum(context_switches)' = Sum(context_switches)
    BY <2>3
  <2>5. Switches \in Int /\ Switches' = Switches + 1
    BY <1>1, <1>2, <2>2, <2>3, <2>4, ClockTypes DEF Switches
  <2> QED BY <1>2, <2>1, <2>3, <2>5 DEF IdleTicks
<1>5. CASE CompleteWithoutRunning
  <2>1. PICK k \in 0..Len(waitQueue), i \in 1..Len(batch) :
          /\ Select(k, i) /\ mode.policy # "RR"
          /\ ProcessCompleted(Admitted(k)[i], TIME + 2)
          /\ UNCHANGED <<input, est_remaining_runtime, context_switches>>
    BY <1>5 DEF CompleteWithoutRunning
  <2>2. temp = None /\ Admitted(k)[i] \in Processes
    BY <1>1, <2>1, SelectedNotCompleted
  <2>3. /\ WorkDone' = WorkDone /\ mode' = mode /\ temp' = None
        /\ completedProcesses' = Append(completedProcesses, Admitted(k)[i])
        /\ TIME' = (TIME + 2) + 1
    BY <1>3, <2>1 DEF input, ProcessCompleted
  <2>4. Len(completedProcesses') = Len(completedProcesses) + 1
    BY <1>2, <2>2, <2>3
  <2>5. Switches \in Int /\ Switches' = Switches + 1
    BY <1>2, <2>1, <2>2, <2>3, <2>4 DEF Switches
  <2> QED BY <1>2, <2>3, <2>4, <2>5 DEF IdleTicks
<1>6. ASSUME Receive, batch' = batch, mode' = mode
      PROVE  /\ WorkDone' = WorkDone + TimePassed(temp)
             /\ Sum(context_switches)' = Sum(context_switches) + 1
             /\ temp # None /\ TimePassed(temp) \in Nat
  BY <1>1, <1>2, <1>6, ReceiveAddsUp, BurstOnClock, ReturnedBlock
<1>7. CASE DispatchAgain
  <2>1. /\ Receive /\ batch' = batch /\ mode' = mode /\ mode.policy # "RR"
        /\ temp' = temp /\ completedProcesses' = completedProcesses
        /\ TIME' = TIME + 1
    BY <1>1, <1>7, ReturnedBlock DEF DispatchAgain, input
  <2>2. TimePassed(temp) = 1
    BY <2>1 DEF TimePassed
  <2>3. Switches' = Switches /\ Switches \in Int
    BY <1>1, <2>1, ClockTypes DEF Switches
  <2> QED BY <1>2, <1>6, <2>1, <2>2, <2>3 DEF IdleTicks
<1>8. CASE PushBack
  <2>1. /\ Receive /\ batch' = batch /\ mode' = mode /\ mode.policy = "RR"
        /\ temp' = None /\ completedProcesses' = completedProcesses
        /\ TIME' = TIME + TimePassed(temp)
    BY <1>8 DEF PushBack, input
  <2>2. Switches' = Switches /\ Switches \in Int
    BY <1>1, <1>2, <1>6, <2>1, ClockTypes DEF Switches
  <2> QED BY <1>2, <1>6, <2>1, <2>2 DEF IdleTicks
<1>9. CASE Complete
  <2>1. /\ Receive /\ batch' = batch /\ mode' = mode /\ temp' = None
        /\ completedProcesses' = Append(completedProcesses, Returned.process)
        /\ TIME' = (TIME + TimePassed(temp)) + 1
    BY <1>9 DEF Complete, ProcessCompleted, input
  <2>2. Returned.process \in Processes
    BY <1>1, <2>1, ReturnedBlock
  <2>3. Len(completedProcesses') = Len(completedProcesses) + 1
    BY <1>2, <2>1, <2>2
  <2>4. Switches' = Switches /\ Switches \in Int
    <3>1. Sum(context_switches)' = Sum(context_switches) + 1 /\ temp # None
      BY <1>6, <2>1
    <3>2. CASE mode.policy = "RR"
      BY <3>1, <3>2, <1>2, <2>1 DEF Switches
    <3>3. CASE mode.policy # "RR"
      BY <3>1, <3>3, <1>2, <2>1, <2>3 DEF Switches
    <3> QED BY <3>2, <3>3
  <2>5. WorkDone' = WorkDone + TimePassed(temp) /\ TimePassed(temp) \in Nat
    BY <1>6, <2>1
  <2> DEFINE n == Len(completedProcesses)
             d == TimePassed(temp)
  <2>6. /\ n \in Nat /\ d \in Nat /\ n' = n + 1 /\ TIME' = (TIME + d) + 1
        /\ WorkDone' = WorkDone + d
    BY <1>2, <2>1, <2>3, <2>5
  <2> HIDE DEF n, d
  <2>7. IdleTicks = TIME - (WorkDone + 2 * Switches + n)
        /\ IdleTicks' = TIME' - (WorkDone' + 2 * Switches' + n')
    BY DEF IdleTicks, n
  <2> QED BY <1>2, <2>4, <2>6, <2>7
<1>10. CASE Finish \/ CPU \/ UNCHANGED vars
  <2>1. /\ batch' = batch /\ mode' = mode /\ temp' = temp /\ TIME' = TIME
        /\ est_remaining_runtime' = est_remaining_runtime
        /\ context_switches' = context_switches
        /\ completedProcesses' = completedProcesses
    BY <1>10 DEF Finish, CPU, ExecuteBurst, Halt, vars, input, pcbs
  <2>2. Switches' = Switches
    BY <2>1 DEF Switches
  <2> QED BY <1>3, <2>1, <2>2 DEF IdleTicks
<1> QED BY <1>4, <1>5, <1>7, <1>8, <1>9, <1>10

(* Idle ticks pass only while somebody is still to arrive.                 *)
LEMMA IdleWaitsForSomebody ==
  ASSUME SInv, Idle, IdleTicks <= TIME
  PROVE  /\ IdleTicks' = IdleTicks + 1
         /\ \E p \in Processes : IdleTicks' <= batch[p].arrival_time
<1>1. TypeOK /\ IInv
  BY DEF SInv, IInv
<1>2. /\ TIME' = TIME + 1 /\ batch' = batch /\ mode' = mode /\ temp' = temp
      /\ est_remaining_runtime' = est_remaining_runtime
      /\ context_switches' = context_switches
      /\ completedProcesses' = completedProcesses
  BY DEF Idle, input, pcbs
<1>3. /\ TIME \in Nat /\ IdleTicks \in Int /\ WorkDone \in Int
      /\ Switches \in Int /\ Len(completedProcesses) \in Nat
  BY <1>1, ClockTypes
<1>4. WorkDone' = WorkDone /\ Switches' = Switches
  BY <1>2 DEF WorkDone, WorkOf, Processes, Switches
<1>5. IdleTicks' = IdleTicks + 1
  BY <1>2, <1>3, <1>4 DEF IdleTicks
<1>6. /\ processQueue = <<>> /\ Arrived(0, TIME) /\ ~LoopDone /\ temp = None
  BY <1>1 DEF Idle, AtLoopTop, IInv, Lockstep
<1>7. waitQueue # <<>>
  <2> SUFFICES ASSUME waitQueue = <<>> PROVE FALSE
    OBVIOUS
  <2>1. Range(waitQueue) = {} /\ Range(processQueue) = {}
    BY <1>6 DEF Range
  <2>2. Range(completedProcesses) = Processes
    BY <1>1, <1>6, <2>1 DEF IInv, OneHomePerProcess
  <2> QED BY <1>1, <1>6, <2>2, LoopDoneWhenAllCompleted
<1>8. waitQueue \in Seq(Processes)
  BY <1>1 DEF TypeOK
<1>9. waitQueue[1] \in Processes /\ 0 < Len(waitQueue)
  BY <1>7, <1>8
<1>10. ~(batch[waitQueue[1]].arrival_time <= TIME)
  BY <1>6, <1>9 DEF Arrived, HasArrived
<1>11. batch[waitQueue[1]].arrival_time \in Nat
  BY <1>1, <1>9, ProcessNumbers DEF Row
<1>12. IdleTicks' <= batch[waitQueue[1]].arrival_time
  BY <1>3, <1>5, <1>10, <1>11
<1> QED BY <1>5, <1>9, <1>12

(* The clock never shows less than what was counted, and no more idle      *)
(* ticks than somebody's arrival time.  IdleTicks <= TIME makes the second *)
(* inductive: an idle tick is counted while TIME is before an arrival.     *)
CInv == /\ SInv
        /\ ClockCountsWork => /\ IdleTicks <= TIME /\ IdleTicks >= 0
                              /\ IdleTicks > 0 => \E p \in Processes :
                                   IdleTicks <= batch[p].arrival_time

(* The accounting is inductive.                                            *)
LEMMA StepCInv == CInv /\ [Next]_vars => CInv'
<1> SUFFICES ASSUME CInv, [Next]_vars, ClockCountsWork'
             PROVE  /\ IdleTicks' <= TIME' /\ IdleTicks' >= 0
                    /\ IdleTicks' > 0 => \E p \in Processes' :
                                   IdleTicks' <= batch'[p].arrival_time
  BY StepSInv DEF CInv
<1>1. SInv /\ SInv' /\ TypeOK /\ TypeOK' /\ IInv
  BY StepSInv DEF CInv, SInv, IInv
<1>2. /\ TIME \in Nat /\ TIME' \in Nat /\ IdleTicks \in Int
      /\ \A p \in Processes : batch[p].arrival_time \in Nat
  BY <1>1, ClockTypes, ProcessNumbers DEF TypeOK, Row
<1>3. batch' = batch /\ mode' = mode
  BY DEF Next, Scheduler, CPU, Terminated, Idle, Dispatch,
         CompleteWithoutRunning, DispatchAgain, PushBack, Complete, Finish,
         ExecuteBurst, Halt, vars, input
<1>4. ClockCountsWork /\ Processes' = Processes
  BY <1>3 DEF ClockCountsWork, Processes
<1>5. CASE Idle
  <2>1. TIME' = TIME + 1
    BY <1>5 DEF Idle
  <2>2. /\ IdleTicks' = IdleTicks + 1
        /\ \E p \in Processes : IdleTicks' <= batch[p].arrival_time
    BY <1>1, <1>4, <1>5, IdleWaitsForSomebody DEF CInv
  <2> QED BY <2>1, <2>2, <1>2, <1>3, <1>4 DEF CInv
<1>6. CASE ~Idle
  <2>1. \/ Dispatch \/ CompleteWithoutRunning \/ DispatchAgain \/ PushBack
        \/ Complete \/ Finish \/ CPU \/ UNCHANGED vars
    BY <1>6 DEF Next, Scheduler, Terminated
  <2>2. IdleTicks' = IdleTicks
    BY <2>1, <1>1, <1>4, IdleTicksKept
  <2>3. TIME' >= TIME
    <3>1. temp \in Processes => TimePassed(temp) \in Nat
      BY <1>1, TimePassedBounds
    <3>2. Receive => temp \in Processes
      BY <1>1, ReturnedBlock
    <3>3. CASE DispatchAgain \/ PushBack \/ Complete
      BY <3>1, <3>2, <3>3, <1>2
         DEF DispatchAgain, PushBack, Complete, ProcessCompleted
    <3>4. CASE Dispatch \/ CompleteWithoutRunning
      BY <3>4, <1>2 DEF Dispatch, CompleteWithoutRunning, ProcessCompleted
    <3>5. CASE Finish \/ CPU \/ UNCHANGED vars
      BY <3>5, <1>2 DEF Finish, CPU, ExecuteBurst, Halt, vars
    <3> QED BY <2>1, <3>3, <3>4, <3>5
  <2> QED BY <2>2, <2>3, <1>2, <1>3, <1>4 DEF CInv
<1> QED BY <1>5, <1>6

(* Nothing is on the clock at the start.                                   *)
LEMMA InitCInv == Init => CInv
<1> SUFFICES ASSUME Init
             PROVE  IdleTicks = 0 /\ TIME = 0 /\ SInv
  BY DEF CInv
<1>1. SInv /\ TypeOK
  BY InitSInv DEF SInv, IInv
<1>2. /\ Len(completedProcesses) = 0 /\ temp = None /\ TIME = 0
      /\ \A p \in Processes : /\ context_switches[p] = 0
                              /\ est_remaining_runtime[p] = batch[p].est_runtime
  BY DEF Init
<1>3. \A p \in Processes : batch[p].est_runtime \in Nat
  BY <1>1, ProcessNumbers DEF Row
<1>4. \A p \in Processes : [q \in Processes |-> WorkOf(q)][p] = 0
  BY <1>2, <1>3 DEF WorkOf
<1>5. WorkDone = 0 /\ Sum(context_switches) = 0
  BY <1>1, <1>2, <1>4, TallyTypes, SumOfZeros DEF WorkDone
<1>6. IdleTicks = 0
  BY <1>2, <1>5 DEF IdleTicks, Switches
<1> QED BY <1>1, <1>2, <1>6

(* Every burst, switch and tick is accounted for.                          *)
THEOREM BurstsAndTicks == Spec => []ClockAndSwitches
<1>1. CInv => ClockAndSwitches
  BY ClockBoundsParts DEF CInv, SInv, ClockAndSwitches
<1>2. CInv /\ [Next]_vars => CInv'
  BY StepCInv
<1> QED BY <1>1, <1>2, InitCInv, PTL DEF Spec

-------------------------------------------------------------------------------
(* The scheduler keeps the promise of BatchScheduling: every step of       *)
(* CpuScheduler is, seen through the phases of its processes, a step of th *)
(* abstract batch scheduler or no step at all.                             *)

(* The refinement mapping.                                                 *)
Phases == [p \in Processes |-> Phase(p)]

(* The rows the first k of waitQueue are.                                  *)
Newcomers(k) == {waitQueue[j] : j \in 1..k}

(* In a state of the invariant a phase says where a process is.            *)
LEMMA PhaseSaysWhere ==
  ASSUME IInv, NEW p \in Processes
  PROVE  /\ Phases[p] = Phase(p)
         /\ Phase(p) = "new"     <=> p \in Range(waitQueue)
         /\ Phase(p) = "ready"   <=> p \in Range(processQueue)
         /\ Phase(p) = "running" <=> p = temp
         /\ Phase(p) = "done"    <=> p \in Range(completedProcesses)
<1>1. p # None
  BY ProcessNumbers DEF IInv
<1> QED BY <1>1 DEF IInv, OneHomePerProcess, Phases, Phase

(* Admitting k rows makes exactly these newcomers ready.                   *)
LEMMA AdmissionSet ==
  ASSUME IInv, NEW k \in 0..Len(waitQueue)
  PROVE  /\ Newcomers(k) \subseteq Range(waitQueue)
         /\ Newcomers(k) \subseteq Processes
         /\ Range(waitQueue) \subseteq Processes
         /\ Range(processQueue) \subseteq Processes
         /\ Range(Admitted(k)) = Range(processQueue) \cup Newcomers(k)
         /\ Range(StillWaiting(k)) = Range(waitQueue) \ Newcomers(k)
<1> DEFINE a == SubSeq(waitQueue, 1, k)
           b == SubSeq(waitQueue, k + 1, Len(waitQueue))
<1>1. /\ waitQueue \in Seq(Processes) /\ processQueue \in Seq(Processes)
      /\ IsInjective(waitQueue)
  BY DEF IInv, TypeOK, OneHomePerProcess
<1>2. /\ a \in Seq(Processes) /\ b \in Seq(Processes) /\ Len(a) = k
      /\ Range(a) \cup Range(b) = Range(waitQueue)
      /\ Range(a) \cap Range(b) = {}
  BY <1>1, SplitSeq
<1>3. \A j \in 1..k : a[j] = waitQueue[j]
  BY <1>1
<1>4. Admitted(k) = processQueue \o a /\ StillWaiting(k) = b
  BY DEF Admitted, StillWaiting
<1> HIDE DEF a, b
<1>5. DOMAIN a = 1..k
  BY <1>2
<1>6. Range(a) = Newcomers(k)
  BY <1>3, <1>5 DEF Range, Newcomers
<1>7. Range(processQueue \o a) = Range(processQueue) \cup Range(a)
  BY <1>1, <1>2, ConcatSeq
<1>8. /\ Range(waitQueue) \subseteq Processes
      /\ Range(processQueue) \subseteq Processes
  BY <1>1, MembersOfSeq
<1> QED BY <1>2, <1>4, <1>6, <1>7, <1>8

(* Newcomers at a time t have arrived by t.                                *)
LEMMA NewcomersMayBecomeReady ==
  ASSUME IInv, NEW k \in 0..Len(waitQueue), NEW t,
         \A j \in 1..k : HasArrived(waitQueue[j], t)
  PROVE  Newcomers(k) \in SUBSET Batch!ArrivedBy(t)
<1> SUFFICES ASSUME NEW p \in Newcomers(k)
             PROVE  /\ p \in Processes /\ Phases[p] = "new"
                    /\ batch[p].arrival_time <= t
  BY DEF Batch!ArrivedBy, Batch!Jobs, Phases, Processes
<1>1. p \in Processes /\ p \in Range(waitQueue)
  BY AdmissionSet
<1>2. PICK j \in 1..k : p = waitQueue[j]
  BY DEF Newcomers
<1> QED BY <1>1, <1>2, PhaseSaysWhere DEF HasArrived

(* Initial states map to initial states.                                   *)
LEMMA InitRefines == Init => Batch!Init
<1> SUFFICES ASSUME Init PROVE Batch!Init
  OBVIOUS
<1>1. \A p \in Processes : Phase(p) = "new"
  BY DEF Init, Phase, Range
<1> QED BY <1>1 DEF Init, Batch!Init, Batch!Jobs, Processes

(* Step simulation.  S is the set of processes a step admits.              *)

(* The abstract scheduler's view of the queues after admitting k rows.     *)
LEMMA WithNewcomers ==
  ASSUME IInv, NEW k \in 0..Len(waitQueue)
  PROVE  LET W == Batch!With(Newcomers(k)) IN
         /\ W = [p \in Processes |-> IF p \in Newcomers(k) THEN "ready"
                                     ELSE Phase(p)]
         /\ \A p \in Processes :
              /\ W[p] = "new"     <=> p \in Range(StillWaiting(k))
              /\ W[p] = "ready"   <=> p \in Range(Admitted(k))
              /\ W[p] = "running" <=> p = temp
              /\ W[p] = "done"    <=> p \in Range(completedProcesses)
              /\ W[p] \in {"new", "ready", "running", "done"}
<1> DEFINE W == Batch!With(Newcomers(k))
<1>1. W = [p \in Processes |-> IF p \in Newcomers(k) THEN "ready" ELSE Phase(p)]
  BY DEF Batch!With, Batch!Jobs, Processes
<1> HIDE DEF W
<1>2. ASSUME NEW p \in Processes
      PROVE  /\ W[p] = "new"     <=> p \in Range(StillWaiting(k))
             /\ W[p] = "ready"   <=> p \in Range(Admitted(k))
             /\ W[p] = "running" <=> p = temp
             /\ W[p] = "done"    <=> p \in Range(completedProcesses)
             /\ W[p] \in {"new", "ready", "running", "done"}
  <2>1. W[p] = IF p \in Newcomers(k) THEN "ready" ELSE Phase(p)
    BY <1>1
  <2>2. /\ Newcomers(k) \subseteq Range(waitQueue)
        /\ Range(Admitted(k)) = Range(processQueue) \cup Newcomers(k)
        /\ Range(StillWaiting(k)) = Range(waitQueue) \ Newcomers(k)
    BY AdmissionSet
  <2>3. Phase(p) \in {"new", "ready", "running", "done"}
    BY DEF Phase
  <2>4. /\ Phase(p) = "new"     <=> p \in Range(waitQueue)
        /\ Phase(p) = "ready"   <=> p \in Range(processQueue)
        /\ Phase(p) = "running" <=> p = temp
        /\ Phase(p) = "done"    <=> p \in Range(completedProcesses)
    BY PhaseSaysWhere
  <2>5. CASE p \in Newcomers(k)
    BY <2>1, <2>2, <2>4, <2>5
  <2>6. CASE p \notin Newcomers(k)
    BY <2>1, <2>2, <2>3, <2>4, <2>6
  <2> QED BY <2>5, <2>6
<1> QED BY <1>1, <1>2 DEF W

(* The next state's phases are any assignment that agrees with the next    *)
(* state on who is new, ready, running and done.                           *)
LEMMA NextPhases ==
  ASSUME IInv, IInv', batch' = batch,
         NEW W \in [Processes -> {"new", "ready", "running", "done"}],
         \A p \in Processes :
           /\ W[p] = "new"     <=> p \in Range(waitQueue')
           /\ W[p] = "ready"   <=> p \in Range(processQueue')
           /\ W[p] = "running" <=> p = temp'
           /\ W[p] = "done"    <=> p \in Range(completedProcesses')
  PROVE  Phases' = W
<1>1. Processes' = Processes /\ None \notin Processes
  BY ProcessNumbers DEF IInv, Processes
<1>2. ASSUME NEW p \in Processes
      PROVE  Phase(p)' = W[p]
  <2>1. W[p] \in {"new", "ready", "running", "done"}
    OBVIOUS
  <2> QED BY <1>1, <2>1 DEF Phase
<1> QED BY <1>1, <1>2 DEF Phases

(* An idle tick waits for somebody who has yet to arrive.                  *)
LEMMA IdleRefines == IInv /\ IInv' /\ Idle => Batch!Wait
<1> SUFFICES ASSUME IInv, IInv', Idle PROVE Batch!Wait
  OBVIOUS
<1>1. /\ processQueue = <<>> /\ ~LoopDone /\ TIME' = TIME + 1 /\ temp = None
      /\ UNCHANGED <<batch, waitQueue, processQueue, temp, completedProcesses,
                     est_remaining_runtime>>
  BY DEF Idle, AtLoopTop, input, pcbs, IInv, Lockstep
<1>2. Range(processQueue) = {} /\ None \notin Processes
  BY <1>1, ProcessNumbers DEF Range, IInv
<1>3. \A p \in Processes : Phases[p] \in {"new", "done"}
  BY <1>1, <1>2, PhaseSaysWhere DEF Phase
<1>4. PICK p \in Processes : p \notin Range(completedProcesses)
  <2>1. Range(completedProcesses) # Processes
    BY <1>1, LoopDoneWhenAllCompleted
  <2>2. Range(completedProcesses) \subseteq Processes
    BY MembersOfSeq DEF IInv, TypeOK
  <2> QED BY <2>1, <2>2
<1>5. Phases[p] = "new"
  BY <1>3, <1>4, PhaseSaysWhere
<1>6. Phases' = Phases
  BY <1>1 DEF Phases, Phase, Processes
<1>7. TIME' > TIME
  BY <1>1 DEF IInv, TypeOK
<1> QED BY <1>1, <1>3, <1>5, <1>6, <1>7
        DEF Batch!Wait, Batch!Jobs, Phases, Processes

(* A selection starts a turn, with or without a visit to the CPU.          *)
LEMMA DispatchRefines ==
  IInv /\ IInv' /\ (Dispatch \/ CompleteWithoutRunning) => Batch!Next
<1> SUFFICES ASSUME IInv, IInv', Dispatch \/ CompleteWithoutRunning
             PROVE  Batch!Next
  OBVIOUS
<1>1. PICK k \in 0..Len(waitQueue), i \in 1..Len(batch) :
        /\ Select(k, i)
        /\ \/ /\ temp' = Admitted(k)[i] /\ TIME' = TIME + 2
              /\ completedProcesses' = completedProcesses
           \/ /\ est_remaining_runtime[Admitted(k)[i]] = 0
              /\ temp' = None /\ TIME' = (TIME + 2) + 1
              /\ completedProcesses'
                   = Append(completedProcesses, Admitted(k)[i])
        /\ batch' = batch /\ est_remaining_runtime' = est_remaining_runtime
  BY DEF Dispatch, CompleteWithoutRunning, ProcessCompleted, input, pcbs
<1> DEFINE p == Admitted(k)[i]
           S == Newcomers(k)
           W == Batch!With(S)
<1>2. /\ p \in Processes /\ p \in Range(Admitted(k))
      /\ Range(processQueue') = Range(Admitted(k)) \ {p}
      /\ waitQueue' = StillWaiting(k)
  <2> DEFINE q == Admitted(k)
  <2>1. i \in DOMAIN q /\ waitQueue' = StillWaiting(k)
        /\ processQueue' = RemoveAt(q, i)
    BY <1>1 DEF Select
  <2>2. q \in Seq(Processes) /\ IsInjective(q)
    BY AdmitKeepsHomes DEF IInv
  <2> HIDE DEF q
  <2>3. Range(RemoveAt(q, i)) = Range(q) \ {q[i]}
    BY <2>1, <2>2, RemoveAtSeq
  <2>4. q[i] \in Range(q) /\ q[i] \in Processes
    BY <2>1, <2>2 DEF Range
  <2> QED BY <2>1, <2>3, <2>4 DEF q
<1>3. /\ temp = None /\ None \notin Processes /\ TIME \in Nat
  BY <1>1, ProcessNumbers DEF Select, AtLoopTop, IInv, Lockstep, TypeOK
<1>4. /\ W \in [Processes -> {"new", "ready", "running", "done"}]
      /\ \A x \in Processes :
           /\ W[x] = "new"     <=> x \in Range(StillWaiting(k))
           /\ W[x] = "ready"   <=> x \in Range(Admitted(k))
           /\ W[x] = "running" <=> x = temp
           /\ W[x] = "done"    <=> x \in Range(completedProcesses)
  <2>1. /\ W = [x \in Processes |-> IF x \in S THEN "ready" ELSE Phase(x)]
        /\ \A x \in Processes : W[x] \in {"new", "ready", "running", "done"}
    BY WithNewcomers
  <2> HIDE DEF W, S
  <2>2. W \in [Processes -> {"new", "ready", "running", "done"}]
    BY <2>1
  <2> QED BY <2>2, WithNewcomers DEF W, S
<1>5. S \in SUBSET Processes /\ S \in SUBSET Batch!ArrivedBy(TIME)
  <2>1. \A j \in 1..k : HasArrived(waitQueue[j], TIME)
    BY <1>1 DEF Select, Arrived
  <2> QED BY <2>1, AdmissionSet, NewcomersMayBecomeReady
<1>6. \A x \in Processes : Phases[x] # "running"
  BY <1>3, PhaseSaysWhere
<1> HIDE DEF p, S, W
<1>7. CASE temp' = p /\ TIME' = TIME + 2
           /\ completedProcesses' = completedProcesses
  <2>1. Phases' = [W EXCEPT ![p] = "running"]
    <3> DEFINE V == [W EXCEPT ![p] = "running"]
    <3>1. V \in [Processes -> {"new", "ready", "running", "done"}]
      BY <1>4
    <3>2. ASSUME NEW x \in Processes
          PROVE  /\ V[x] = "new"     <=> x \in Range(waitQueue')
                 /\ V[x] = "ready"   <=> x \in Range(processQueue')
                 /\ V[x] = "running" <=> x = temp'
                 /\ V[x] = "done"    <=> x \in Range(completedProcesses')
      BY <1>2, <1>3, <1>4, <1>7
    <3> HIDE DEF V
    <3>3. Phases' = V
      BY <1>1, <3>1, <3>2, NextPhases
    <3> QED BY <3>3 DEF V
  <2>2. W[p] = "ready" /\ TIME' > TIME
    BY <1>2, <1>3, <1>4, <1>7
  <2>3. Batch!Start(p, S)
    BY <1>1, <1>5, <1>6, <2>1, <2>2
       DEF Batch!Start, Batch!NobodyRuns, Batch!Jobs, Phases, Processes, W
  <2> QED BY <1>2, <1>5, <2>3 DEF Batch!Next, Batch!Jobs, Processes
<1>8. CASE /\ est_remaining_runtime[p] = 0
           /\ temp' = None /\ TIME' = (TIME + 2) + 1
           /\ completedProcesses' = Append(completedProcesses, p)
  <2>1. Range(completedProcesses') = Range(completedProcesses) \cup {p}
    BY <1>2, <1>8, AppendSeq DEF IInv, TypeOK
  <2>2. Phases' = [W EXCEPT ![p] = "done"]
    <3> DEFINE V == [W EXCEPT ![p] = "done"]
    <3>1. V \in [Processes -> {"new", "ready", "running", "done"}]
      BY <1>4
    <3>2. ASSUME NEW x \in Processes
          PROVE  /\ V[x] = "new"     <=> x \in Range(waitQueue')
                 /\ V[x] = "ready"   <=> x \in Range(processQueue')
                 /\ V[x] = "running" <=> x = temp'
                 /\ V[x] = "done"    <=> x \in Range(completedProcesses')
      BY <1>2, <1>3, <1>4, <1>8, <2>1
    <3> HIDE DEF V
    <3>3. Phases' = V
      BY <1>1, <3>1, <3>2, NextPhases
    <3> QED BY <3>3 DEF V
  <2>3. W[p] = "ready" /\ TIME' > TIME
    BY <1>2, <1>3, <1>4, <1>8
  <2>4. Batch!Start(p, S)
    BY <1>1, <1>5, <1>6, <1>8, <2>2, <2>3
       DEF Batch!Start, Batch!NobodyRuns, Batch!Jobs, Phases, Processes, W
  <2> QED BY <1>2, <1>5, <2>4 DEF Batch!Next, Batch!Jobs, Processes
<1> QED BY <1>1, <1>7, <1>8 DEF p

(* A returned block ends a turn.                                           *)
LEMMA ReturnRefines ==
  IInv /\ IInv' /\ (DispatchAgain \/ PushBack \/ Complete) => Batch!Next
<1> SUFFICES ASSUME IInv, IInv', DispatchAgain \/ PushBack \/ Complete
             PROVE  Batch!Next
  OBVIOUS
<1> DEFINE r == est_remaining_runtime[temp]
           l == AfterBurst(r)
           w == TimePassed(temp)
<1>1. Receive /\ batch' = batch
  BY DEF DispatchAgain, PushBack, Complete, input
<1>2. /\ temp \in Processes /\ Returned.process = temp
      /\ Returned.est_remaining_runtime = l
      /\ est_remaining_runtime' = [est_remaining_runtime EXCEPT ![temp] = l]
  BY <1>1, ReturnedBlock
<1>3. /\ r \in Nat /\ l \in Nat /\ l \in 0..r /\ w \in Nat /\ TIME \in Nat
      /\ l > 0 => l < r /\ w > 0
  <2>1. /\ r \in Nat /\ TIME \in Nat
        /\ mode.quantum \in Nat /\ mode.quantum > 0
    BY <1>2, ProcessNumbers DEF IInv, TypeOK
  <2> HIDE DEF r
  <2>2. l \in Nat /\ l \in 0..r /\ (l > 0 => l < r /\ r > 0)
    BY <2>1 DEF AfterBurst
  <2>3. w \in Nat /\ (r > 0 => w > 0)
    BY <2>1 DEF TimePassed, r
  <2> QED BY <2>1, <2>2, <2>3
<1>4. PICK k \in 0..Len(waitQueue) :
        /\ waitQueue' = StillWaiting(k)
        /\ \A j \in 1..k : HasArrived(waitQueue[j], TIME')
        /\ TIME' > TIME
        /\ \/ /\ l > 0 /\ temp' = temp /\ processQueue' = Admitted(k)
              /\ completedProcesses' = completedProcesses
           \/ /\ l > 0 /\ temp' = None
              /\ processQueue' = Append(Admitted(k), temp)
              /\ completedProcesses' = completedProcesses
           \/ /\ l = 0 /\ temp' = None /\ processQueue' = Admitted(k)
              /\ completedProcesses' = Append(completedProcesses, temp)
  <2> HIDE DEF r, l, w
  <2>1. CASE DispatchAgain
    <3>1. PICK k \in 0..Len(waitQueue) :
            /\ Arrived(k, TIME')
            /\ processQueue' = Admitted(k) /\ waitQueue' = StillWaiting(k)
      BY <2>1 DEF DispatchAgain
    <3>2. /\ l > 0 /\ temp' = temp /\ TIME' > TIME
          /\ completedProcesses' = completedProcesses
      BY <2>1, <1>2, <1>3 DEF DispatchAgain
    <3> QED BY <3>1, <3>2 DEF Arrived
  <2>2. CASE PushBack
    <3>1. PICK k \in 0..Len(waitQueue) :
            /\ Arrived(k, TIME')
            /\ processQueue' = Append(Admitted(k), temp)
            /\ waitQueue' = StillWaiting(k)
      BY <2>2, <1>2 DEF PushBack
    <3>2. /\ l > 0 /\ temp' = None /\ TIME' = TIME + w
          /\ completedProcesses' = completedProcesses
      BY <2>2, <1>2 DEF PushBack, w
    <3>3. TIME' > TIME
      BY <3>2, <1>3
    <3> QED BY <3>1, <3>2, <3>3 DEF Arrived
  <2>3. CASE Complete
    <3> DEFINE t == TIME + w
    <3>1. PICK k \in 0..Len(waitQueue) :
            /\ IF t = TIME THEN k = 0 ELSE Arrived(k, t)
            /\ processQueue' = Admitted(k) /\ waitQueue' = StillWaiting(k)
      BY <2>3 DEF Complete, w
    <3>2. /\ l = 0 /\ temp' = None /\ TIME' = t + 1
          /\ completedProcesses' = Append(completedProcesses, temp)
      BY <2>3, <1>2 DEF Complete, ProcessCompleted, w
    <3>3. t \in Nat /\ TIME' > TIME /\ t <= TIME'
      BY <3>2, <1>3
    <3>4. \A j \in 1..k : HasArrived(waitQueue[j], TIME')
      <4> SUFFICES ASSUME NEW j \in 1..k
                   PROVE  HasArrived(waitQueue[j], TIME')
        OBVIOUS
      <4>1. HasArrived(waitQueue[j], t)
        BY <3>1, <1>3 DEF Arrived
      <4>2. waitQueue[j] \in Processes
        BY DEF IInv, TypeOK
      <4>3. batch[waitQueue[j]].arrival_time \in Nat
        BY <4>2, Numbers DEF IInv
      <4> HIDE DEF t
      <4>4. TIME' \in Nat
        BY <3>2, <3>3
      <4> QED BY <4>1, <4>3, <4>4, <3>3 DEF HasArrived
    <3> QED BY <3>1, <3>2, <3>3, <3>4
  <2> QED BY <2>1, <2>2, <2>3
<1> DEFINE S == Newcomers(k)
           W == Batch!With(S)
<1>5. /\ W \in [Processes -> {"new", "ready", "running", "done"}]
      /\ \A x \in Processes :
           /\ W[x] = "new"     <=> x \in Range(StillWaiting(k))
           /\ W[x] = "ready"   <=> x \in Range(Admitted(k))
           /\ W[x] = "running" <=> x = temp
           /\ W[x] = "done"    <=> x \in Range(completedProcesses)
  <2>1. /\ W = [x \in Processes |-> IF x \in S THEN "ready" ELSE Phase(x)]
        /\ \A x \in Processes : W[x] \in {"new", "ready", "running", "done"}
    BY WithNewcomers
  <2> HIDE DEF W, S
  <2>2. W \in [Processes -> {"new", "ready", "running", "done"}]
    BY <2>1
  <2> QED BY <2>2, WithNewcomers DEF W, S
<1>6. S \in SUBSET Processes /\ S \in SUBSET Batch!ArrivedBy(TIME')
  BY <1>4, AdmissionSet, NewcomersMayBecomeReady
<1>7. Phases[temp] = "running" /\ None \notin Processes
  BY <1>2, PhaseSaysWhere, ProcessNumbers DEF IInv
<1> HIDE DEF r, l, w, S, W
<1>8. \/ /\ l > 0
         /\ Phases' = W \/ Phases' = [W EXCEPT ![temp] = "ready"]
      \/ l = 0 /\ Phases' = [W EXCEPT ![temp] = "done"]
  <2>1. CASE /\ l > 0 /\ temp' = temp /\ processQueue' = Admitted(k)
             /\ completedProcesses' = completedProcesses
    <3>1. Phases' = W
      BY <1>1, <1>4, <1>5, <2>1, NextPhases
    <3> QED BY <2>1, <3>1
  <2>2. CASE /\ l > 0 /\ temp' = None
             /\ processQueue' = Append(Admitted(k), temp)
             /\ completedProcesses' = completedProcesses
    <3> DEFINE V == [W EXCEPT ![temp] = "ready"]
    <3>1. V \in [Processes -> {"new", "ready", "running", "done"}]
      BY <1>5
    <3>2. Range(processQueue') = Range(Admitted(k)) \cup {temp}
      <4>1. Admitted(k) \in Seq(Processes)
        BY AdmitKeepsHomes DEF IInv
      <4> QED BY <1>2, <2>2, <4>1, AppendSeq
    <3>3. ASSUME NEW x \in Processes
          PROVE  /\ V[x] = "new"     <=> x \in Range(waitQueue')
                 /\ V[x] = "ready"   <=> x \in Range(processQueue')
                 /\ V[x] = "running" <=> x = temp'
                 /\ V[x] = "done"    <=> x \in Range(completedProcesses')
      BY <1>2, <1>4, <1>5, <1>7, <2>2, <3>2
    <3> HIDE DEF V
    <3>4. Phases' = V
      BY <1>1, <3>1, <3>3, NextPhases
    <3> QED BY <2>2, <3>4 DEF V
  <2>3. CASE /\ l = 0 /\ temp' = None /\ processQueue' = Admitted(k)
             /\ completedProcesses' = Append(completedProcesses, temp)
    <3> DEFINE V == [W EXCEPT ![temp] = "done"]
    <3>1. V \in [Processes -> {"new", "ready", "running", "done"}]
      BY <1>5
    <3>2. Range(completedProcesses') = Range(completedProcesses) \cup {temp}
      BY <1>2, <2>3, AppendSeq DEF IInv, TypeOK
    <3>3. ASSUME NEW x \in Processes
          PROVE  /\ V[x] = "new"     <=> x \in Range(waitQueue')
                 /\ V[x] = "ready"   <=> x \in Range(processQueue')
                 /\ V[x] = "running" <=> x = temp'
                 /\ V[x] = "done"    <=> x \in Range(completedProcesses')
      BY <1>2, <1>4, <1>5, <1>7, <2>3, <3>2
    <3> HIDE DEF V
    <3>4. Phases' = V
      BY <1>1, <3>1, <3>3, NextPhases
    <3> QED BY <2>3, <3>4 DEF V
  <2> QED BY <1>4, <2>1, <2>2, <2>3
<1>9. Batch!EndTurn(temp, S)
  <2>1. l \in 0..est_remaining_runtime[temp]
        /\ (l > 0 => 0 < l /\ l < est_remaining_runtime[temp])
    BY <1>3 DEF r
  <2>2. /\ Phases[temp] = "running" /\ S \in SUBSET Batch!ArrivedBy(TIME')
        /\ TIME' > TIME /\ batch' = batch
    BY <1>1, <1>4, <1>6, <1>7
  <2> QED BY <1>2, <1>8, <2>1, <2>2 DEF Batch!EndTurn, Phases, W
<1> QED BY <1>2, <1>6, <1>9 DEF Batch!Next, Batch!Jobs, Processes

(* Stopping and the CPU's own steps are invisible to the abstract          *)
(* scheduler.                                                              *)
LEMMA OtherStepsStutter ==
  Finish \/ CPU \/ Terminated \/ UNCHANGED vars => UNCHANGED Batch!vars
<1> SUFFICES ASSUME Finish \/ CPU \/ Terminated \/ UNCHANGED vars
             PROVE  UNCHANGED Batch!vars
  OBVIOUS
<1>1. UNCHANGED <<batch, TIME, waitQueue, processQueue, temp,
                  est_remaining_runtime>>
  BY DEF Finish, CPU, ExecuteBurst, Halt, Terminated, vars, input, pcbs
<1> QED BY <1>1 DEF Batch!vars, Phase, Processes

(* CpuScheduler implements BatchScheduling, for every process file, policy *)
(* and quantum: no job runs before it arrives, one runs at a time, work    *)
(* shrinks only for the one that runs, done means no work is left.         *)
THEOREM Refinement == Spec => BatchSpec
<1>1. IInv /\ IInv' /\ [Next]_vars => [Batch!Next]_(Batch!vars)
  <2> SUFFICES ASSUME IInv, IInv', [Next]_vars
               PROVE  Batch!Next \/ UNCHANGED Batch!vars
    OBVIOUS
  <2>1. Idle => Batch!Next
    BY IdleRefines DEF Batch!Next
  <2> QED BY <2>1, DispatchRefines, ReturnRefines, OtherStepsStutter
          DEF Next, Scheduler
<1> QED BY InitRefines, Invariance, <1>1, PTL DEF Spec, BatchSpec, Batch!Spec

-------------------------------------------------------------------------------
(* The loops behind Best and RemoveAt: what the two passes of a selection  *)
(* return, for queues of any length with any keys.  The loop invariant     *)
(* states the result for the part of the queue that has been scanned.      *)

AmbiguousTo(n) == \E p \in 1..n : keys[p] = Loop!None
BelowTo(n)     == \E p \in 1..n : keys[p] < Loop!None

(* m is the last of the first n positions whose key is -1.                 *)
LastNone(m, n) == /\ m \in 1..n /\ keys[m] = Loop!None
                  /\ \A j \in (m + 1)..n : keys[j] # Loop!None

(* x is what a scan of the first n positions must have chosen.             *)
LeastOf(x, n)     == (AmbiguousTo(n) => BelowTo(n)) => Loop!FirstLeast(x, 1, n)
SinceNone(x, n)   == ~BelowTo(n) => \A m \in 1..n :
                       LastNone(m, n) => IF m = n THEN x = m
                                         ELSE Loop!FirstLeast(x, m + 1, n)
Chosen(x, n)      == LeastOf(x, n) /\ SinceNone(x, n)

(* The positions from a to b stand in q, in order.                         *)
Run(q, a, b) == Len(q) = b - a + 1 /\ \A j \in 1..Len(q) : q[j] = a + j - 1

(* The first n positions without x, which is not n + 1 or more.            *)
Without(q, x, n) ==
  /\ Len(q) = IF x <= n THEN n - 1 ELSE n
  /\ \A j \in 1..Len(q) : q[j] = IF j < x THEN j ELSE j + 1

Scanned ==
  /\ Run(checked, 1, scan_i - 1) /\ Run(scan_queue, scan_i, Len(keys))
  /\ scan_i = 1 => shortest_run_time = Loop!None
  /\ scan_i > 1 => /\ shortest_index \in 1..(scan_i - 1)
                   /\ shortest_run_time = keys[shortest_index]
                   /\ Chosen(shortest_index, scan_i - 1)

Rebuilt(n) ==
  /\ Run(checked, 1, Len(keys))
  /\ Chosen(shortest_index, Len(keys))
  /\ Without(scan_queue, shortest_index, n)
  /\ shortest_index <= n => scan_temp = shortest_index

LoopInv ==
  /\ Loop!TypeOK
  /\ scan_pc = "scan" => Scanned
  /\ scan_pc = "rebuild" => Rebuilt(scan_i - 1)
  /\ scan_pc = "returned" => Rebuilt(Len(keys))

LEMMA KeyFacts ==
  ASSUME Loop!TypeOK
  PROVE  /\ Len(keys) \in Nat \ {0} /\ DOMAIN keys = 1..Len(keys)
         /\ \A p \in 1..Len(keys) : keys[p] \in Int
         /\ scan_i \in 1..(Len(keys) + 1)
<1>1. keys \in Seq(Int) /\ keys # <<>>
  BY QueuesAssumption DEF Loop!TypeOK
<1>2. Len(keys) \in Nat \ {0} /\ DOMAIN keys = 1..Len(keys)
  BY <1>1
<1> QED BY <1>1, <1>2 DEF Loop!TypeOK

(* One more key: the choice stays right, whatever was chosen so far.       *)
LEMMA ChooseFirst ==
  ASSUME Loop!TypeOK
  PROVE  Chosen(1, 1)
<1>1. Loop!FirstLeast(1, 1, 1) /\ keys[1] \in Int
  BY KeyFacts DEF Loop!FirstLeast
<1> QED BY <1>1 DEF Chosen, LeastOf, SinceNone, LastNone

LEMMA ChooseLeast ==
  ASSUME Loop!TypeOK, NEW n \in 1..(Len(keys) - 1), NEW x \in 1..n, Chosen(x, n)
  PROVE  LeastOf(IF keys[x] = Loop!None \/ keys[n + 1] < keys[x]
                 THEN n + 1 ELSE x, n + 1)
<1>1. /\ Len(keys) \in Nat /\ n \in Nat /\ n + 1 \in 1..Len(keys) /\ x \in Int
      /\ \A p \in 1..(n + 1) : keys[p] \in Int
      /\ 1..(n + 1) = 1..n \cup {n + 1}
  BY KeyFacts
<1>2. SUFFICES ASSUME AmbiguousTo(n + 1) => BelowTo(n + 1)
      PROVE  Loop!FirstLeast(IF keys[x] = Loop!None \/ keys[n + 1] < keys[x]
                        THEN n + 1 ELSE x, 1, n + 1)
  BY DEF LeastOf
<1>3. CASE AmbiguousTo(n) => BelowTo(n)
  <2>1. Loop!FirstLeast(x, 1, n)
    BY <1>3 DEF Chosen, LeastOf
  <2>2. CASE keys[x] # Loop!None
    BY <2>1, <2>2, <1>1 DEF Loop!FirstLeast
  <2>3. CASE keys[x] = Loop!None
    <3>1. BelowTo(n)
      BY <2>3, <1>3 DEF AmbiguousTo
    <3> QED BY <3>1, <2>1, <2>3, <1>1 DEF BelowTo, Loop!FirstLeast, Loop!None
  <2> QED BY <2>2, <2>3
<1>4. CASE AmbiguousTo(n) /\ ~BelowTo(n)
  <2>1. keys[n + 1] < Loop!None
    BY <1>4, <1>2, <1>1 DEF AmbiguousTo, BelowTo
  <2>2. \A j \in 1..n : keys[j] >= Loop!None /\ keys[n + 1] < keys[j]
    BY <2>1, <1>4, <1>1 DEF BelowTo, Loop!None
  <2>3. keys[n + 1] < keys[x]
    BY <2>2
  <2>4. Loop!FirstLeast(n + 1, 1, n + 1)
    BY <2>2, <1>1 DEF Loop!FirstLeast
  <2> QED BY <2>3, <2>4
<1> QED BY <1>3, <1>4

LEMMA ChooseSinceNone ==
  ASSUME Loop!TypeOK, NEW n \in 1..(Len(keys) - 1), NEW x \in 1..n, Chosen(x, n)
  PROVE  SinceNone(IF keys[x] = Loop!None \/ keys[n + 1] < keys[x]
                   THEN n + 1 ELSE x, n + 1)
<1>1. /\ Len(keys) \in Nat /\ n \in Nat /\ n + 1 \in 1..Len(keys) /\ x \in Int
      /\ \A p \in 1..(n + 1) : keys[p] \in Int
      /\ 1..(n + 1) = 1..n \cup {n + 1}
  BY KeyFacts
<1> DEFINE y == IF keys[x] = Loop!None \/ keys[n + 1] < keys[x]
                THEN n + 1 ELSE x
<1>2. SUFFICES ASSUME ~BelowTo(n + 1), NEW m \in 1..(n + 1),
                      LastNone(m, n + 1)
      PROVE  IF m = n + 1 THEN y = m ELSE Loop!FirstLeast(y, m + 1, n + 1)
  BY DEF SinceNone
<1>3. ~BelowTo(n) /\ keys[x] >= Loop!None /\ keys[n + 1] >= Loop!None
  BY <1>2, <1>1 DEF BelowTo, Loop!None
<1>4. CASE m = n + 1
  BY <1>4, <1>2, <1>3, <1>1 DEF LastNone, Loop!None
<1>5. CASE m = n
  <2>1. LastNone(n, n)
    BY <1>5, <1>2, <1>1 DEF LastNone
  <2>2. x = n /\ keys[x] = Loop!None
    BY <2>1, <1>3 DEF Chosen, SinceNone, LastNone
  <2>3. Loop!FirstLeast(n + 1, n + 1, n + 1)
    BY <1>1 DEF Loop!FirstLeast
  <2> QED BY <1>5, <2>2, <2>3, <1>1
<1>6. CASE m < n
  <2>1. m \in 1..n /\ m # n /\ LastNone(m, n)
    BY <1>6, <1>2, <1>1 DEF LastNone
  <2>2. Loop!FirstLeast(x, m + 1, n)
    BY <2>1, <1>3 DEF Chosen, SinceNone
  <2>3. keys[x] # Loop!None
    BY <2>1, <2>2 DEF LastNone, Loop!FirstLeast
  <2>4. Loop!FirstLeast(y, m + 1, n + 1)
    BY <2>1, <2>2, <2>3, <1>1 DEF Loop!FirstLeast
  <2> QED BY <2>4, <1>6, <1>1
<1> QED BY <1>4, <1>5, <1>6, <1>1

-------------------------------------------------------------------------------
(* Types: pops and pushes only move positions of the argument.             *)
LEMMA LoopTypes ==
  ASSUME LoopInv, Loop!Next
  PROVE  Loop!TypeOK'
<1>1. /\ Loop!TypeOK /\ Len(keys) \in Nat \ {0} /\ DOMAIN keys = 1..Len(keys)
      /\ scan_i \in 1..(Len(keys) + 1)
  BY KeyFacts DEF LoopInv
<1>2. CASE Loop!Scan
  <2>1. scan_queue # <<>> /\ Len(scan_queue) = Len(keys) - scan_i + 1
    BY <1>1, <1>2 DEF Loop!Scan, Loop!N, LoopInv, Scanned, Run, Loop!TypeOK
  <2>2. /\ Head(scan_queue) \in DOMAIN keys
        /\ Tail(scan_queue) \in Seq(DOMAIN keys)
    BY <2>1, <1>1 DEF Loop!TypeOK
  <2>3. keys[scan_temp'] \in Int
    BY <2>2, <1>1, <1>2, KeyFacts DEF Loop!Scan
  <2>4. checked' \in Seq(DOMAIN keys)
    BY <2>2, <1>1, <1>2 DEF Loop!Scan, Loop!TypeOK
  <2>5. scan_i' \in 1..(Len(keys) + 1) /\ scan_i \in DOMAIN keys
    BY <1>1, <1>2 DEF Loop!Scan, Loop!N
  <2> QED BY <2>2, <2>3, <2>4, <2>5, <1>1, <1>2 DEF Loop!Scan, Loop!TypeOK
<1>3. CASE Loop!StartRebuild
  BY <1>1, <1>3 DEF Loop!StartRebuild, Loop!FirstIndex, Loop!TypeOK
<1>4. CASE Loop!Rebuild
  <2>1. checked \in Seq(DOMAIN keys) /\ scan_i \in 1..Len(checked)
    BY <1>1, <1>4 DEF Loop!Rebuild, Loop!TypeOK
  <2>2. checked[scan_i] \in DOMAIN keys
    BY <2>1
  <2>3. Len(checked) = Len(keys)
    BY <1>1, <1>4 DEF Loop!Rebuild, LoopInv, Rebuilt, Run
  <2>4. scan_i' \in 1..(Len(keys) + 1)
    BY <2>1, <2>3, <1>1, <1>4 DEF Loop!Rebuild
  <2>5. scan_queue' \in Seq(DOMAIN keys) /\ scan_temp' \in DOMAIN keys \cup {0}
    <3>1. scan_queue \in Seq(DOMAIN keys) /\ scan_temp \in DOMAIN keys \cup {0}
      BY <1>1 DEF Loop!TypeOK
    <3>2. Append(scan_queue, checked[scan_i]) \in Seq(DOMAIN keys)
      BY <3>1, <2>2
    <3> QED BY <3>1, <3>2, <2>2, <1>4 DEF Loop!Rebuild
  <2> QED BY <2>4, <2>5, <1>1, <1>4 DEF Loop!Rebuild, Loop!TypeOK
<1>5. CASE Loop!Return
  BY <1>1, <1>5 DEF Loop!Return, Loop!TypeOK
<1> QED BY <1>2, <1>3, <1>4, <1>5 DEF Loop!Next

(* One turn of the first loop scans one more position.                     *)
LEMMA ScanStep ==
  ASSUME LoopInv, Loop!Scan
  PROVE  Scanned'
<1>1. /\ Loop!TypeOK /\ Scanned /\ Len(keys) \in Nat \ {0}
      /\ DOMAIN keys = 1..Len(keys) /\ scan_i \in 1..Len(keys)
      /\ \A p \in 1..Len(keys) : keys[p] \in Int
  BY KeyFacts DEF LoopInv, Loop!Scan, Loop!N
<1>2. /\ scan_queue \in Seq(DOMAIN keys) /\ checked \in Seq(DOMAIN keys)
      /\ Len(scan_queue) = Len(keys) - scan_i + 1 /\ Len(scan_queue) >= 1
      /\ \A j \in 1..Len(scan_queue) : scan_queue[j] = scan_i + j - 1
      /\ Len(checked) = scan_i - 1
      /\ \A j \in 1..Len(checked) : checked[j] = j
  BY <1>1 DEF Loop!TypeOK, Scanned, Run
<1>3. scan_temp' = scan_i /\ keys' = keys /\ scan_i' = scan_i + 1
  BY <1>1, <1>2 DEF Loop!Scan
<1>4. Run(checked', 1, scan_i' - 1)
  <2>1. checked' = Append(checked, scan_i)
    BY <1>3 DEF Loop!Scan
  <2>2. Len(checked') = scan_i /\ \A j \in 1..scan_i : checked'[j] = j
    BY <2>1, <1>2, <1>1
  <2> QED BY <2>2, <1>3, <1>1 DEF Run
<1>5. Run(scan_queue', scan_i', Len(keys)')
  <2>1. scan_queue' = Tail(scan_queue)
    BY DEF Loop!Scan
  <2>2. /\ Len(scan_queue') = Len(keys) - scan_i
        /\ \A j \in 1..(Len(keys) - scan_i) : scan_queue'[j] = scan_i + j
    <3>1. /\ Len(scan_queue') = Len(scan_queue) - 1
          /\ \A j \in 1..(Len(scan_queue) - 1) :
               scan_queue'[j] = scan_queue[j + 1]
      BY <2>1, <1>2
    <3>2. ASSUME NEW j \in 1..(Len(keys) - scan_i)
          PROVE  scan_queue'[j] = scan_i + j
      <4>1. /\ j + 1 \in 1..Len(scan_queue)
            /\ j \in 1..(Len(scan_queue) - 1)
        BY <1>1, <1>2
      <4>2. scan_queue[j + 1] = scan_i + (j + 1) - 1
        BY <4>1, <1>2
      <4> QED BY <4>1, <4>2, <3>1, <1>1
    <3>3. Len(scan_queue') = Len(keys) - scan_i
      BY <3>1, <1>1, <1>2
    <3> QED BY <3>2, <3>3
  <2> QED BY <2>2, <1>3, <1>1 DEF Run
<1>6. /\ shortest_index' \in 1..(scan_i' - 1)
      /\ shortest_run_time' = keys'[shortest_index']
  BY <1>1, <1>3 DEF Loop!Scan, Loop!Smaller, Scanned
<1>7. Chosen(shortest_index', scan_i)
  <2>1. CASE scan_i = 1
    <3>1. shortest_index' = 1
      BY <2>1, <1>1 DEF Loop!Scan, Loop!Smaller, Scanned
    <3> QED BY <3>1, <2>1, <1>1, ChooseFirst
  <2>2. CASE scan_i > 1
    <3> DEFINE n == scan_i - 1
               x == shortest_index
    <3>1. /\ n \in 1..(Len(keys) - 1) /\ x \in 1..n /\ n + 1 = scan_i
          /\ Chosen(x, n) /\ shortest_run_time = keys[x]
      BY <2>2, <1>1 DEF Scanned
    <3>2. shortest_index' = IF keys[x] = Loop!None \/ keys[n + 1] < keys[x]
                            THEN n + 1 ELSE x
      BY <3>1, <1>3 DEF Loop!Scan, Loop!Smaller
    <3> HIDE DEF n, x
    <3>3. LeastOf(shortest_index', n + 1) /\ SinceNone(shortest_index', n + 1)
      BY <3>1, <3>2, <1>1, ChooseLeast, ChooseSinceNone
    <3> QED BY <3>1, <3>3 DEF Chosen
  <2> QED BY <2>1, <2>2, <1>1
<1>8. Chosen(shortest_index, scan_i - 1)'
  BY <1>7, <1>3, <1>1 DEF Chosen, LeastOf, SinceNone, LastNone, Loop!FirstLeast,
                          AmbiguousTo, BelowTo
<1> QED BY <1>3, <1>4, <1>5, <1>6, <1>8, <1>1 DEF Scanned

(* One turn of the second loop puts one more position back.                *)
LEMMA RebuildStep ==
  ASSUME LoopInv, Loop!Rebuild
  PROVE  Rebuilt(scan_i - 1)'
<1>1. /\ Loop!TypeOK /\ Rebuilt(scan_i - 1) /\ Len(keys) \in Nat \ {0}
      /\ DOMAIN keys = 1..Len(keys)
  BY KeyFacts DEF LoopInv, Loop!Rebuild
<1>2. /\ Run(checked, 1, Len(keys)) /\ Chosen(shortest_index, Len(keys))
      /\ Without(scan_queue, shortest_index, scan_i - 1)
      /\ shortest_index <= scan_i - 1 => scan_temp = shortest_index
  BY <1>1 DEF Rebuilt
<1>3. /\ scan_i \in 1..Len(keys) /\ checked[scan_i] = scan_i
      /\ shortest_index \in 1..Len(keys)
      /\ scan_queue \in Seq(DOMAIN keys)
  BY <1>1, <1>2 DEF Loop!Rebuild, Run, Loop!TypeOK
<1>4. /\ scan_i' = scan_i + 1 /\ UNCHANGED <<keys, checked, shortest_index>>
  BY DEF Loop!Rebuild
<1>5. Without(scan_queue', shortest_index, scan_i)
  <2>1. CASE scan_i = shortest_index
    BY <2>1, <1>2, <1>3, <1>1 DEF Loop!Rebuild, Without
  <2>2. CASE scan_i # shortest_index
    <3>1. scan_queue' = Append(scan_queue, scan_i)
      BY <2>2, <1>3 DEF Loop!Rebuild
    <3>2. /\ Len(scan_queue)
               = IF shortest_index < scan_i THEN scan_i - 2 ELSE scan_i - 1
          /\ \A j \in 1..Len(scan_queue) :
               scan_queue[j] = IF j < shortest_index THEN j ELSE j + 1
      BY <2>2, <1>2, <1>3 DEF Without
    <3>3. /\ Len(scan_queue') = Len(scan_queue) + 1
          /\ scan_queue'[Len(scan_queue) + 1] = scan_i
          /\ \A j \in 1..Len(scan_queue) : scan_queue'[j] = scan_queue[j]
      BY <3>1, <1>3
    <3> QED BY <3>2, <3>3, <2>2, <1>3 DEF Without
  <2> QED BY <2>1, <2>2
<1>6. shortest_index <= scan_i => scan_temp' = shortest_index
  BY <1>2, <1>3 DEF Loop!Rebuild
<1>7. Chosen(shortest_index, Len(keys))' /\ Run(checked, 1, Len(keys))'
  BY <1>2, <1>4 DEF Chosen, LeastOf, SinceNone, LastNone, Loop!FirstLeast,
                    AmbiguousTo, BelowTo, Run
<1> QED BY <1>3, <1>4, <1>5, <1>6, <1>7 DEF Rebuilt

LEMMA StepLoopInv ==
  ASSUME LoopInv, [Loop!Next]_(Loop!vars)
  PROVE  LoopInv'
<1>1. CASE UNCHANGED Loop!vars
  BY <1>1 DEF Loop!vars, LoopInv, Loop!TypeOK, Scanned, Rebuilt, Run, Without,
              Chosen, LeastOf, SinceNone, LastNone, Loop!FirstLeast,
              AmbiguousTo, BelowTo
<1>2. CASE Loop!Next
  <2>1. Loop!TypeOK'
    BY <1>2, LoopTypes
  <2>2. CASE Loop!Scan
    BY <2>1, <2>2, ScanStep DEF Loop!Scan, LoopInv
  <2>3. CASE Loop!StartRebuild
    <3>1. /\ Loop!TypeOK /\ Scanned /\ Len(keys) \in Nat \ {0}
          /\ scan_i = Len(keys) + 1
          /\ scan_i' = 1 /\ scan_pc' = "rebuild"
          /\ UNCHANGED <<keys, scan_queue, checked, scan_temp, shortest_index>>
      BY <2>3, KeyFacts DEF Loop!StartRebuild, LoopInv, Loop!N, Loop!FirstIndex
    <3>2. /\ Chosen(shortest_index, Len(keys)) /\ Run(checked, 1, Len(keys))
          /\ Len(scan_queue) = 0 /\ shortest_index \in 1..Len(keys)
      BY <3>1 DEF Scanned, Run
    <3>3. Without(scan_queue, shortest_index, 0)
      BY <3>2 DEF Without
    <3>4. Rebuilt(0)
      BY <3>2, <3>3 DEF Rebuilt
    <3>5. Rebuilt(scan_i - 1)'
      BY <3>4, <3>1 DEF Rebuilt, Chosen, LeastOf, SinceNone, LastNone,
                        Loop!FirstLeast, AmbiguousTo, BelowTo, Run, Without
    <3> QED BY <3>1, <3>5, <2>1 DEF LoopInv
  <2>4. CASE Loop!Rebuild
    BY <2>1, <2>4, RebuildStep DEF Loop!Rebuild, LoopInv
  <2>5. CASE Loop!Return
    <3>1. /\ Rebuilt(scan_i - 1) /\ scan_i = Len(keys) + 1 /\ Len(keys) \in Nat
          /\ UNCHANGED <<keys, scan_queue, checked, scan_temp, shortest_index>>
      BY <2>5, KeyFacts DEF Loop!Return, LoopInv, Rebuilt, Run
    <3>2. Rebuilt(Len(keys))
      BY <3>1
    <3>3. Rebuilt(Len(keys))'
      BY <3>1, <3>2 DEF Rebuilt, Chosen, LeastOf, SinceNone, LastNone,
                        Loop!FirstLeast, AmbiguousTo, BelowTo, Run, Without
    <3> QED BY <3>3, <2>1, <2>5 DEF Loop!Return, LoopInv
  <2> QED BY <1>2, <2>2, <2>3, <2>4, <2>5 DEF Loop!Next
<1> QED BY <1>1, <1>2

LEMMA LoopInvariance == LoopSpec => []LoopInv
<1>1. Loop!Init => LoopInv
  <2> SUFFICES ASSUME Loop!Init PROVE LoopInv
    OBVIOUS
  <2>1. keys \in Seq(Int) /\ keys # <<>> /\ Loop!Positions \in Seq(DOMAIN keys)
        /\ Len(Loop!Positions) = Len(keys)
    BY QueuesAssumption DEF Loop!Init, Loop!Positions
  <2>2. Loop!TypeOK
    BY <2>1 DEF Loop!Init, Loop!TypeOK, Loop!None, Loop!FirstIndex
  <2>3. Scanned
    BY <2>1 DEF Loop!Init, Scanned, Run, Loop!Positions, Loop!FirstIndex
  <2> QED BY <2>2, <2>3 DEF Loop!Init, LoopInv
<1> QED BY <1>1, StepLoopInv, PTL DEF LoopSpec, Loop!Spec

-------------------------------------------------------------------------------
(* Without a key of -1, or with one below it, every selection loop returns *)
(* the first process with the smallest key.                                *)
THEOREM FirstLeastReturned == LoopSpec => []Loop!SelectsFirstLeast
<1>1. LoopInv => Loop!SelectsFirstLeast
  <2> SUFFICES ASSUME LoopInv, scan_pc = "returned",
                      Loop!Ambiguous => Loop!Below
               PROVE  Loop!FirstLeast(scan_temp, 1, Len(keys))
    BY DEF Loop!SelectsFirstLeast
  <2>1. Rebuilt(Len(keys)) /\ Loop!TypeOK /\ DOMAIN keys = 1..Len(keys)
    BY KeyFacts DEF LoopInv
  <2>2. scan_temp = shortest_index
    BY <2>1, KeyFacts DEF Rebuilt, Loop!TypeOK
  <2>3. AmbiguousTo(Len(keys)) => BelowTo(Len(keys))
    BY <2>1 DEF Loop!Ambiguous, Loop!Below, AmbiguousTo, BelowTo
  <2> QED BY <2>1, <2>2, <2>3 DEF Rebuilt, Chosen, LeastOf
<1> QED BY <1>1, LoopInvariance, PTL

(* With -1 as the smallest key, every selection loop returns the first of  *)
(* the smallest behind the last -1, or that one if nothing is behind it.   *)
THEOREM NoneForgets == LoopSpec => []Loop!StartsOverAfterNone
<1>1. LoopInv => Loop!StartsOverAfterNone
  <2> SUFFICES ASSUME LoopInv, scan_pc = "returned", ~Loop!Below,
                      NEW m \in DOMAIN keys, keys[m] = Loop!None,
                      \A j \in (m + 1)..Len(keys) : keys[j] # Loop!None
               PROVE  IF m = Len(keys) THEN scan_temp = m
                      ELSE Loop!FirstLeast(scan_temp, m + 1, Len(keys))
    BY DEF Loop!StartsOverAfterNone
  <2>1. Rebuilt(Len(keys)) /\ Loop!TypeOK /\ DOMAIN keys = 1..Len(keys)
    BY KeyFacts DEF LoopInv
  <2>2. scan_temp = shortest_index
    BY <2>1, KeyFacts DEF Rebuilt, Loop!TypeOK
  <2>3. ~BelowTo(Len(keys)) /\ LastNone(m, Len(keys))
    BY <2>1 DEF Loop!Below, BelowTo, LastNone
  <2> QED BY <2>1, <2>2, <2>3 DEF Rebuilt, Chosen, SinceNone
<1> QED BY <1>1, LoopInvariance, PTL

(* Both together, for queues of any length.                                *)
THEOREM WhatIsSelected == LoopSpec => []Selected
<1>1. Loop!SelectsFirstLeast /\ Loop!StartsOverAfterNone => Selected
  BY DEF Selected
<1> QED BY <1>1, FirstLeastReturned, NoneForgets, PTL

(* What is left of a queue when one position is taken out.                 *)
LEMMA WhatIsLeft ==
  ASSUME NEW S, NEW s \in Seq(S), NEW x \in 1..Len(s)
  PROVE  /\ RemoveAt(s, x) \in Seq(S) /\ Len(RemoveAt(s, x)) = Len(s) - 1
         /\ \A j \in 1..(Len(s) - 1) :
              RemoveAt(s, x)[j] = IF j < x THEN s[j] ELSE s[j + 1]
<1> DEFINE front == SubSeq(s, 1, x - 1)
           back  == SubSeq(s, x + 1, Len(s))
<1>1. Len(s) \in Nat /\ x - 1 \in 0..Len(s)
  OBVIOUS
<1>2. /\ front \in Seq(S) /\ Len(front) = x - 1
      /\ \A j \in 1..(x - 1) : front[j] = s[j]
  BY <1>1
<1>3. /\ back \in Seq(S) /\ Len(back) = Len(s) - x
      /\ \A j \in 1..(Len(s) - x) : back[j] = s[x + j]
  BY <1>1
<1>4. RemoveAt(s, x) = front \o back
  BY DEF RemoveAt
<1> HIDE DEF front, back
<1>5. /\ front \o back \in Seq(S) /\ Len(front \o back) = Len(s) - 1
      /\ \A j \in 1..(Len(s) - 1) :
           (front \o back)[j] = IF j < x THEN front[j] ELSE back[j - (x - 1)]
  <2>1. /\ front \o back \in Seq(S)
        /\ Len(front \o back) = Len(front) + Len(back)
        /\ \A j \in 1..(Len(front) + Len(back)) :
             (front \o back)[j] = IF j <= Len(front) THEN front[j]
                                                    ELSE back[j - Len(front)]
    BY <1>2, <1>3, ConcatProperties
  <2>2. Len(front) + Len(back) = Len(s) - 1
    BY <1>1, <1>2, <1>3
  <2>3. \A j \in 1..(Len(s) - 1) : j <= x - 1 <=> j < x
    BY <1>1
  <2> QED BY <1>2, <2>1, <2>2, <2>3
<1>6. ASSUME NEW j \in 1..(Len(s) - 1)
      PROVE  (front \o back)[j] = IF j < x THEN s[j] ELSE s[j + 1]
  <2>1. CASE j < x
    <3>1. j \in 1..(x - 1)
      BY <1>1, <2>1
    <3> QED BY <1>2, <1>5, <2>1, <3>1
  <2>2. CASE ~(j < x)
    <3>1. j - (x - 1) \in 1..(Len(s) - x) /\ x + (j - (x - 1)) = j + 1
      BY <1>1, <2>2
    <3> QED BY <1>3, <1>5, <2>2, <3>1
  <2> QED BY <2>1, <2>2
<1> QED BY <1>4, <1>5, <1>6

(* Whatever the keys, the other processes stay in their order.             *)
THEOREM OrderKept == LoopSpec => []OthersKeepOrder
<1>1. LoopInv => OthersKeepOrder
  <2> SUFFICES ASSUME LoopInv, scan_pc = "returned"
               PROVE  /\ scan_temp # 0
                      /\ scan_queue = RemoveAt(Loop!Positions, scan_temp)
    BY DEF OthersKeepOrder, Loop!LeavesOthersInOrder, Loop!RemoveAt, RemoveAt
  <2> DEFINE q == RemoveAt(Loop!Positions, scan_temp)
  <2>1. /\ Rebuilt(Len(keys)) /\ Loop!TypeOK /\ DOMAIN keys = 1..Len(keys)
        /\ Len(keys) \in Nat \ {0}
    BY KeyFacts DEF LoopInv
  <2>2. scan_temp = shortest_index /\ scan_temp \in 1..Len(keys)
    BY <2>1 DEF Rebuilt, Loop!TypeOK
  <2>3. Without(scan_queue, scan_temp, Len(keys))
    BY <2>1, <2>2 DEF Rebuilt
  <2>4. /\ Loop!Positions \in Seq(1..Len(keys))
        /\ Len(Loop!Positions) = Len(keys)
        /\ \A j \in 1..Len(keys) : Loop!Positions[j] = j
    BY <2>1 DEF Loop!Positions
  <2>5. /\ q \in Seq(1..Len(keys)) /\ Len(q) = Len(keys) - 1
        /\ \A j \in 1..(Len(keys) - 1) :
             q[j] = IF j < scan_temp THEN Loop!Positions[j]
                                     ELSE Loop!Positions[j + 1]
    BY <2>2, <2>4, WhatIsLeft
  <2> HIDE DEF q
  <2>6. /\ scan_queue \in Seq(1..Len(keys)) /\ Len(scan_queue) = Len(keys) - 1
        /\ \A j \in 1..(Len(keys) - 1) :
             scan_queue[j] = IF j < scan_temp THEN j ELSE j + 1
    BY <2>1, <2>2, <2>3 DEF Without, Loop!TypeOK
  <2>7. ASSUME NEW j \in 1..(Len(keys) - 1)
        PROVE  scan_queue[j] = q[j]
    <3>1. j \in 1..Len(keys) /\ j + 1 \in 1..Len(keys)
      BY <2>1
    <3>2. Loop!Positions[j] = j /\ Loop!Positions[j + 1] = j + 1
      BY <2>4, <3>1
    <3> QED BY <2>5, <2>6, <3>2
  <2>8. scan_queue = q
    BY <2>1, <2>5, <2>6, <2>7, SeqEqual
  <2> QED BY <2>2, <2>8 DEF q
<1> QED BY <1>1, LoopInvariance, PTL

(* The keys a selection goes by in a queue of processes.                   *)
KeysOf(q) == [j \in 1..Len(q) |-> Key(q[j])]

(* What a loop takes from a queue is what Best says, and nothing else is;  *)
(* what it leaves is what RemoveAt says.                                   *)
SelectsAsModelled ==
  scan_pc = "returned" => \A q \in Seq(Processes) : keys = KeysOf(q) =>
    /\ \A n \in DOMAIN q : Best(q, n) <=> n = scan_temp
    /\ scan_temp \in DOMAIN q
    /\ [j \in DOMAIN scan_queue |-> q[scan_queue[j]]] = RemoveAt(q, scan_temp)

(* The first of the smallest keys is at one place only.                    *)
LEMMA BestIsFirstLeast ==
  ASSUME IInv, NEW q \in Seq(Processes), keys = KeysOf(q),
         Loop!FirstLeast(scan_temp, 1, Len(keys))
  PROVE  /\ scan_temp \in DOMAIN q
         /\ \A n \in DOMAIN q : Best(q, n) <=> n = scan_temp
<1>1. /\ Len(q) \in Nat /\ DOMAIN q = 1..Len(q) /\ Len(keys) = Len(q)
      /\ \A j \in 1..Len(q) : q[j] \in Processes /\ keys[j] = Key(q[j])
  BY DEF KeysOf
<1>2. \A j \in 1..Len(q) : Key(q[j]) \in Nat
  BY <1>1, KeyIsNatural
<1>3. /\ scan_temp \in 1..Len(q)
      /\ \A j \in 1..Len(q) : /\ Key(q[scan_temp]) <= Key(q[j])
                              /\ j < scan_temp => Key(q[scan_temp]) < Key(q[j])
  BY <1>1 DEF Loop!FirstLeast
<1>4. Best(q, scan_temp)
  BY <1>1, <1>3 DEF Best
<1>5. ASSUME NEW n \in 1..Len(q), Best(q, n)
      PROVE  n = scan_temp
  <2>1. \A j \in 1..Len(q) : /\ Key(q[n]) <= Key(q[j])
                             /\ j < n => Key(q[n]) < Key(q[j])
    BY <1>1, <1>5 DEF Best
  <2>2. ~(n < scan_temp) /\ ~(scan_temp < n)
    BY <1>2, <1>3, <2>1
  <2> QED BY <1>1, <1>3, <2>2
<1> QED BY <1>1, <1>3, <1>4, <1>5

(* In every state of the scheduler, and whatever its policy, a selection   *)
(* loop of scheduler.cpp that is given the ready queue takes the process   *)
(* CpuScheduler takes and leaves the queue CpuScheduler leaves: the two    *)
(* passes of the loop are right to be one step there, because no key of a  *)
(* process is the -1 that stands for no key yet.  (92-185)                 *)
THEOREM OneStepSelection == Spec /\ LoopSpec => []SelectsAsModelled
<1>1. IInv /\ LoopInv /\ Loop!SelectsFirstLeast /\ OthersKeepOrder
        => SelectsAsModelled
  <2> SUFFICES ASSUME IInv, LoopInv, Loop!SelectsFirstLeast,
                      OthersKeepOrder, scan_pc = "returned",
                      NEW q \in Seq(Processes), keys = KeysOf(q)
               PROVE  /\ \A n \in DOMAIN q : Best(q, n) <=> n = scan_temp
                      /\ scan_temp \in DOMAIN q
                      /\ [j \in DOMAIN scan_queue |-> q[scan_queue[j]]]
                           = RemoveAt(q, scan_temp)
    BY DEF SelectsAsModelled
  <2>1. /\ Len(q) \in Nat /\ DOMAIN q = 1..Len(q)
        /\ Len(keys) = Len(q) /\ DOMAIN keys = 1..Len(q)
        /\ \A j \in 1..Len(q) : q[j] \in Processes /\ keys[j] = Key(q[j])
    BY DEF KeysOf
  <2>2. ~Loop!Ambiguous
    BY <2>1, KeyIsNatural DEF Loop!Ambiguous, Loop!None
  <2>3. Loop!FirstLeast(scan_temp, 1, Len(keys))
    BY <2>2 DEF Loop!SelectsFirstLeast
  <2>4. /\ scan_temp \in 1..Len(q)
        /\ \A n \in DOMAIN q : Best(q, n) <=> n = scan_temp
    BY <2>1, <2>3, BestIsFirstLeast
  <2> DEFINE left == RemoveAt(Loop!Positions, scan_temp)
  <2>5. scan_queue = left
    BY DEF OthersKeepOrder, Loop!LeavesOthersInOrder, Loop!RemoveAt, RemoveAt
  <2>6. /\ Loop!Positions \in Seq(1..Len(q)) /\ Len(Loop!Positions) = Len(q)
        /\ \A j \in 1..Len(q) : Loop!Positions[j] = j
    BY <2>1 DEF Loop!Positions
  <2>7. /\ left \in Seq(1..Len(q)) /\ Len(left) = Len(q) - 1
        /\ \A j \in 1..(Len(q) - 1) :
             left[j] = IF j < scan_temp THEN Loop!Positions[j]
                                        ELSE Loop!Positions[j + 1]
    BY <2>4, <2>6, WhatIsLeft
  <2>8. /\ RemoveAt(q, scan_temp) \in Seq(Processes)
        /\ Len(RemoveAt(q, scan_temp)) = Len(q) - 1
        /\ \A j \in 1..(Len(q) - 1) :
             RemoveAt(q, scan_temp)[j]
               = IF j < scan_temp THEN q[j] ELSE q[j + 1]
    BY <2>1, <2>4, WhatIsLeft
  <2> HIDE DEF left
  <2> DEFINE taken == [j \in DOMAIN scan_queue |-> q[scan_queue[j]]]
             rest  == RemoveAt(q, scan_temp)
  <2>9. /\ DOMAIN scan_queue = 1..(Len(q) - 1)
        /\ rest = [j \in 1..(Len(q) - 1) |-> rest[j]]
    BY <2>1, <2>4, <2>5, <2>7, <2>8
  <2>10. ASSUME NEW j \in 1..(Len(q) - 1)
         PROVE  q[scan_queue[j]] = rest[j]
    <3>1. j \in 1..Len(q) /\ j + 1 \in 1..Len(q)
      BY <2>1
    <3>2. scan_queue[j] = IF j < scan_temp THEN j ELSE j + 1
      BY <2>5, <2>6, <2>7, <3>1
    <3> QED BY <2>8, <3>2
  <2> HIDE DEF rest
  <2>11. taken = rest
    BY <2>9, <2>10
  <2> QED BY <2>1, <2>4, <2>11 DEF rest
<1> QED BY <1>1, Invariance, LoopInvariance, FirstLeastReturned, OrderKept, PTL

===============================================================================
