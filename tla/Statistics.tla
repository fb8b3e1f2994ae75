-------------------------------- MODULE Statistics ------------------------------
(***************************************************************************)
(* LAB/PRACTICE/LAB1/CODES/4 array_sort_pointers/main.c: smallest, largest,*)
(* average and most frequent of the numbers entered, the last by sorting   *)
(* them.  A step is one round of a loop, or what comes between two loops.  *)
(* Sums are taken to fit into an int.  Arrays have indices from 1.         *)
(***************************************************************************)
EXTENDS Integers, Sequences, FiniteSets

CONSTANT Inputs         \* what may be entered: ten numbers in the code

VARIABLES
  entered,              \* the numbers as they were entered
  nums,                 \* the array
  pc,                   \* the loop: "scan", "sort", "partition", "walk", "done"
  index,                \* i of the first and of the last loop
  figures,              \* smallest, largest, sum and average
  calls,                \* the calls of quickSort still to be made, next first
  part,                 \* low, high, i and j of partition
  most                  \* mostOccur_num, mostOccur_count and temp_count

vars == <<entered, nums, pc, index, figures, calls, part, most>>

(* The slip this module is checked against: the temporary count starts from*)
(* 0 after a new most frequent number.                                     *)
TempResetTo0 == 0

TempReset == 1

-------------------------------------------------------------------------------
(* What is not set yet is 0; it is not read before it is set.              *)
Init ==
  /\ entered \in Inputs
  /\ nums = entered
  /\ pc = "scan" /\ index = 2
  /\ figures = [smallest |-> entered[1], largest |-> entered[1],
                sum |-> entered[1], average |-> 0]
  /\ calls = <<>>
  /\ part = [low |-> 0, high |-> 0, i |-> 0, j |-> 0]
  /\ most = [num |-> 0, count |-> 0, temp |-> 0]

(* find_smallest_largest_mostOccur_avg: the first loop, then the average,  *)
(* by a division of integers, towards 0.                                   *)
Scan ==
  /\ pc = "scan" /\ index <= Len(nums)
  /\ LET n == nums[index]
     IN  figures' = [figures EXCEPT
           !.smallest = IF n < @ THEN n ELSE @,
           !.largest  = IF n > @ THEN n ELSE @,
           !.sum      = @ + n]
  /\ index' = index + 1
  /\ UNCHANGED <<entered, nums, pc, calls, part, most>>

Quotient(a, n) == IF a >= 0 THEN a \div n ELSE -((-a) \div n)

Average ==
  /\ pc = "scan" /\ index > Len(nums)
  /\ figures' = [figures EXCEPT !.average = Quotient(figures.sum, Len(nums))]
  /\ calls' = <<[low |-> 1, high |-> Len(nums)]>>
  /\ pc' = "sort"
  /\ UNCHANGED <<entered, nums, index, part, most>>

(* quickSort does nothing with less than two numbers.                      *)
QuickSort ==
  /\ pc = "sort" /\ calls # <<>>
  /\ LET c == Head(calls)
     IN  IF c.low < c.high
         THEN /\ part' = [low |-> c.low, high |-> c.high, i |-> c.low - 1, j |-> c.low]
              /\ pc' = "partition"
         ELSE UNCHANGED <<part, pc>>
  /\ calls' = Tail(calls)
  /\ UNCHANGED <<entered, nums, index, figures, most>>

swap(arr, a, b) == [arr EXCEPT ![a] = arr[b], ![b] = arr[a]]

(* The last number of the part is the pivot; those that are not greater    *)
(* are moved in front of it.                                               *)
Partition ==
  /\ pc = "partition" /\ part.j < part.high
  /\ IF nums[part.j] <= nums[part.high]
     THEN /\ nums' = swap(nums, part.i + 1, part.j)
          /\ part' = [part EXCEPT !.i = @ + 1, !.j = @ + 1]
     ELSE /\ part' = [part EXCEPT !.j = @ + 1]
          /\ UNCHANGED nums
  /\ UNCHANGED <<entered, pc, index, figures, calls, most>>

PlacePivot ==
  /\ pc = "partition" /\ part.j >= part.high
  /\ nums' = swap(nums, part.i + 1, part.high)
  /\ calls' = <<[low |-> part.low, high |-> part.i],
                [low |-> part.i + 2, high |-> part.high]>> \o calls
  /\ pc' = "sort"
  /\ UNCHANGED <<entered, index, figures, part, most>>

Sorted ==
  /\ pc = "sort" /\ calls = <<>>
  /\ most' = [num |-> nums[1], count |-> 1, temp |-> 1]
  /\ pc' = "walk" /\ index' = 2
  /\ UNCHANGED <<entered, nums, figures, calls, part>>

(* One walk over the sorted numbers.  temp counts repetitions of numbers   *)
(* other than the most frequent so far, of all of them together.           *)
mostOccurence(n) ==
  CASE n = most.num -> [most EXCEPT !.count = @ + 1]
    [] n # most.num /\ most.temp + 1 > most.count ->
         [num |-> n, count |-> most.temp + 1, temp |-> TempReset]
    [] OTHER -> [most EXCEPT !.temp = @ + 1]

Walk ==
  /\ pc = "walk" /\ index <= Len(nums)
  /\ most' = IF nums[index] = nums[index - 1] THEN mostOccurence(nums[index]) ELSE most
  /\ index' = index + 1
  /\ UNCHANGED <<entered, nums, pc, figures, calls, part>>

Report ==
  /\ pc = "walk" /\ index > Len(nums)
  /\ pc' = "done"
  /\ UNCHANGED <<entered, nums, index, figures, calls, part, most>>

Next == \/ Scan \/ Average \/ QuickSort \/ Partition \/ PlacePivot \/ Sorted
        \/ Walk \/ Report

Spec == Init /\ [][Next]_vars

-------------------------------------------------------------------------------
Times(n) == Cardinality({k \in 1..Len(entered) : entered[k] = n})

Entered == {entered[k] : k \in 1..Len(entered)}

Repeated == {n \in Entered : Times(n) > 1}

PartialSums[k \in 0..Len(entered)] ==
  IF k = 0 THEN 0 ELSE PartialSums[k - 1] + entered[k]

(* The array is left sorted, the same numbers in it; smallest and largest  *)
(* bound them, and the average is off by less than 1, towards 0, as it is  *)
(* a quotient of integers.  Of the most frequent number this says what can *)
(* be relied on: number and count are right as long as at most two numbers *)
(* occur more than once, and the count is never too low.  The rest of what *)
(* is promised of it, MostFrequentRight, does not hold.  (main.c:49-156)   *)
StatisticsRight ==
  pc = "done" =>
    /\ Len(nums) = Len(entered)
    /\ \A k \in 1..(Len(nums) - 1) : nums[k] <= nums[k + 1]
    /\ \A n \in Entered :
         /\ Cardinality({k \in 1..Len(nums) : nums[k] = n}) = Times(n)
         /\ figures.smallest <= n /\ n <= figures.largest
         /\ most.count >= Times(n)
    /\ {figures.smallest, figures.largest, most.num} \subseteq Entered
    /\ LET sum  == PartialSums[Len(entered)]
           rest == sum - Len(entered) * figures.average
       IN  /\ rest \in (1 - Len(entered))..(Len(entered) - 1)
           /\ rest * sum >= 0
    /\ Cardinality(Repeated) <= 2 => most.count = Times(most.num)

(* "display the [...] most occurring number (with the count)" (LAB/        *)
(* PRACTICE/LAB1/README.md:11, printed at main.c:81).  Repetitions of      *)
(* several numbers are counted together (107), so it is not so when three  *)
(* numbers occur more than once.                                           *)
MostFrequentRight ==
  pc = "done" =>
    /\ most.count = Times(most.num)
    /\ \A n \in Entered : Times(n) <= most.count

===============================================================================
