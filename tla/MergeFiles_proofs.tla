---------------------------- MODULE MergeFiles_proofs --------------------------
(***************************************************************************)
(* For any number of threads, any files and any answers: no number is lost *)
(* on the way through the linked list and the data file, nobody follows a  *)
(* pointer to nowhere unless a file was empty, and the verdict is right.   *)
(*                                                                         *)
(* The list is known by the sequence of its nodes.  All numbers are        *)
(* counted, in the list, in the stream and in the files: what is unlinked  *)
(* is one less here and one more there.                                    *)
(***************************************************************************)
EXTENDS MergeFiles, FiniteSetTheorems, WellFoundedInduction, TLAPS

(* p is the list: its nodes in their order, which is that of their numbers.*)
Chain(p) ==
  /\ p \in Seq(1..Len(val)) /\ p # <<>>
  /\ head = p[1]
  /\ \A k \in 1..Len(p) :
       /\ prev[p[k]] = IF k = 1 THEN NULL ELSE p[k - 1]
       /\ next[p[k]] = IF k = Len(p) THEN NULL ELSE p[k + 1]
       /\ k <= p[k]
       /\ \A j \in 1..Len(p) : j < k => p[j] < p[k]

NumbersOf(p) == [k \in 1..Len(p) |-> val[p[k]]]

(* Everything in s is in u or in v, and the other way round.               *)
MadeOf(s, u, v) ==
  \A x \in Int : Occurrences(s, x) = Occurrences(u, x) + Occurrences(v, x)

Taking(p) ==
  /\ Chain(p)
  /\ MadeOf(val, out, NumbersOf(p))
  /\ Ascending(out)
  /\ \A j \in 1..Len(out), k \in 1..Len(p) : out[j] <= val[p[k]]

(* What a thread has in the list, and then in the stream.                  *)
Writing(t) == /\ \E p \in Seq(1..Len(val)) : Taking(p)
              /\ MadeOf(val, Merged, file[t])
Closing(t) == Ascending(out) /\ out # <<>> /\ MadeOf(out, Merged, file[t])

Turns ==
  /\ \A t, u \in Inside : t = u
  /\ \A t \in Threads : pc[t] # "start" => file[t] # Missing
  /\ IF Inside \cup Done = {} THEN datafile = file[0] ELSE file[0] # Missing

Whole ==
  file[0] # Missing /\ Inside = {} =>
    /\ datafile \in Seq(Int) /\ SameNumbers(datafile, Merged)
    /\ Done # {} => Ascending(datafile) /\ datafile # <<>>

(* The threads and what they work on.                                      *)
Core ==
  /\ TypeOK /\ \A t \in 0..NUM_OF_THREADS : file[t] \in Lines(t)
  /\ Turns /\ Whole
  /\ \A t \in Threads : /\ pc[t] = "write" => Writing(t)
                        /\ pc[t] = "close" => Closing(t)

(* How the process ends: nothing is compared before.                       *)
Ends ==
  /\ process = "up" => answer = Missing /\ printed = ""
  /\ CrashesOnlyOnEmpty /\ VerdictIsRight

IInv == Core /\ Ends

-------------------------------------------------------------------------------
(* Counting.  CountIn counts the places of s, among those in D, that hold  *)
(* x: places may be taken apart and moved.                                 *)
CountIn(s, D, x) == Cardinality({k \in D : s[k] = x})

LEMMA CountType ==
  ASSUME NEW s, NEW D, IsFiniteSet(D), NEW x
  PROVE  /\ IsFiniteSet({k \in D : s[k] = x})
         /\ CountIn(s, D, x) \in Nat
<1> DEFINE DD == {k \in D : s[k] = x}
<1>1. IsFiniteSet(DD)
  <2>1. DD \in SUBSET D
    OBVIOUS
  <2> HIDE DEF DD
  <2> QED BY <2>1, FS_Subset
<1> QED BY <1>1, FS_CardinalityType DEF CountIn

LEMMA CountSplit ==
  ASSUME NEW s, NEW A, NEW B, IsFiniteSet(A), IsFiniteSet(B), A \cap B = {},
         NEW D, D = A \cup B, NEW x
  PROVE  CountIn(s, D, x) = CountIn(s, A, x) + CountIn(s, B, x)
<1> DEFINE AA == {k \in A : s[k] = x}
           BB == {k \in B : s[k] = x}
<1>1. IsFiniteSet(AA) /\ IsFiniteSet(BB)
  <2>1. AA \in SUBSET A /\ BB \in SUBSET B
    OBVIOUS
  <2> HIDE DEF AA, BB
  <2> QED BY <2>1, FS_Subset
<1>2. AA \cap BB = {} /\ {k \in D : s[k] = x} = AA \cup BB
  OBVIOUS
<1> HIDE DEF AA, BB
<1>3. Cardinality(AA \cup BB) = Cardinality(AA) + Cardinality(BB)
  <2>1. /\ Cardinality(AA \cup BB)
             = Cardinality(AA) + Cardinality(BB) - Cardinality(AA \cap BB)
        /\ Cardinality(AA) \in Nat /\ Cardinality(BB) \in Nat
    BY <1>1, FS_Union, FS_CardinalityType
  <2> QED BY <2>1, <1>2, FS_EmptySet
<1> QED BY <1>2, <1>3 DEF CountIn, AA, BB

LEMMA CountMoved ==
  ASSUME NEW s, NEW A, IsFiniteSet(A), NEW u, NEW B,
         NEW b \in Bijection(A, B), \A k \in A : u[b[k]] = s[k], NEW x
  PROVE  CountIn(s, A, x) = CountIn(u, B, x)
<1> DEFINE AA == {k \in A : s[k] = x}
           BB == {k \in B : u[k] = x}
           c  == [k \in AA |-> b[k]]
<1>1. /\ b \in [A -> B] /\ \A j, k \in A : b[j] = b[k] => j = k
      /\ \A l \in B : \E k \in A : b[k] = l
  BY DEF Bijection, Injection, Surjection, IsInjective
<1>2. c \in [AA -> BB] /\ \A j, k \in AA : c[j] = c[k] => j = k
  BY <1>1
<1>3. \A l \in BB : \E k \in AA : c[k] = l
  BY <1>1
<1>4. c \in Bijection(AA, BB)
  BY <1>2, <1>3 DEF Bijection, Injection, Surjection, IsInjective
<1>5. IsFiniteSet(AA)
  <2>1. AA \in SUBSET A
    OBVIOUS
  <2> HIDE DEF AA
  <2> QED BY <2>1, FS_Subset
<1> QED BY <1>4, <1>5, FS_Bijection DEF ExistsBijection, CountIn

LEMMA CountOne ==
  ASSUME NEW s, NEW i, NEW x
  PROVE  CountIn(s, {i}, x) = IF s[i] = x THEN 1 ELSE 0
<1>1. CASE s[i] = x
  <2>1. {k \in {i} : s[k] = x} = {i}
    BY <1>1
  <2> QED BY <2>1, <1>1, FS_Singleton DEF CountIn
<1>2. CASE s[i] # x
  <2>1. {k \in {i} : s[k] = x} = {}
    BY <1>2
  <2> QED BY <2>1, <1>2, FS_EmptySet DEF CountIn
<1> QED BY <1>1, <1>2

LEMMA CountSame ==
  ASSUME NEW s, NEW u, NEW D, \A k \in D : s[k] = u[k], NEW x
  PROVE  CountIn(s, D, x) = CountIn(u, D, x)
<1>1. {k \in D : s[k] = x} = {k \in D : u[k] = x}
  OBVIOUS
<1> QED BY <1>1 DEF CountIn

LEMMA SeqCount ==
  ASSUME NEW s \in Seq(Int), NEW x
  PROVE  /\ Len(s) \in Nat /\ DOMAIN s = 1..Len(s) /\ IsFiniteSet(1..Len(s))
         /\ Occurrences(s, x) = CountIn(s, 1..Len(s), x)
         /\ Occurrences(s, x) \in Nat
<1>1. Len(s) \in Nat /\ DOMAIN s = 1..Len(s)
  OBVIOUS
<1>2. IsFiniteSet(1..Len(s))
  BY <1>1, FS_Interval
<1>3. CountIn(s, 1..Len(s), x) \in Nat
  BY <1>2, CountType
<1>4. Occurrences(s, x) = CountIn(s, 1..Len(s), x)
  BY <1>1 DEF Occurrences, CountIn
<1> QED BY <1>1, <1>2, <1>3, <1>4

(* What Append, \o and the loss of one value do to the occurrences.        *)
LEMMA CountAppend ==
  ASSUME NEW s \in Seq(Int), NEW e \in Int, NEW x
  PROVE  Occurrences(Append(s, e), x) =
           Occurrences(s, x) + IF e = x THEN 1 ELSE 0
<1> DEFINE t == Append(s, e)
           n == Len(s)
           A == 1..n
           D == 1..(n + 1)
<1>1. /\ t \in Seq(Int) /\ n \in Int /\ Len(t) = n + 1 /\ t[n + 1] = e
      /\ \A k \in A : t[k] = s[k]
      /\ D = A \cup {n + 1} /\ A \cap {n + 1} = {}
  OBVIOUS
<1>2. IsFiniteSet(A) /\ IsFiniteSet({n + 1})
  <2>1. n \in Int
    BY <1>1
  <2> HIDE DEF n
  <2>2. IsFiniteSet(A)
    BY <2>1, FS_Interval
  <2> QED BY <2>2, FS_Singleton
<1>3. /\ Occurrences(t, x) = CountIn(t, D, x)
      /\ Occurrences(s, x) = CountIn(s, A, x)
  <2> HIDE DEF t
  <2> QED BY <1>1, SeqCount
<1> HIDE DEF t, A, D, n
<1>4. CountIn(t, D, x) = CountIn(t, A, x) + CountIn(t, {n + 1}, x)
  BY <1>1, <1>2, CountSplit
<1>5. CountIn(t, A, x) = CountIn(s, A, x)
  BY <1>1, CountSame
<1>6. CountIn(t, {n + 1}, x) = IF e = x THEN 1 ELSE 0
  BY <1>1, CountOne
<1> QED BY <1>3, <1>4, <1>5, <1>6 DEF t

LEMMA CountConcat ==
  ASSUME NEW s \in Seq(Int), NEW u \in Seq(Int), NEW x
  PROVE  Occurrences(s \o u, x) = Occurrences(s, x) + Occurrences(u, x)
<1> DEFINE t == s \o u
           n == Len(s)
           m == Len(u)
           A == 1..n
           B == (n + 1)..(n + m)
           D == 1..(n + m)
           M == 1..m
           b == [k \in M |-> n + k]
<1>1. /\ t \in Seq(Int) /\ n \in Nat /\ m \in Nat /\ Len(t) = n + m
      /\ \A k \in A : t[k] = s[k]
  OBVIOUS
<1>2. \A k \in M : t[n + k] = u[k]
  OBVIOUS
<1>3. D = A \cup B /\ A \cap B = {}
  BY <1>1
<1>4. b \in Bijection(M, B)
  <2> HIDE DEF n, m
  <2>1. b \in [M -> B] /\ \A j, k \in M : b[j] = b[k] => j = k
    BY <1>1
  <2>2. ASSUME NEW l \in B
        PROVE  \E k \in M : b[k] = l
    <3>1. l - n \in M /\ n + (l - n) = l
      BY <1>1
    <3> QED BY <3>1
  <2> QED BY <2>1, <2>2 DEF Bijection, Injection, Surjection, IsInjective
<1>5. \A k \in M : t[b[k]] = u[k]
  BY <1>2
<1>6. IsFiniteSet(A) /\ IsFiniteSet(B) /\ IsFiniteSet(M)
  <2>1. n \in Int /\ m \in Int /\ n + m \in Int /\ n + 1 \in Int
    BY <1>1
  <2> HIDE DEF n, m
  <2> QED BY <2>1, FS_Interval
<1>7. /\ Occurrences(t, x) = CountIn(t, D, x)
      /\ Occurrences(s, x) = CountIn(s, A, x)
      /\ Occurrences(u, x) = CountIn(u, M, x)
  <2> HIDE DEF t
  <2> QED BY <1>1, SeqCount
<1> HIDE DEF t, n, m, A, B, D, M, b
<1>8. CountIn(u, M, x) = CountIn(t, B, x)
  BY <1>4, <1>5, <1>6, CountMoved
<1>9. CountIn(t, A, x) = CountIn(s, A, x)
  BY <1>1, CountSame
<1>10. CountIn(t, D, x) = CountIn(t, A, x) + CountIn(t, B, x)
  BY <1>3, <1>6, CountSplit
<1> QED BY <1>7, <1>8, <1>9, <1>10 DEF t

(* s without its i-th value.                                               *)
Without(s, i) == [k \in 1..(Len(s) - 1) |-> IF k < i THEN s[k] ELSE s[k + 1]]

LEMMA WithoutSeq ==
  ASSUME NEW S, NEW s \in Seq(S), NEW i \in 1..Len(s)
  PROVE  /\ Without(s, i) \in Seq(S) /\ Len(Without(s, i)) = Len(s) - 1
         /\ \A k \in 1..(Len(s) - 1) :
              Without(s, i)[k] = IF k < i THEN s[k] ELSE s[k + 1]
<1>1. /\ Len(s) \in Nat /\ Len(s) - 1 \in Nat
      /\ \A k \in 1..(Len(s) - 1) : (IF k < i THEN s[k] ELSE s[k + 1]) \in S
  OBVIOUS
<1>2. Without(s, i) \in [1..(Len(s) - 1) -> S]
  BY <1>1 DEF Without
<1> QED BY <1>1, <1>2 DEF Without

LEMMA CountWithout ==
  ASSUME NEW s \in Seq(Int), NEW i \in 1..Len(s), NEW x
  PROVE  Occurrences(s, x) =
           Occurrences(Without(s, i), x) + IF s[i] = x THEN 1 ELSE 0
<1> DEFINE t == Without(s, i)
           n == Len(s)
           b == [k \in 1..(n - 1) |-> IF k < i THEN k ELSE k + 1]
<1>1. /\ t \in Seq(Int) /\ n \in Nat /\ n - 1 \in Nat /\ Len(t) = n - 1
      /\ i \in 1..n /\ i \in Int
      /\ \A k \in 1..(n - 1) : t[k] = IF k < i THEN s[k] ELSE s[k + 1]
  <2>1. n \in Nat /\ i \in Int /\ n - 1 \in Nat
    OBVIOUS
  <2>2. /\ t \in Seq(Int) /\ Len(t) = n - 1
        /\ \A k \in 1..(n - 1) : t[k] = IF k < i THEN s[k] ELSE s[k + 1]
    BY WithoutSeq
  <2> HIDE DEF t
  <2> QED BY <2>1, <2>2
<1> HIDE DEF t
<1>2. b \in Bijection(1..(n - 1), (1..n) \ {i})
  <2>1. b \in [1..(n - 1) -> (1..n) \ {i}]
        /\ \A j, k \in 1..(n - 1) : b[j] = b[k] => j = k
    <3> HIDE DEF n
    <3>1. \A k \in 1..(n - 1) :
            (IF k < i THEN k ELSE k + 1) \in (1..n) \ {i}
      BY <1>1
    <3>2. ASSUME NEW j \in 1..(n - 1), NEW k \in 1..(n - 1), j < k
          PROVE  (IF j < i THEN j ELSE j + 1) < (IF k < i THEN k ELSE k + 1)
      <4>1. j \in Int /\ k \in Int /\ i \in Int
        BY <1>1
      <4>2. CASE k < i
        BY <3>2, <4>1, <4>2
      <4>3. CASE ~(k < i)
        BY <3>2, <4>1, <4>3
      <4> QED BY <4>2, <4>3
    <3>3. \A k \in 1..(n - 1) : k \in Int /\ b[k] \in Int
      BY <1>1
    <3>4. \A j, k \in 1..(n - 1) : j < k => b[j] < b[k]
      BY <3>2
    <3>5. \A j, k \in 1..(n - 1) : b[j] = b[k] => j = k
      <4> HIDE DEF b
      <4> SUFFICES ASSUME NEW j \in 1..(n - 1), NEW k \in 1..(n - 1), j < k
                   PROVE  b[j] # b[k]
        BY <3>3
      <4>1. b[j] < b[k] /\ b[j] \in Int /\ b[k] \in Int
        BY <3>3, <3>4
      <4> QED BY <4>1
    <3> QED BY <3>1, <3>5
  <2>2. ASSUME NEW l \in (1..n) \ {i}
        PROVE  \E k \in 1..(n - 1) : b[k] = l
    <3>1. CASE l < i
      <4>1. l \in 1..(n - 1)
        BY <3>1, <1>1
      <4> QED BY <4>1, <3>1
    <3>2. CASE l > i
      <4>1. l - 1 \in 1..(n - 1) /\ ~(l - 1 < i) /\ (l - 1) + 1 = l
        BY <3>2, <1>1
      <4> QED BY <4>1
    <3> QED BY <3>1, <3>2, <1>1
  <2> QED BY <2>1, <2>2 DEF Bijection, Injection, Surjection, IsInjective
<1>3. \A k \in 1..(n - 1) : s[b[k]] = t[k]
  BY <1>1
<1>4. IsFiniteSet((1..n) \ {i}) /\ IsFiniteSet(1..n) /\ IsFiniteSet(1..(n - 1))
  <2>1. IsFiniteSet(1..n) /\ IsFiniteSet(1..(n - 1))
    BY <1>1, FS_Interval
  <2> QED BY <2>1, FS_RemoveElement
<1> HIDE DEF b
<1>5. CountIn(t, 1..(n - 1), x) = CountIn(s, (1..n) \ {i}, x)
  BY <1>2, <1>3, <1>4, CountMoved
<1>6. 1..n = ((1..n) \ {i}) \cup {i} /\ ((1..n) \ {i}) \cap {i} = {}
  BY <1>1
<1> DEFINE D == 1..n
           A == (1..n) \ {i}
<1>7. CountIn(s, D, x) = CountIn(s, A, x) + CountIn(s, {i}, x)
  <2>1. IsFiniteSet({i}) /\ IsFiniteSet(A) /\ D = A \cup {i} /\ A \cap {i} = {}
    BY <1>4, <1>6, FS_Singleton
  <2> HIDE DEF n, A, D
  <2> QED BY <2>1, CountSplit
<1> HIDE DEF n
<1>8. Occurrences(s, x) = CountIn(s, 1..n, x)
      /\ Occurrences(t, x) = CountIn(t, 1..(n - 1), x)
  BY <1>1, SeqCount DEF n
<1> QED BY <1>5, <1>7, <1>8, CountOne DEF t

-------------------------------------------------------------------------------
(* The same numbers as often.  What is no value occurs nowhere, so it does *)
(* not matter which numbers are counted.                                   *)
LEMMA OccursNowhere ==
  ASSUME NEW s, NEW x, x \notin ValuesOf(s)
  PROVE  Occurrences(s, x) = 0
<1>1. {k \in DOMAIN s : s[k] = x} = {}
  BY DEF ValuesOf
<1> QED BY <1>1, FS_EmptySet DEF Occurrences

LEMMA SameNumbersCounted ==
  ASSUME NEW s, NEW u, ValuesOf(s) \subseteq Int, ValuesOf(u) \subseteq Int
  PROVE  SameNumbers(s, u)
           <=> \A x \in Int : Occurrences(s, x) = Occurrences(u, x)
<1>1. ASSUME SameNumbers(s, u), NEW x \in Int
      PROVE  Occurrences(s, x) = Occurrences(u, x)
  <2>1. CASE x \in ValuesOf(s) \cup ValuesOf(u)
    BY <1>1, <2>1 DEF SameNumbers
  <2>2. CASE x \notin ValuesOf(s) \cup ValuesOf(u)
    BY <2>2, OccursNowhere
  <2> QED BY <2>1, <2>2
<1>2. ASSUME \A x \in Int : Occurrences(s, x) = Occurrences(u, x)
      PROVE  SameNumbers(s, u)
  BY <1>2 DEF SameNumbers
<1> QED BY <1>1, <1>2

LEMMA SeqValues ==
  ASSUME NEW s \in Seq(Int)
  PROVE  ValuesOf(s) \subseteq Int
BY DEF ValuesOf

LEMMA SeqIsFunction ==
  ASSUME NEW s \in Seq(Int)
  PROVE  s = [k \in 1..Len(s) |-> s[k]]
OBVIOUS

(* A set of natural numbers that is not empty has a least member.          *)
LEMMA LeastNumber ==
  ASSUME NEW T \in SUBSET Nat, T # {}
  PROVE  \E m \in T : \A k \in T : m <= k
<1> DEFINE R == OpToRel(<, Nat)
<1>1. IsWellFoundedOn(R, Nat)
  BY NatLessThanWellFounded
<1> HIDE DEF R
<1>2. PICK m \in T : \A k \in T : ~(<<k, m>> \in R)
  BY <1>1, WFMin
<1>3. \A k \in T : ~(k < m)
  BY <1>2 DEF R, OpToRel
<1> QED BY <1>3

(* Up to the place i two sorted sequences agree, there s has x and u only  *)
(* more than x, or nothing: then x occurs more often in s than in u.       *)
LEMMA OccursMore ==
  ASSUME NEW s \in Seq(Int), NEW u \in Seq(Int), NEW i \in 1..Len(s),
         \A k \in 1..(i - 1) : k <= Len(u) /\ s[k] = u[k],
         \A k \in 1..Len(u) : k >= i => u[k] > s[i]
  PROVE  Occurrences(u, s[i]) < Occurrences(s, s[i])
<1> DEFINE x == s[i]
           S == {k \in 1..Len(s) : s[k] = x}
           U == {k \in 1..Len(u) : u[k] = x}
<1>1. /\ i \in Int /\ Len(s) \in Nat /\ Len(u) \in Nat /\ x \in Int
      /\ \A k \in 1..Len(u) : u[k] \in Int
  OBVIOUS
<1>2. \A k \in U : k < i
  BY <1>1
<1>3. U \in SUBSET (S \ {i})
  <2> SUFFICES ASSUME NEW k \in U PROVE k \in S \ {i}
    OBVIOUS
  <2>1. k \in 1..(i - 1)
    BY <1>1, <1>2
  <2> QED BY <2>1, <1>1
<1>4. S \in SUBSET (1..Len(s)) /\ i \in S
  OBVIOUS
<1>5. Occurrences(s, x) = Cardinality(S) /\ Occurrences(u, x) = Cardinality(U)
  <2>1. DOMAIN s = 1..Len(s) /\ DOMAIN u = 1..Len(u)
    OBVIOUS
  <2> QED BY <2>1 DEF Occurrences
<1>6. IsFiniteSet(1..Len(s))
  BY <1>1, FS_Interval
<1> HIDE DEF x, S, U
<1>7. IsFiniteSet(S) /\ Cardinality(S) \in Nat
  BY <1>4, <1>6, FS_Subset, FS_CardinalityType
<1>8. /\ IsFiniteSet(S \ {i})
      /\ Cardinality(S \ {i}) = Cardinality(S) - 1
  BY <1>4, <1>7, FS_RemoveElement
<1>9. IsFiniteSet(U) /\ Cardinality(U) <= Cardinality(S \ {i})
      /\ Cardinality(U) \in Nat
  BY <1>3, <1>8, FS_Subset, FS_CardinalityType
<1> QED BY <1>5, <1>7, <1>8, <1>9 DEF x

(* Two sorted sequences of the same numbers are the same.                  *)
LEMMA SortedOnce ==
  ASSUME NEW s \in Seq(Int), NEW u \in Seq(Int), Ascending(s), Ascending(u),
         SameNumbers(s, u)
  PROVE  s = u
<1> DEFINE Both(k) == k <= Len(s) /\ k <= Len(u) /\ s[k] = u[k]
           Bad     == {k \in (1..Len(s)) \cup (1..Len(u)) : ~Both(k)}
<1>1. /\ Len(s) \in Nat /\ Len(u) \in Nat
      /\ \A k \in 1..Len(s) : s[k] \in Int
      /\ \A k \in 1..Len(u) : u[k] \in Int
      /\ \A j, k \in 1..Len(s) : j < k => s[j] <= s[k]
      /\ \A j, k \in 1..Len(u) : j < k => u[j] <= u[k]
  BY DEF Ascending
<1>2. \A x \in Int : Occurrences(s, x) = Occurrences(u, x)
                     /\ Occurrences(s, x) \in Int
  BY SameNumbersCounted, SeqValues, SeqCount
<1>3. Bad = {}
  <2> SUFFICES ASSUME Bad # {} PROVE FALSE
    OBVIOUS
  <2>1. Bad \in SUBSET Nat
    BY <1>1
  <2>2. PICK i \in Bad : \A k \in Bad : i <= k
    BY <2>1, LeastNumber
  <2>3. i \in Nat /\ i >= 1 /\ \A k \in 1..(i - 1) : Both(k)
    <3>1. i \in Nat /\ i >= 1
      BY <2>2, <1>1
    <3>2. ASSUME NEW k \in 1..(i - 1)
          PROVE  Both(k)
      <4>1. k \in (1..Len(s)) \cup (1..Len(u)) /\ ~(i <= k)
        BY <2>2, <3>1, <1>1
      <4> QED BY <4>1, <2>2
    <3> QED BY <3>1, <3>2
  <2>4. CASE i <= Len(s) /\ (i <= Len(u) => s[i] < u[i])
    <3>1. i \in 1..Len(s) /\ \A k \in 1..Len(u) : k >= i => u[k] > s[i]
      <4>1. i \in 1..Len(s) /\ s[i] \in Int
        BY <2>3, <2>4, <1>1
      <4>2. ASSUME NEW k \in 1..Len(u), k >= i
            PROVE  u[k] > s[i]
        <5>1. i \in 1..Len(u) /\ s[i] < u[i]
          BY <2>3, <2>4, <4>2, <1>1
        <5>2. k = i \/ u[i] <= u[k]
          BY <4>2, <5>1, <1>1
        <5> QED BY <4>1, <4>2, <5>1, <5>2, <1>1
      <4> QED BY <4>1, <4>2
    <3>2. Occurrences(u, s[i]) < Occurrences(s, s[i])
      BY <2>3, <3>1, OccursMore
    <3>3. s[i] \in Int
      BY <3>1, <1>1
    <3>4. /\ Occurrences(s, s[i]) = Occurrences(u, s[i])
          /\ Occurrences(s, s[i]) \in Int
      BY <3>3, <1>2, Zenon
    <3> QED BY <3>2, <3>4
  <2>5. CASE i <= Len(u) /\ (i <= Len(s) => u[i] < s[i])
    <3>1. i \in 1..Len(u) /\ \A k \in 1..Len(s) : k >= i => s[k] > u[i]
      <4>1. i \in 1..Len(u) /\ u[i] \in Int
        BY <2>3, <2>5, <1>1
      <4>2. ASSUME NEW k \in 1..Len(s), k >= i
            PROVE  s[k] > u[i]
        <5>1. i \in 1..Len(s) /\ u[i] < s[i]
          BY <2>3, <2>5, <4>2, <1>1
        <5>2. k = i \/ s[i] <= s[k]
          BY <4>2, <5>1, <1>1
        <5> QED BY <4>1, <4>2, <5>1, <5>2, <1>1
      <4> QED BY <4>1, <4>2
    <3>2. Occurrences(s, u[i]) < Occurrences(u, u[i])
      BY <2>3, <3>1, OccursMore
    <3>3. u[i] \in Int
      BY <3>1, <1>1
    <3>4. /\ Occurrences(s, u[i]) = Occurrences(u, u[i])
          /\ Occurrences(s, u[i]) \in Int
      BY <3>3, <1>2, Zenon
    <3> QED BY <3>2, <3>4
  <2> QED BY <2>2, <2>3, <2>4, <2>5, <1>1
<1>4. Len(s) = Len(u)
  <2>1. Len(s) > 0 => Len(s) \notin Bad /\ Len(s) \in 1..Len(s)
    BY <1>1, <1>3
  <2>2. Len(u) > 0 => Len(u) \notin Bad /\ Len(u) \in 1..Len(u)
    BY <1>1, <1>3
  <2> QED BY <2>1, <2>2, <1>1
<1>5. \A k \in 1..Len(s) : s[k] = u[k]
  BY <1>3
<1> HIDE DEF Both, Bad
<1>6. /\ s = [k \in 1..Len(s) |-> s[k]]
      /\ u = [k \in 1..Len(u) |-> u[k]]
  BY SeqIsFunction
<1>7. [k \in 1..Len(s) |-> s[k]] = [k \in 1..Len(u) |-> u[k]]
  BY <1>4, <1>5
<1> QED BY <1>6, <1>7

(* A sequence that is not empty has a first least value.                   *)
LEMMA LeastValue ==
  ASSUME NEW n \in Nat, n >= 1, NEW f, \A k \in 1..n : f[k] \in Int
  PROVE  \E i \in 1..n : \A j \in 1..n : f[i] <= f[j]
<1> DEFINE Has(m) == \E i \in 1..m : \A j \in 1..m : f[i] <= f[j]
           Bad    == {m \in 1..n : ~Has(m)}
<1>1. SUFFICES ASSUME Bad # {} PROVE FALSE
  OBVIOUS
<1>2. PICK m \in Bad : \A k \in Bad : m <= k
  <2>1. Bad \in SUBSET Nat
    OBVIOUS
  <2> HIDE DEF Bad
  <2> QED BY <1>1, <2>1, LeastNumber
<1>3. m # 1
  <2>1. \A i \in 1..1 : i = 1
    OBVIOUS
  <2>2. 1 \in 1..1 /\ f[1] \in Int /\ f[1] <= f[1]
    OBVIOUS
  <2>3. Has(1)
    BY <2>1, <2>2
  <2> QED BY <2>3, <1>2
<1>4. m - 1 \in 1..n /\ m \in Int /\ m \in 1..n
  BY <1>2, <1>3
<1>5. PICK i \in 1..(m - 1) : \A j \in 1..(m - 1) : f[i] <= f[j]
  <2>1. m - 1 \notin Bad
    <3>1. ~(m <= m - 1)
      BY <1>4
    <3> HIDE DEF Bad
    <3> QED BY <3>1, <1>2
  <2> QED BY <2>1, <1>4
<1>6. 1..m = (1..(m - 1)) \cup {m} /\ i \in 1..m /\ m \in 1..m
  BY <1>4
<1>7. f[i] \in Int /\ f[m] \in Int /\ \A j \in 1..(m - 1) : f[j] \in Int
  BY <1>4, <1>6
<1>8. Has(m)
  <2>1. CASE f[m] < f[i]
    <3>1. \A j \in 1..m : f[m] <= f[j]
      BY <2>1, <1>5, <1>6, <1>7
    <3> QED BY <3>1, <1>6
  <2>2. CASE ~(f[m] < f[i])
    <3>1. \A j \in 1..m : f[i] <= f[j]
      BY <2>2, <1>5, <1>6, <1>7
    <3> QED BY <3>1, <1>6
  <2> QED BY <2>1, <2>2
<1> QED BY <1>2, <1>8

-------------------------------------------------------------------------------
(* The list.  What From returns is the one sequence of nodes the pointers  *)
(* go along: there is a walk along it, and no other walk.                  *)
LEMMA ChainFacts ==
  ASSUME TypeOK, NEW p \in Seq(1..Len(val)), Chain(p)
  PROVE  /\ Len(val) \in Nat /\ Len(p) \in 1..Len(val)
         /\ \A k \in 1..Len(val) : val[k] \in Int
         /\ \A k \in 1..Len(p) : /\ p[k] \in 1..Len(val) /\ p[k] # NULL
                                 /\ val[p[k]] \in Int
         /\ \A j, k \in 1..Len(p) : p[j] = p[k] => j = k
<1>1. Len(val) \in Nat /\ \A k \in 1..Len(val) : val[k] \in Int
  <2>1. val \in Seq(Int)
    BY DEF TypeOK
  <2> QED BY <2>1
<1>2. Len(p) \in Nat /\ Len(p) >= 1 /\ \A k \in 1..Len(p) : p[k] \in 1..Len(val)
  BY DEF Chain
<1>3. Len(p) <= p[Len(p)]
  BY <1>2 DEF Chain
<1>4. Len(p) \in 1..Len(val)
  BY <1>1, <1>2, <1>3
<1>5. \A j, k \in 1..Len(p) : p[j] = p[k] => j = k
  <2> SUFFICES ASSUME NEW j \in 1..Len(p), NEW k \in 1..Len(p), j < k
               PROVE  p[j] # p[k]
    BY <1>2
  <2>1. p[j] < p[k] /\ p[j] \in Int /\ p[k] \in Int
    BY <1>1, <1>2 DEF Chain
  <2> QED BY <2>1
<1> QED BY <1>1, <1>2, <1>4, <1>5 DEF NULL

LEMMA FromIsChain ==
  ASSUME TypeOK, NEW p \in Seq(1..Len(val)), Chain(p)
  PROVE  From(head) = p
<1> DEFINE L == Len(val)
           IsWalk(f) ==
             f = [k \in 1..L |->
                    IF k = 1 THEN head
                    ELSE IF f[k - 1] = NULL THEN NULL ELSE next[f[k - 1]]]
           walk == [k \in 1..L |-> IF k <= Len(p) THEN p[k] ELSE NULL]
<1>1. /\ L \in Nat /\ Len(p) \in 1..L /\ head = p[1]
      /\ \A k \in 1..Len(p) :
           p[k] # NULL /\ next[p[k]] = IF k = Len(p) THEN NULL ELSE p[k + 1]
  BY ChainFacts DEF Chain
<1>2. IsWalk(walk)
  <2> SUFFICES ASSUME NEW k \in 1..L
               PROVE  walk[k] = IF k = 1 THEN head
                                ELSE IF walk[k - 1] = NULL THEN NULL
                                     ELSE next[walk[k - 1]]
    OBVIOUS
  <2>1. CASE k = 1
    BY <2>1, <1>1
  <2>2. CASE k # 1
    <3>1. k - 1 \in 1..L /\ (k - 1) + 1 = k
      BY <2>2, <1>1
    <3>2. CASE k - 1 <= Len(p)
      <4>1. k - 1 \in 1..Len(p)
        BY <3>1, <3>2, <1>1
      <4>2. walk[k - 1] = p[k - 1] /\ p[k - 1] # NULL
        BY <3>1, <4>1, <1>1
      <4>3. next[p[k - 1]] = IF k - 1 = Len(p) THEN NULL ELSE p[k]
        BY <4>1, <3>1, <1>1
      <4> QED BY <2>2, <4>1, <4>2, <4>3, <1>1
    <3>3. CASE ~(k - 1 <= Len(p))
      BY <2>2, <3>1, <3>3, <1>1
    <3> QED BY <3>2, <3>3
  <2> QED BY <2>1, <2>2
<1>3. ASSUME NEW f, IsWalk(f)
      PROVE  f = walk
  <2> DEFINE Bad == {k \in 1..L : f[k] # walk[k]}
  <2>1. /\ f = [k \in 1..L |-> f[k]] /\ f[1] = head /\ walk[1] = head
        /\ \A k \in 1..L : k # 1 =>
             /\ f[k] = IF f[k - 1] = NULL THEN NULL ELSE next[f[k - 1]]
             /\ walk[k] = IF walk[k - 1] = NULL THEN NULL
                          ELSE next[walk[k - 1]]
    <3>1. 1 \in 1..L
      BY <1>1
    <3> HIDE DEF walk
    <3> QED BY <1>2, <1>3, <3>1
  <2>2. walk = [k \in 1..L |-> walk[k]]
    OBVIOUS
  <2> HIDE DEF walk
  <2>3. Bad = {}
    <3> SUFFICES ASSUME Bad # {} PROVE FALSE
      OBVIOUS
    <3>1. Bad \in SUBSET Nat
      BY <1>1
    <3> HIDE DEF Bad
    <3>2. PICK k \in Bad : \A j \in Bad : k <= j
      BY <3>1, LeastNumber
    <3>3. k \in 1..L /\ f[k] # walk[k] /\ k # 1
      BY <3>2, <2>1 DEF Bad
    <3>4. k - 1 \in 1..L /\ ~(k <= k - 1)
      BY <3>3, <1>1
    <3>5. f[k - 1] = walk[k - 1]
      BY <3>2, <3>4 DEF Bad
    <3> QED BY <3>3, <3>5, <2>1
  <2> QED BY <2>1, <2>2, <2>3
<1> DEFINE node == CHOOSE f : IsWalk(f)
<1>4. node = walk
  <2> HIDE DEF walk, IsWalk
  <2> QED BY <1>2, <1>3
<1> HIDE DEF node
<1>5. \A k \in 1..L : node[k] # NULL <=> k <= Len(p)
  BY <1>1, <1>4
<1>6. \A k \in 1..Len(p) : node[k] = p[k]
  BY <1>1, <1>4
<1> HIDE DEF walk
<1> DEFINE IsEnd(n) == \A k \in 1..L : node[k] # NULL <=> k <= n
<1>7. (CHOOSE n \in 0..L : IsEnd(n)) = Len(p)
  <2>1. ASSUME NEW n \in 0..L, IsEnd(n)
        PROVE  n = Len(p)
    <3>1. CASE n < Len(p)
      BY <3>1, <2>1, <1>1, <1>5
    <3>2. CASE n > Len(p)
      <4>1. n \in 1..L
        BY <3>2, <1>1
      <4> QED BY <4>1, <3>2, <2>1, <1>1, <1>5
    <3> QED BY <3>1, <3>2, <1>1
  <2>2. Len(p) \in 0..L /\ IsEnd(Len(p))
    BY <1>1, <1>5
  <2> HIDE DEF IsEnd
  <2> QED BY <2>1, <2>2
<1>8. From(head) = [k \in 1..(CHOOSE n \in 0..L : IsEnd(n)) |-> node[k]]
  BY DEF From, node
<1>9. p = [k \in 1..Len(p) |-> p[k]]
  OBVIOUS
<1> HIDE DEF IsEnd
<1> QED BY <1>6, <1>7, <1>8, <1>9

(* min_node is a node of the list that no other one is less than.          *)
LEMMA MinNode ==
  ASSUME TypeOK, NEW p \in Seq(1..Len(val)), Chain(p)
  PROVE  \E i \in 1..Len(p) :
           /\ min_node = p[i]
           /\ \A j \in 1..Len(p) : val[p[i]] <= val[p[j]]
<1> DEFINE least == {i \in 1..Len(p) :
                       \A j \in 1..Len(p) : ~IsLess(val[p[j]], val[p[i]])}
           first == CHOOSE i \in least : \A j \in least : i <= j
<1>1. /\ Len(p) \in Nat /\ Len(p) >= 1 /\ DOMAIN p = 1..Len(p)
      /\ \A k \in 1..Len(p) : val[p[k]] \in Int
  BY ChainFacts
<1>2. \E i \in 1..Len(p) : \A j \in 1..Len(p) : val[p[i]] <= val[p[j]]
  <2> DEFINE f == [k \in 1..Len(p) |-> val[p[k]]]
  <2>1. \A k \in 1..Len(p) : f[k] \in Int
    BY <1>1
  <2> HIDE DEF f
  <2>2. \E i \in 1..Len(p) : \A j \in 1..Len(p) : f[i] <= f[j]
    BY <1>1, <2>1, LeastValue
  <2> QED BY <2>2 DEF f
<1>3. least # {} /\ least \in SUBSET Nat
  <2>1. PICK i \in 1..Len(p) : \A j \in 1..Len(p) : val[p[i]] <= val[p[j]]
    BY <1>2
  <2>2. \A j \in 1..Len(p) : ~(val[p[j]] < val[p[i]])
    BY <1>1, <2>1
  <2>3. i \in least
    BY <2>2 DEF IsLess
  <2> QED BY <1>1, <2>3
<1>4. min_node = p[first]
  BY FromIsChain, <1>1 DEF min_node
<1>5. first \in least
  <2> HIDE DEF least
  <2> QED BY <1>3, LeastNumber
<1> HIDE DEF first
<1>6. \A j \in 1..Len(p) : val[p[first]] <= val[p[j]]
  BY <1>1, <1>5 DEF IsLess
<1> QED BY <1>4, <1>5, <1>6

-------------------------------------------------------------------------------
(* The files, one beside the other.                                        *)
LinesIn(T)  == UNION {{t} \X DOMAIN file[t] : t \in T}
MergedOf(T) == [l \in LinesIn(T) |-> file[l[1]][l[2]]]

LEMMA LinesFinite ==
  ASSUME NEW T \in SUBSET (0..NUM_OF_THREADS), \A t \in T : file[t] \in Seq(Int)
  PROVE  IsFiniteSet(LinesIn(T))
<1> DEFINE P == {{t} \X DOMAIN file[t] : t \in T}
           f == [t \in T |-> {t} \X DOMAIN file[t]]
<1>1. IsFiniteSet(T)
  <2>1. IsFiniteSet(0..NUM_OF_THREADS)
    BY ThreadsAssumption, FS_Interval
  <2> QED BY <2>1, FS_Subset
<1>2. f \in Surjection(T, P)
  <2>1. f \in [T -> P] /\ \A q \in P : \E t \in T : f[t] = q
    OBVIOUS
  <2> QED BY <2>1, Zenon DEF Surjection
<1>3. ASSUME NEW t \in T
      PROVE  IsFiniteSet({t} \X DOMAIN file[t])
  <2>1. DOMAIN file[t] = 1..Len(file[t]) /\ Len(file[t]) \in Nat
    OBVIOUS
  <2>2. IsFiniteSet({t}) /\ IsFiniteSet(DOMAIN file[t])
    <3>1. IsFiniteSet(1..Len(file[t]))
      BY <2>1, FS_Interval
    <3> QED BY <2>1, <3>1, FS_Singleton
  <2> QED BY <2>2, FS_Product
<1>4. \A q \in P : IsFiniteSet(q)
  BY <1>3
<1> HIDE DEF P, f
<1>5. IsFiniteSet(P)
  BY <1>1, <1>2, FS_Surjection
<1>6. IsFiniteSet(UNION P)
  BY <1>4, <1>5, FS_UNION
<1> QED BY <1>6 DEF P, LinesIn

LEMMA MergedCount ==
  ASSUME NEW T \in SUBSET (0..NUM_OF_THREADS), \A t \in T : file[t] \in Seq(Int)
  PROVE  /\ ValuesOf(MergedOf(T)) \subseteq Int
         /\ \A x : /\ Occurrences(MergedOf(T), x)
                        = CountIn(MergedOf(T), LinesIn(T), x)
                   /\ Occurrences(MergedOf(T), x) \in Nat
<1>1. DOMAIN MergedOf(T) = LinesIn(T)
  BY DEF MergedOf
<1>2. ValuesOf(MergedOf(T)) \subseteq Int
  <2>1. ASSUME NEW l \in LinesIn(T)
        PROVE  MergedOf(T)[l] \in Int
    <3>1. PICK t \in T : l \in {t} \X DOMAIN file[t]
      BY DEF LinesIn
    <3>2. l[1] = t /\ l[2] \in DOMAIN file[t]
      BY <3>1
    <3>3. file[t][l[2]] \in Int
      BY <3>2
    <3> QED BY <3>2, <3>3 DEF MergedOf
  <2> QED BY <1>1, <2>1 DEF ValuesOf
<1>3. ASSUME NEW x
      PROVE  /\ Occurrences(MergedOf(T), x) = CountIn(MergedOf(T), LinesIn(T), x)
             /\ Occurrences(MergedOf(T), x) \in Nat
  <2>1. Occurrences(MergedOf(T), x) = CountIn(MergedOf(T), LinesIn(T), x)
    BY <1>1 DEF Occurrences, CountIn
  <2>2. IsFiniteSet(LinesIn(T))
    BY LinesFinite
  <2>3. CountIn(MergedOf(T), LinesIn(T), x) \in Nat
    BY <2>2, CountType
  <2> QED BY <2>1, <2>3
<1> QED BY <1>2, <1>3

LEMMA MergedOne ==
  ASSUME NEW t \in 0..NUM_OF_THREADS, file[t] \in Seq(Int), NEW x
  PROVE  Occurrences(MergedOf({t}), x) = Occurrences(file[t], x)
<1> DEFINE D == 1..Len(file[t])
           b == [k \in D |-> <<t, k>>]
<1>1. IsFiniteSet(D) /\ DOMAIN file[t] = D
  BY SeqCount
<1>2. Occurrences(file[t], x) = CountIn(file[t], D, x)
  BY SeqCount
<1>3. LinesIn({t}) = {t} \X D
  BY <1>1 DEF LinesIn
<1> HIDE DEF D
<1>4. b \in Bijection(D, LinesIn({t}))
  <2>1. b \in [D -> {t} \X D] /\ \A j, k \in D : b[j] = b[k] => j = k
    OBVIOUS
  <2>2. \A l \in {t} \X D : \E k \in D : b[k] = l
    OBVIOUS
  <2> HIDE DEF b
  <2> QED BY <1>3, <2>1, <2>2 DEF Bijection, Injection, Surjection, IsInjective
<1>5. \A k \in D : MergedOf({t})[b[k]] = file[t][k]
  <2>1. \A k \in D : b[k] = <<t, k>> /\ b[k] \in LinesIn({t})
    BY <1>3
  <2> QED BY <2>1 DEF MergedOf
<1> HIDE DEF b
<1>6. CountIn(file[t], D, x) = CountIn(MergedOf({t}), LinesIn({t}), x)
  <2> DEFINE s == file[t]
             u == MergedOf({t})
             B == LinesIn({t})
  <2>1. IsFiniteSet(D) /\ b \in Bijection(D, B) /\ \A k \in D : u[b[k]] = s[k]
    BY <1>1, <1>4, <1>5
  <2> HIDE DEF s, u, B
  <2>2. CountIn(s, D, x) = CountIn(u, B, x)
    BY <2>1, CountMoved
  <2> QED BY <2>2 DEF s, u, B
<1>7. Occurrences(MergedOf({t}), x) = CountIn(MergedOf({t}), LinesIn({t}), x)
  <2>1. {t} \in SUBSET (0..NUM_OF_THREADS) /\ \A u \in {t} : file[u] \in Seq(Int)
    OBVIOUS
  <2> QED BY <2>1, MergedCount
<1> QED BY <1>2, <1>6, <1>7

(* One more file is done.                                                  *)
LEMMA MergedMore ==
  ASSUME NEW T \in SUBSET (0..NUM_OF_THREADS),
         NEW t \in (0..NUM_OF_THREADS) \ T,
         \A u \in T \cup {t} : file[u] \in Seq(Int), NEW x
  PROVE  Occurrences(MergedOf(T \cup {t}), x)
           = Occurrences(MergedOf(T), x) + Occurrences(file[t], x)
<1> DEFINE U == T \cup {t}
           A == LinesIn(T)
           B == LinesIn({t})
           D == LinesIn(U)
<1>1. /\ U \in SUBSET (0..NUM_OF_THREADS) /\ {t} \in SUBSET (0..NUM_OF_THREADS)
      /\ \A u \in U : file[u] \in Seq(Int)
      /\ \A u \in T : file[u] \in Seq(Int)
      /\ \A u \in {t} : file[u] \in Seq(Int)
  OBVIOUS
<1>2. IsFiniteSet(A) /\ IsFiniteSet(B)
  BY <1>1, LinesFinite
<1>3. D = A \cup B
  BY DEF LinesIn
<1>4. A \cap B = {}
  <2> SUFFICES ASSUME NEW l \in A, l \in B PROVE FALSE
    OBVIOUS
  <2>1. l[1] \in T
    BY DEF LinesIn
  <2>2. l[1] = t
    BY DEF LinesIn
  <2> QED BY <2>1, <2>2
<1>5. /\ \A l \in A : MergedOf(U)[l] = MergedOf(T)[l]
      /\ \A l \in B : MergedOf(U)[l] = MergedOf({t})[l]
  BY <1>3 DEF MergedOf
<1>6. /\ Occurrences(MergedOf(U), x) = CountIn(MergedOf(U), D, x)
      /\ Occurrences(MergedOf(T), x) = CountIn(MergedOf(T), A, x)
      /\ Occurrences(MergedOf({t}), x) = CountIn(MergedOf({t}), B, x)
  <2> HIDE DEF U
  <2> QED BY <1>1, MergedCount
<1>7. Occurrences(MergedOf({t}), x) = Occurrences(file[t], x)
  BY <1>1, MergedOne
<1> HIDE DEF A, B, D, U
<1>8. CountIn(MergedOf(U), D, x)
        = CountIn(MergedOf(U), A, x) + CountIn(MergedOf(U), B, x)
  BY <1>2, <1>3, <1>4, CountSplit
<1>9. /\ CountIn(MergedOf(U), A, x) = CountIn(MergedOf(T), A, x)
      /\ CountIn(MergedOf(U), B, x) = CountIn(MergedOf({t}), B, x)
  <2> DEFINE all  == MergedOf(U)
             old  == MergedOf(T)
             more == MergedOf({t})
  <2>1. (\A l \in A : all[l] = old[l]) /\ (\A l \in B : all[l] = more[l])
    BY <1>5
  <2> HIDE DEF all, old, more
  <2>2. /\ CountIn(all, A, x) = CountIn(old, A, x)
        /\ CountIn(all, B, x) = CountIn(more, B, x)
    BY <2>1, CountSame
  <2> QED BY <2>2 DEF all, old, more
<1> QED BY <1>6, <1>7, <1>8, <1>9 DEF U

LEMMA MergedIs == Merged = MergedOf({0} \cup Done)
BY DEF Merged, MergedOf, LinesIn

-------------------------------------------------------------------------------
(* One node is taken out: the list goes on without it.                     *)
LEMMA LastIsOnly ==
  ASSUME TypeOK, NEW p \in Seq(1..Len(val)), Chain(p), NEW i \in 1..Len(p)
  PROVE  Last(p[i]) <=> Len(p) = 1
<1>1. /\ Len(p) \in Nat /\ i \in Int
      /\ \A k \in 1..Len(p) : p[k] # NULL
      /\ prev[p[i]] = IF i = 1 THEN NULL ELSE p[i - 1]
      /\ next[p[i]] = IF i = Len(p) THEN NULL ELSE p[i + 1]
  BY ChainFacts DEF Chain
<1>2. /\ i # 1 => i - 1 \in 1..Len(p)
      /\ i # Len(p) => i + 1 \in 1..Len(p)
  BY <1>1
<1>3. prev[p[i]] = NULL <=> i = 1
  BY <1>1, <1>2
<1>4. next[p[i]] = NULL <=> i = Len(p)
  BY <1>1, <1>2
<1>5. i = 1 /\ i = Len(p) <=> Len(p) = 1
  <2> DEFINE n == Len(p)
  <2>1. i \in Int /\ n \in Int /\ 1 <= i /\ i <= n
    BY <1>1
  <2> HIDE DEF n
  <2>2. i = 1 /\ i = n <=> n = 1
    BY <2>1
  <2> QED BY <2>2 DEF n
<1> QED BY <1>3, <1>4, <1>5 DEF Last

LEMMA PointersWithout ==
  ASSUME TypeOK, NEW p \in Seq(1..Len(val)), Chain(p), NEW i \in 1..Len(p),
         Remove(p[i])
  PROVE  \A k \in 1..Len(p) :
           /\ next'[p[k]] = IF k = i - 1 THEN next[p[i]] ELSE next[p[k]]
           /\ prev'[p[k]] = IF k = i + 1 THEN prev[p[i]] ELSE prev[p[k]]
<1> SUFFICES ASSUME NEW k \in 1..Len(p)
             PROVE  /\ next'[p[k]] = IF k = i - 1 THEN next[p[i]] ELSE next[p[k]]
                    /\ prev'[p[k]] = IF k = i + 1 THEN prev[p[i]] ELSE prev[p[k]]
  OBVIOUS
<1>1. /\ Len(p) \in Nat /\ i \in 1..Len(p) /\ k \in 1..Len(p) /\ p[i] # NULL
      /\ p[k] \in 1..Len(val)
      /\ \A j, l \in 1..Len(p) : p[j] = p[l] => j = l
      /\ \A j \in 1..Len(p) : p[j] # NULL
  BY ChainFacts
<1>2. p[k] \in DOMAIN next /\ p[k] \in DOMAIN prev
  BY <1>1 DEF TypeOK
<1>3. /\ prev[p[i]] = IF i = 1 THEN NULL ELSE p[i - 1]
      /\ next[p[i]] = IF i = Len(p) THEN NULL ELSE p[i + 1]
  BY DEF Chain
<1>4. next'[p[k]] = IF k = i - 1 THEN next[p[i]] ELSE next[p[k]]
  <2>1. CASE i = 1
    <3>1. next' = next /\ k # i - 1
      BY <2>1, <1>1, <1>3 DEF Remove
    <3> QED BY <3>1
  <2>2. CASE i # 1
    <3>1. i - 1 \in 1..Len(p)
      BY <2>2, <1>1
    <3>2. next' = [next EXCEPT ![p[i - 1]] = next[p[i]]]
      BY <2>2, <3>1, <1>1, <1>3 DEF Remove
    <3>3. p[k] = p[i - 1] <=> k = i - 1
      BY <3>1, <1>1
    <3> QED BY <3>2, <3>3, <1>2
  <2> QED BY <2>1, <2>2
<1>5. prev'[p[k]] = IF k = i + 1 THEN prev[p[i]] ELSE prev[p[k]]
  <2>1. CASE i = Len(p)
    <3>1. prev' = prev /\ k # i + 1
      BY <2>1, <1>1, <1>3 DEF Remove, PrevOf
    <3> QED BY <3>1
  <2>2. CASE i # Len(p)
    <3>1. i + 1 \in 1..Len(p)
      BY <2>2, <1>1
    <3>2. prev' = [prev EXCEPT ![p[i + 1]] = prev[p[i]]]
      BY <2>2, <3>1, <1>1, <1>3 DEF Remove, PrevOf
    <3>3. p[k] = p[i + 1] <=> k = i + 1
      BY <3>1, <1>1
    <3> QED BY <3>2, <3>3, <1>2
  <2> QED BY <2>1, <2>2
<1> QED BY <1>4, <1>5

LEMMA RemoveKeepsChain ==
  ASSUME TypeOK, NEW p \in Seq(1..Len(val)), Chain(p), NEW i \in 1..Len(p),
         Len(p) # 1, Remove(p[i]), val' = val
  PROVE  Chain(Without(p, i))'
<1> DEFINE q == Without(p, i)
           n == Len(p)
<1>1. /\ n \in Nat /\ n >= 2 /\ n - 1 \in Nat /\ i \in 1..n
      /\ \A k \in 1..n : p[k] \in 1..Len(val) /\ p[k] \in Int /\ p[k] # NULL
  <2>1. Len(val) \in Nat /\ n \in 1..Len(val) /\ n # 1
    BY ChainFacts
  <2>2. \A k \in 1..n : p[k] \in 1..Len(val) /\ p[k] # NULL
    BY ChainFacts
  <2> HIDE DEF n
  <2>3. n \in Nat /\ n >= 2 /\ n - 1 \in Nat
    BY <2>1
  <2>4. i \in 1..n
    BY DEF n
  <2>5. \A k \in 1..n : p[k] \in Int
    BY <2>1, <2>2
  <2> QED BY <2>2, <2>3, <2>4, <2>5
<1>2. /\ q \in Seq(1..Len(val)) /\ Len(q) = n - 1
      /\ \A k \in 1..(n - 1) : q[k] = IF k < i THEN p[k] ELSE p[k + 1]
  BY WithoutSeq
<1>3. \A k \in 1..n :
        /\ next'[p[k]] = IF k = i - 1 THEN next[p[i]] ELSE next[p[k]]
        /\ prev'[p[k]] = IF k = i + 1 THEN prev[p[i]] ELSE prev[p[k]]
  BY PointersWithout
<1>4. /\ head = p[1]
      /\ \A k \in 1..n :
           /\ prev[p[k]] = IF k = 1 THEN NULL ELSE p[k - 1]
           /\ next[p[k]] = IF k = n THEN NULL ELSE p[k + 1]
           /\ k <= p[k]
           /\ \A j \in 1..n : j < k => p[j] < p[k]
  BY DEF Chain
<1> HIDE DEF q, n
<1>5. head' = q[1]
  <2>1. 1 \in 1..(n - 1) /\ 1 \in 1..n
    BY <1>1
  <2>2. CASE i = 1
    <3>1. prev[p[i]] = NULL /\ next[p[i]] = p[2]
      BY <2>1, <2>2, <1>1, <1>4
    <3>2. q[1] = p[2]
      BY <2>1, <2>2, <1>2
    <3> QED BY <3>1, <3>2 DEF Remove
  <2>3. CASE i # 1
    <3>1. i - 1 \in 1..n /\ prev[p[i]] = p[i - 1]
      BY <2>3, <1>1, <1>4
    <3>2. prev[p[i]] # NULL /\ q[1] = p[1]
      BY <2>1, <2>3, <3>1, <1>1, <1>2
    <3> QED BY <3>2, <1>4 DEF Remove
  <2> QED BY <2>2, <2>3
<1> DEFINE Next1(k) == IF k = i - 1 THEN IF i = n THEN NULL ELSE p[i + 1]
                       ELSE IF k = n THEN NULL ELSE p[k + 1]
           Prev1(k) == IF k = i + 1 THEN IF i = 1 THEN NULL ELSE p[i - 1]
                       ELSE IF k = 1 THEN NULL ELSE p[k - 1]
<1>6. \A k \in 1..n : next'[p[k]] = Next1(k) /\ prev'[p[k]] = Prev1(k)
  BY <1>1, <1>3, <1>4
<1>7. ASSUME NEW k \in 1..(n - 1)
      PROVE  /\ next'[q[k]] = IF k = n - 1 THEN NULL ELSE q[k + 1]
             /\ prev'[q[k]] = IF k = 1 THEN NULL ELSE q[k - 1]
  <2>1. /\ k \in Int /\ i \in Int /\ n \in Int /\ i >= 1 /\ i <= n
        /\ k \in 1..n /\ k + 1 \in 1..n
        /\ k # n - 1 => k + 1 \in 1..(n - 1)
        /\ k # 1 => k - 1 \in 1..(n - 1)
    BY <1>1
  <2>2. k # n - 1 => q[k + 1] = IF k + 1 < i THEN p[k + 1] ELSE p[(k + 1) + 1]
    BY <2>1, <1>2
  <2>3. k # 1 => q[k - 1] = IF k - 1 < i THEN p[k - 1] ELSE p[(k - 1) + 1]
    BY <2>1, <1>2
  <2>4. CASE k < i
    <3>1. q[k] = p[k] /\ next'[p[k]] = Next1(k) /\ prev'[p[k]] = Prev1(k)
      BY <2>1, <2>4, <1>2, <1>6
    <3>2. Next1(k) = IF k = n - 1 THEN NULL ELSE q[k + 1]
      <4>1. CASE k = i - 1
        <5>1. (k = n - 1 <=> i = n) /\ ~(k + 1 < i) /\ (k + 1) + 1 = i + 1
          BY <2>1, <4>1
        <5>2. k # n - 1 => q[k + 1] = p[i + 1]
          BY <2>2, <5>1
        <5> QED BY <4>1, <5>1, <5>2
      <4>2. CASE k # i - 1
        <5>1. k # n - 1 /\ k # n /\ k + 1 < i
          BY <2>1, <2>4, <4>2
        <5>2. q[k + 1] = p[k + 1]
          BY <2>2, <5>1
        <5> QED BY <4>2, <5>1, <5>2
      <4> QED BY <4>1, <4>2
    <3>3. Prev1(k) = IF k = 1 THEN NULL ELSE q[k - 1]
      BY <2>1, <2>3, <2>4
    <3> QED BY <3>1, <3>2, <3>3
  <2>5. CASE k >= i
    <3>1. q[k] = p[k + 1]
          /\ next'[p[k + 1]] = Next1(k + 1) /\ prev'[p[k + 1]] = Prev1(k + 1)
      <4>1. q[k] = p[k + 1]
        <5>1. q[k] = IF k < i THEN p[k] ELSE p[k + 1]
          BY <1>2
        <5>2. ~(k < i)
          BY <2>1, <2>5
        <5> QED BY <5>1, <5>2
      <4> HIDE DEF Next1, Prev1
      <4> QED BY <2>1, <4>1, <1>6
    <3>2. Next1(k + 1) = IF k = n - 1 THEN NULL ELSE q[k + 1]
      BY <2>1, <2>2, <2>5
    <3>3. Prev1(k + 1) = IF k = 1 THEN NULL ELSE q[k - 1]
      <4>1. (k + 1) - 1 = k /\ (k - 1) + 1 = k
        BY <2>1
      <4> QED BY <2>1, <2>3, <2>5, <4>1
    <3> HIDE DEF Next1, Prev1
    <3> QED BY <3>1, <3>2, <3>3
  <2> QED BY <2>1, <2>4, <2>5
<1>8. ASSUME NEW k \in 1..(n - 1)
      PROVE  k <= q[k] /\ \A j \in 1..(n - 1) : j < k => q[j] < q[k]
  <2>1. k \in 1..n /\ k + 1 \in 1..n
    BY <1>1
  <2>2. k <= q[k]
    <3>1. /\ k <= p[k] /\ k + 1 <= p[k + 1]
          /\ p[k] \in Int /\ p[k + 1] \in Int /\ k \in Int
      BY <2>1, <1>1, <1>4
    <3>2. q[k] = p[k] \/ q[k] = p[k + 1]
      BY <1>2
    <3> QED BY <3>1, <3>2
  <2>3. ASSUME NEW j \in 1..(n - 1), j < k
        PROVE  q[j] < q[k]
    <3>1. j \in 1..n /\ j + 1 \in 1..n
      BY <1>1
    <3>2. /\ p[j] < p[k] /\ p[j + 1] < p[k + 1] /\ p[j] < p[k + 1]
          /\ q[j] = IF j < i THEN p[j] ELSE p[j + 1]
          /\ q[k] = IF k < i THEN p[k] ELSE p[k + 1]
      BY <2>1, <2>3, <3>1, <1>2, <1>4
    <3> QED BY <2>3, <3>2, <1>1
  <2> QED BY <2>2, <2>3
<1>9. q # <<>> /\ q \in Seq(1..Len(val'))
  BY <1>1, <1>2
<1> QED BY <1>2, <1>5, <1>7, <1>8, <1>9 DEF Chain, q

-------------------------------------------------------------------------------
(* The files a thread that is at work, or done, has read are no longer     *)
(* missing, so that they have been counted.                                *)
LEMMA FilesRead ==
  ASSUME Core
  PROVE  /\ file[0] # Missing => file[0] \in Seq(Int)
         /\ \A t \in Threads : pc[t] # "start" => file[t] \in Seq(Int)
         /\ Inside \cup Done # {} => file[0] \in Seq(Int)
<1>1. \A t \in 0..NUM_OF_THREADS : file[t] # Missing => file[t] \in Seq(Int)
  BY LinesAssumption DEF Core
<1>2. 0 \in 0..NUM_OF_THREADS /\ Threads \subseteq 0..NUM_OF_THREADS
  BY ThreadsAssumption DEF Threads
<1> QED BY <1>1, <1>2 DEF Core, Turns

LEMMA MergedRead ==
  ASSUME Core, file[0] \in Seq(Int)
  PROVE  /\ ValuesOf(Merged) \subseteq Int
         /\ \A x : Occurrences(Merged, x) \in Nat
         /\ \A t \in Threads \ Done, x \in Int : file[t] \in Seq(Int) =>
              Occurrences(MergedOf({0} \cup Done \cup {t}), x)
                = Occurrences(Merged, x) + Occurrences(file[t], x)
         /\ \A t \in Threads \ Done : file[t] \in Seq(Int) =>
              ValuesOf(MergedOf({0} \cup Done \cup {t})) \subseteq Int
<1> DEFINE T == {0} \cup Done
<1>1. /\ T \in SUBSET (0..NUM_OF_THREADS) /\ Threads \subseteq 0..NUM_OF_THREADS
      /\ 0 \notin Threads
  BY ThreadsAssumption DEF Threads, Done
<1>2. \A u \in T : file[u] \in Seq(Int)
  BY FilesRead DEF Done
<1>3. ASSUME NEW t \in Threads \ Done
      PROVE  t \in (0..NUM_OF_THREADS) \ T
             /\ T \cup {t} \in SUBSET (0..NUM_OF_THREADS)
  BY <1>1
<1> HIDE DEF T
<1>4. /\ ValuesOf(MergedOf(T)) \subseteq Int
      /\ \A x : Occurrences(MergedOf(T), x) \in Nat
  BY <1>1, <1>2, MergedCount
<1>5. ASSUME NEW t \in Threads \ Done, file[t] \in Seq(Int)
      PROVE  /\ \A x \in Int : Occurrences(MergedOf(T \cup {t}), x)
                  = Occurrences(MergedOf(T), x) + Occurrences(file[t], x)
             /\ ValuesOf(MergedOf(T \cup {t})) \subseteq Int
  <2>1. \A u \in T \cup {t} : file[u] \in Seq(Int)
    BY <1>2, <1>5
  <2>2. ASSUME NEW x \in Int
        PROVE  Occurrences(MergedOf(T \cup {t}), x)
                 = Occurrences(MergedOf(T), x) + Occurrences(file[t], x)
    BY <1>1, <1>3, <2>1, MergedMore
  <2>3. ValuesOf(MergedOf(T \cup {t})) \subseteq Int
    <3> DEFINE U == T \cup {t}
    <3>1. U \in SUBSET (0..NUM_OF_THREADS) /\ \A u \in U : file[u] \in Seq(Int)
      BY <1>3, <2>1
    <3> HIDE DEF U
    <3>2. ValuesOf(MergedOf(U)) \subseteq Int
      BY <3>1, MergedCount
    <3> QED BY <3>2 DEF U
  <2> QED BY <2>2, <2>3
<1> QED BY <1>4, <1>5, MergedIs DEF T

(* Nobody but the thread inside touches the list and the stream.           *)
LEMMA QuietCore ==
  ASSUME Core, TypeOK', UNCHANGED <<file, list, out>>,
         \A t \in Threads :
           \/ pc'[t] = pc[t]
           \/ pc[t] = "start" /\ pc'[t] = "lock" /\ file[t] # Missing,
         datafile' = datafile \/ Inside # {}
  PROVE  Core'
<1>1. Inside' = Inside /\ Done' = Done
  BY DEF Inside, Done
<1>2. /\ val' = val /\ next' = next /\ prev' = prev /\ head' = head
      /\ out' = out /\ file' = file
  BY DEF list
<1>3. Merged' = Merged
  BY <1>1, <1>2 DEF Merged
<1>4. Turns'
  BY <1>1, <1>2 DEF Turns, Core
<1>5. Whole'
  BY <1>1, <1>2, <1>3 DEF Whole, Core
<1>6. ASSUME NEW t \in Threads
      PROVE  /\ pc'[t] = "write" => Writing(t)'
             /\ pc'[t] = "close" => Closing(t)'
  <2>1. ASSUME pc'[t] = "write" PROVE Writing(t)'
    <3>1. Writing(t)
      BY <2>1 DEF Core
    <3>2. PICK p \in Seq(1..Len(val)) : Taking(p)
      BY <3>1 DEF Writing
    <3>3. NumbersOf(p)' = NumbersOf(p)
      BY <1>2 DEF NumbersOf
    <3>4. Chain(p)'
      BY <3>2, <1>2 DEF Taking, Chain
    <3>5. MadeOf(val, out, NumbersOf(p))'
      BY <3>2, <3>3, <1>2 DEF Taking, MadeOf
    <3>6. Taking(p)'
      BY <3>2, <3>4, <3>5, <1>2 DEF Taking
    <3>7. MadeOf(val, Merged, file[t])'
      BY <3>1, <1>2, <1>3 DEF Writing, MadeOf
    <3>8. p \in Seq(1..Len(val'))
      BY <1>2
    <3> QED BY <3>6, <3>7, <3>8 DEF Writing
  <2>2. ASSUME pc'[t] = "close" PROVE Closing(t)'
    <3>1. Closing(t)
      BY <2>2 DEF Core
    <3> QED BY <3>1, <1>2, <1>3 DEF Closing, MadeOf
  <2> QED BY <2>1, <2>2
<1>7. \A t \in 0..NUM_OF_THREADS : file'[t] \in Lines(t)
  BY <1>2 DEF Core
<1> QED BY <1>4, <1>5, <1>6, <1>7 DEF Core

(* The list is put together.                                               *)
LEMMA OpenCore ==
  ASSUME Core, TypeOK', NEW t \in Threads, Ready(t),
         datafile # Missing, ~Empty(file[t]), ~Empty(datafile),
         val' = Spliced(datafile, file[t]),
         next' = [k \in 1..Len(val') |-> IF k < Len(val') THEN k + 1 ELSE NULL],
         prev' = [k \in 1..Len(val') |-> k - 1],
         head' = 1, out' = <<>>, file' = file,
         pc' = [pc EXCEPT ![t] = "write"]
  PROVE  Core'
<1>1. pc \in [Threads -> {"start", "lock", "write", "close", "done"}]
  BY DEF Core, TypeOK
<1>2. Inside' = {t} /\ Done' = Done /\ Inside = {} /\ t \notin Done
  BY <1>1 DEF Ready, Inside, Done
<1>3. file[0] # Missing
  BY <1>2 DEF Core, Turns
<1>4. file[0] \in Seq(Int) /\ file[t] \in Seq(Int)
  BY <1>3, FilesRead DEF Ready
<1>5. datafile \in Seq(Int) /\ SameNumbers(datafile, Merged)
  BY <1>2, <1>3 DEF Core, Whole
<1>6. Merged' = Merged
  BY <1>2 DEF Merged
<1> DEFINE n == Len(val')
<1>7. val' \in Seq(Int) /\ n \in Nat /\ n >= 1
  BY <1>4, <1>5 DEF Spliced, Empty
<1>8. MadeOf(val, Merged, file[t])'
  <2> SUFFICES ASSUME NEW x \in Int
               PROVE  Occurrences(val', x)
                        = Occurrences(Merged, x) + Occurrences(file[t], x)
    BY <1>6 DEF MadeOf
  <2>1. Occurrences(val', x)
          = Occurrences(datafile, x) + Occurrences(file[t], x)
    BY <1>4, <1>5, CountConcat DEF Spliced
  <2>2. ValuesOf(Merged) \subseteq Int /\ ValuesOf(datafile) \subseteq Int
    BY <1>4, <1>5, MergedRead, SeqValues
  <2>3. Occurrences(datafile, x) = Occurrences(Merged, x)
    BY <1>5, <2>2, SameNumbersCounted
  <2> QED BY <2>1, <2>3
<1>9. PICK p \in Seq(1..n) : Len(p) = n /\ p # <<>> /\ \A k \in 1..n : p[k] = k
  <2> DEFINE q == [k \in 1..n |-> k]
  <2>1. q \in Seq(1..n) /\ Len(q) = n /\ q # <<>> /\ \A k \in 1..n : q[k] = k
    BY <1>7
  <2> QED BY <2>1
<1>10. NumbersOf(p)' = val'
  <2>1. \A k \in 1..n : val'[p[k]] = val'[k]
    BY <1>9
  <2>2. val' = [k \in 1..n |-> val'[k]]
    BY <1>7, SeqIsFunction
  <2> QED BY <1>9, <2>1, <2>2 DEF NumbersOf
<1>11. Chain(p)'
  <2> HIDE DEF n
  <2>1. ASSUME NEW k \in 1..n
        PROVE  /\ prev'[p[k]] = IF k = 1 THEN NULL ELSE p[k - 1]
               /\ next'[p[k]] = IF k = n THEN NULL ELSE p[k + 1]
               /\ k <= p[k]
               /\ \A j \in 1..n : j < k => p[j] < p[k]
    <3>1. k \in Int /\ n \in Int /\ k >= 1 /\ k <= n /\ p[k] = k
      BY <1>7, <1>9
    <3>2. prev'[k] = k - 1 /\ next'[k] = IF k < n THEN k + 1 ELSE NULL
      BY DEF n
    <3>3. (k # 1 => p[k - 1] = k - 1) /\ (k # n => p[k + 1] = k + 1)
      BY <1>9, <3>1
    <3>4. \A j \in 1..n : p[j] = j
      BY <1>9
    <3> QED BY <3>1, <3>2, <3>3, <3>4 DEF NULL
  <2>2. p[1] = 1
    BY <1>7, <1>9
  <2>3. p \in Seq(1..Len(val')) /\ Len(p) = n /\ p # <<>>
    BY <1>9 DEF n
  <2> QED BY <2>1, <2>2, <2>3 DEF Chain
<1>12. MadeOf(val, out, NumbersOf(p))'
  <2> SUFFICES ASSUME NEW x \in Int
               PROVE  Occurrences(val', x)
                        = Occurrences(out', x) + Occurrences(val', x)
    BY <1>10 DEF MadeOf
  <2>1. Occurrences(out', x) = 0
    BY OccursNowhere DEF ValuesOf
  <2>2. Occurrences(val', x) \in Nat
    BY <1>7, SeqCount
  <2> QED BY <2>1, <2>2
<1>13. Taking(p)'
  <2>1. Ascending(out)'
    BY DEF Ascending
  <2>2. \A j \in 1..Len(out'), k \in 1..Len(p) : out'[j] <= val'[p[k]]
    OBVIOUS
  <2> QED BY <1>11, <1>12, <2>1, <2>2 DEF Taking
<1>14. Writing(t)'
  BY <1>8, <1>9, <1>13 DEF Writing
<1>15. \A u \in Threads : u # t => pc'[u] = pc[u] /\ u \notin Inside
  BY <1>1, <1>2
<1>16. \A u \in Threads : /\ pc'[u] = "write" => Writing(u)'
                          /\ pc'[u] = "close" => Closing(u)'
  <2> SUFFICES ASSUME NEW u \in Threads
               PROVE  /\ pc'[u] = "write" => Writing(u)'
                      /\ pc'[u] = "close" => Closing(u)'
    OBVIOUS
  <2>1. CASE u = t
    BY <2>1, <1>1, <1>14
  <2>2. CASE u # t
    BY <2>2, <1>15 DEF Inside
  <2> QED BY <2>1, <2>2
<1>17. Turns'
  <2>1. \A u \in Threads : pc'[u] # "start" => file[u] # Missing
    BY <1>1 DEF Core, Turns, Ready
  <2> QED BY <1>2, <1>3, <2>1 DEF Turns
<1>18. Whole'
  BY <1>2 DEF Whole
<1>19. \A u \in 0..NUM_OF_THREADS : file'[u] \in Lines(u)
  BY DEF Core
<1> QED BY <1>16, <1>17, <1>18, <1>19 DEF Core

(* The least number goes from the list to the stream: this is where both   *)
(* change, and what both together hold stays.                              *)
LEMMA AscendingAppend ==
  ASSUME NEW s \in Seq(Int), Ascending(s), NEW e \in Int,
         \A j \in 1..Len(s) : s[j] <= e
  PROVE  /\ Ascending(Append(s, e)) /\ Append(s, e) # <<>>
         /\ Len(Append(s, e)) = Len(s) + 1 /\ Len(s) \in Nat
         /\ Append(s, e)[Len(s) + 1] = e
         /\ \A j \in 1..Len(s) : Append(s, e)[j] = s[j]
<1> DEFINE t == Append(s, e)
<1>1. /\ t \in Seq(Int) /\ Len(s) \in Nat /\ Len(t) = Len(s) + 1
      /\ t[Len(s) + 1] = e /\ \A j \in 1..Len(s) : t[j] = s[j] /\ s[j] \in Int
  OBVIOUS
<1>2. \A j, k \in 1..Len(s) : j < k => s[j] <= s[k]
  BY DEF Ascending
<1> HIDE DEF t
<1>3. t # <<>> /\ DOMAIN t = 1..(Len(s) + 1)
  BY <1>1
<1>4. ASSUME NEW j \in 1..(Len(s) + 1), NEW k \in 1..(Len(s) + 1), j < k
      PROVE  t[j] <= t[k]
  <2>1. j \in 1..Len(s)
    BY <1>1, <1>4
  <2>2. CASE k \in 1..Len(s)
    BY <1>1, <1>2, <1>4, <2>1, <2>2
  <2>3. CASE k = Len(s) + 1
    BY <1>1, <2>1, <2>3
  <2> QED BY <1>1, <2>2, <2>3
<1>5. Ascending(t)
  BY <1>3, <1>4 DEF Ascending
<1> QED BY <1>1, <1>3, <1>5 DEF t

LEMMA NumbersSeq ==
  ASSUME TypeOK, NEW p \in Seq(1..Len(val)), Chain(p)
  PROVE  /\ NumbersOf(p) \in Seq(Int) /\ Len(NumbersOf(p)) = Len(p)
         /\ \A k \in 1..Len(p) : NumbersOf(p)[k] = val[p[k]]
<1>1. Len(p) \in Nat /\ \A k \in 1..Len(p) : val[p[k]] \in Int
  <2>1. Len(p) \in Nat
    OBVIOUS
  <2> QED BY <2>1, ChainFacts
<1> QED BY <1>1 DEF NumbersOf

LEMMA TakeLeast ==
  ASSUME TypeOK, NEW p \in Seq(1..Len(val)), Taking(p), NEW i \in 1..Len(p),
         \A j \in 1..Len(p) : val[p[i]] <= val[p[j]],
         out' = Append(out, val[p[i]])
  PROVE  /\ Ascending(out') /\ out' # <<>>
         /\ \A j \in 1..Len(out'), k \in 1..Len(p) : out'[j] <= val[p[k]]
         /\ \A x \in Int :
              Occurrences(val, x)
                = Occurrences(out', x) + Occurrences(Without(NumbersOf(p), i), x)
         /\ Len(Without(NumbersOf(p), i)) = Len(p) - 1
         /\ \A k \in 1..(Len(p) - 1) :
              Without(NumbersOf(p), i)[k] = val[Without(p, i)[k]]
<1> DEFINE e == val[p[i]]
           s == NumbersOf(p)
<1>1. /\ out \in Seq(Int) /\ Ascending(out) /\ Chain(p)
      /\ \A j \in 1..Len(out), k \in 1..Len(p) : out[j] <= val[p[k]]
  BY DEF TypeOK, Taking
<1>2. /\ \A k \in 1..Len(p) : val[p[k]] \in Int
      /\ Len(p) \in Nat
  BY <1>1, ChainFacts
<1>3. e \in Int
  BY <1>2
<1>4. s \in Seq(Int) /\ Len(s) = Len(p) /\ \A k \in 1..Len(p) : s[k] = val[p[k]]
  BY <1>1, NumbersSeq
<1> HIDE DEF e, s
<1>5. /\ Ascending(out') /\ out' # <<>> /\ Len(out') = Len(out) + 1
      /\ Len(out) \in Nat
      /\ out'[Len(out) + 1] = e
      /\ \A j \in 1..Len(out) : out'[j] = out[j]
  <2>1. out' = Append(out, e) /\ \A j \in 1..Len(out) : out[j] <= e
    BY <1>1 DEF e
  <2> DEFINE t == Append(out, e)
  <2>2. /\ Ascending(t) /\ t # <<>> /\ Len(t) = Len(out) + 1
        /\ Len(out) \in Nat /\ t[Len(out) + 1] = e
        /\ \A j \in 1..Len(out) : t[j] = out[j]
    <3>1. Ascending(t)
      BY <1>1, <1>3, <2>1, AscendingAppend
    <3> QED BY <1>1, <1>3, <3>1
  <2> HIDE DEF t
  <2>3. out' = t
    BY <2>1 DEF t
  <2> QED BY <2>2, <2>3
<1>6. ASSUME NEW j \in 1..Len(out'), NEW k \in 1..Len(p)
      PROVE  out'[j] <= val[p[k]]
  <2>1. CASE j \in 1..Len(out)
    BY <1>1, <1>5, <2>1
  <2>2. CASE j = Len(out) + 1
    BY <1>5, <2>2 DEF e
  <2> QED BY <1>5, <2>1, <2>2
<1>7. ASSUME NEW x \in Int
      PROVE  Occurrences(val, x)
               = Occurrences(out', x) + Occurrences(Without(s, i), x)
  <2>1. Occurrences(val, x) = Occurrences(out, x) + Occurrences(s, x)
    BY DEF Taking, MadeOf, s
  <2>2. Occurrences(out', x) = Occurrences(out, x) + IF e = x THEN 1 ELSE 0
    BY <1>1, <1>3, CountAppend DEF e
  <2>3. Occurrences(s, x)
          = Occurrences(Without(s, i), x) + IF e = x THEN 1 ELSE 0
    <3>1. i \in 1..Len(s) /\ s[i] = e
      BY <1>4 DEF e
    <3> QED BY <1>4, <3>1, CountWithout
  <2>4. Occurrences(out, x) \in Nat /\ Occurrences(Without(s, i), x) \in Nat
    <3>1. i \in 1..Len(s)
      BY <1>4
    <3>2. Without(s, i) \in Seq(Int)
      BY <1>4, <3>1, WithoutSeq
    <3> QED BY <1>1, <3>2, SeqCount
  <2> QED BY <2>1, <2>2, <2>3, <2>4
<1>8. /\ Len(Without(s, i)) = Len(p) - 1
      /\ \A k \in 1..(Len(p) - 1) :
           Without(s, i)[k] = IF k < i THEN s[k] ELSE s[k + 1]
  BY <1>4, WithoutSeq
<1>9. ASSUME NEW k \in 1..(Len(p) - 1)
      PROVE  Without(s, i)[k] = val[Without(p, i)[k]]
  <2>1. k \in 1..Len(p) /\ k + 1 \in 1..Len(p)
    BY <1>2
  <2>2. Without(p, i)[k] = IF k < i THEN p[k] ELSE p[k + 1]
    BY WithoutSeq
  <2>3. Without(s, i)[k] = IF k < i THEN s[k] ELSE s[k + 1]
    BY <1>8
  <2> QED BY <1>4, <2>1, <2>2, <2>3
<1> QED BY <1>5, <1>6, <1>7, <1>8, <1>9 DEF s

LEMMA WriteCore ==
  ASSUME Core, TypeOK', NEW t \in Threads, WriteMin(t)
  PROVE  Core'
<1>1. pc \in [Threads -> {"start", "lock", "write", "close", "done"}] /\ TypeOK
  BY DEF Core, TypeOK
<1>2. pc[t] = "write" /\ file' = file
  BY DEF WriteMin
<1>3. PICK p \in Seq(1..Len(val)) : Taking(p)
  BY <1>2 DEF Core, Writing
<1>4. PICK i \in 1..Len(p) :
        /\ min_node = p[i]
        /\ \A j \in 1..Len(p) : val[p[i]] <= val[p[j]]
  BY <1>1, <1>3, MinNode DEF Taking
<1>5. /\ out' = Append(out, val[p[i]])
      /\ \/ /\ Last(p[i]) /\ pc' = [pc EXCEPT ![t] = "close"]
            /\ UNCHANGED list
         \/ ~Last(p[i]) /\ Remove(p[i]) /\ val' = val /\ pc' = pc
  BY <1>4 DEF WriteMin
<1> DEFINE rest == Without(NumbersOf(p), i)
<1>6. /\ Ascending(out') /\ out' # <<>>
      /\ \A j \in 1..Len(out'), k \in 1..Len(p) : out'[j] <= val[p[k]]
      /\ \A x \in Int : Occurrences(val, x)
                          = Occurrences(out', x) + Occurrences(rest, x)
      /\ Len(rest) = Len(p) - 1
      /\ \A k \in 1..(Len(p) - 1) : rest[k] = val[Without(p, i)[k]]
  BY <1>1, <1>3, <1>4, <1>5, TakeLeast
<1>7. MadeOf(val, Merged, file[t])
  BY <1>2 DEF Core, Writing
<1>8. Len(p) \in Nat /\ (Last(p[i]) <=> Len(p) = 1) /\ Chain(p)
  BY <1>1, <1>3, LastIsOnly DEF Taking
<1>9. Inside' = Inside /\ Done' = Done
  BY <1>1, <1>2, <1>5 DEF Inside, Done
<1>10. Merged' = Merged
  BY <1>2, <1>9 DEF Merged
<1>11. rest \in Seq(Int)
  <2>1. NumbersOf(p) \in Seq(Int) /\ i \in 1..Len(NumbersOf(p))
    BY <1>1, <1>8, NumbersSeq
  <2> QED BY <2>1, WithoutSeq
<1> HIDE DEF rest
<1>12. ASSUME pc'[t] = "close" PROVE Closing(t)'
  <2>1. Len(p) = 1 /\ val' = val
    BY <1>1, <1>2, <1>5, <1>8, <1>12 DEF list
  <2>2. ASSUME NEW x \in Int
        PROVE  Occurrences(out', x) = Occurrences(val, x)
    <3>1. ValuesOf(rest) = {}
      BY <1>6, <1>11, <2>1 DEF ValuesOf
    <3>2. Occurrences(rest, x) = 0
      BY <3>1, OccursNowhere
    <3>3. out' \in Seq(Int)
      BY DEF TypeOK
    <3>4. Occurrences(out', x) \in Nat
      BY <3>3, SeqCount
    <3> QED BY <1>6, <3>2, <3>4
  <2>3. MadeOf(out, Merged, file[t])'
    BY <1>2, <1>7, <1>10, <2>2 DEF MadeOf
  <2> QED BY <1>6, <2>3 DEF Closing
<1>13. ASSUME pc'[t] = "write" PROVE Writing(t)'
  <2>1. /\ Len(p) # 1 /\ Remove(p[i]) /\ val' = val
    BY <1>1, <1>2, <1>5, <1>8, <1>13
  <2>2. PICK q : q = Without(p, i)
    OBVIOUS
  <2>3. Chain(q)'
    BY <1>1, <1>8, <2>1, <2>2, RemoveKeepsChain
  <2>4. /\ q \in Seq(1..Len(val)) /\ Len(q) = Len(p) - 1
        /\ \A k \in 1..(Len(p) - 1) : q[k] = IF k < i THEN p[k] ELSE p[k + 1]
    BY <2>2, WithoutSeq
  <2>5. NumbersOf(q)' = rest
    <3>1. \A k \in 1..Len(q) : rest[k] = val'[q[k]]
      BY <1>6, <2>1, <2>2, <2>4
    <3>2. rest = [k \in 1..Len(rest) |-> rest[k]]
      BY <1>11, SeqIsFunction
    <3> QED BY <1>6, <2>4, <3>1, <3>2 DEF NumbersOf
  <2>6. MadeOf(val, out, NumbersOf(q))'
    BY <1>6, <2>1, <2>5 DEF MadeOf
  <2>7. ASSUME NEW j \in 1..Len(out'), NEW k \in 1..Len(q)
        PROVE  out'[j] <= val'[q[k]]
    <3>1. k \in 1..Len(p) /\ k + 1 \in 1..Len(p)
      BY <1>8, <2>4
    <3>2. q[k] = p[k] \/ q[k] = p[k + 1]
      BY <2>4
    <3> QED BY <1>6, <2>1, <3>1, <3>2
  <2>8. Taking(q)'
    BY <1>6, <2>3, <2>6, <2>7 DEF Taking
  <2>9. MadeOf(val, Merged, file[t])'
    BY <1>2, <1>7, <1>10, <2>1 DEF MadeOf
  <2>10. q \in Seq(1..Len(val'))
    BY <2>1, <2>4
  <2> QED BY <2>8, <2>9, <2>10 DEF Writing
<1>14. \A u \in Threads : u # t => pc'[u] = pc[u] /\ u \notin Inside
  BY <1>1, <1>2, <1>5 DEF Core, Turns, Inside
<1>15. \A u \in Threads : /\ pc'[u] = "write" => Writing(u)'
                          /\ pc'[u] = "close" => Closing(u)'
  <2> SUFFICES ASSUME NEW u \in Threads
               PROVE  /\ pc'[u] = "write" => Writing(u)'
                      /\ pc'[u] = "close" => Closing(u)'
    OBVIOUS
  <2>1. CASE u = t
    BY <2>1, <1>12, <1>13
  <2>2. CASE u # t
    BY <2>2, <1>14 DEF Inside
  <2> QED BY <2>1, <2>2
<1>16. Turns'
  <2>1. \A u \in Threads : pc'[u] # "start" => file'[u] # Missing
    BY <1>1, <1>2, <1>5 DEF Core, Turns
  <2>2. t \in Inside
    BY <1>2 DEF Inside
  <2> QED BY <1>2, <1>9, <2>1, <2>2 DEF Core, Turns
<1>17. Whole'
  BY <1>2, <1>9 DEF Whole, Inside
<1>18. \A u \in 0..NUM_OF_THREADS : file'[u] \in Lines(u)
  BY <1>2 DEF Core
<1> QED BY <1>15, <1>16, <1>17, <1>18 DEF Core

(* What was in the stream becomes what is in the file.                     *)
LEMMA CloseCore ==
  ASSUME Core, TypeOK', NEW t \in Threads, Close(t)
  PROVE  Core'
<1>1. pc \in [Threads -> {"start", "lock", "write", "close", "done"}] /\ TypeOK
  BY DEF Core, TypeOK
<1>2. /\ pc[t] = "close" /\ file' = file /\ datafile' = out
      /\ pc' = [pc EXCEPT ![t] = "done"]
  BY DEF Close
<1>3. Closing(t) /\ t \in Inside /\ t \in Threads \ Done /\ file[t] # Missing
  BY <1>2 DEF Core, Inside, Done, Turns
<1>4. \A u \in Threads : u # t => pc'[u] = pc[u] /\ u \notin Inside
  BY <1>1, <1>2, <1>3 DEF Core, Turns
<1>5. Inside' = {} /\ Done' = Done \cup {t}
  <2>1. Inside' = {}
    BY <1>1, <1>2, <1>4 DEF Inside
  <2>2. Done' = Done \cup {t}
    BY <1>1, <1>2, <1>4 DEF Done
  <2> QED BY <2>1, <2>2
<1>6. file[0] \in Seq(Int) /\ file[t] \in Seq(Int) /\ out \in Seq(Int)
      /\ file[0] # Missing
  BY <1>1, <1>2, <1>3, FilesRead DEF Core, Turns, TypeOK
<1>7. Merged' = MergedOf({0} \cup Done \cup {t})
  <2>1. {0} \cup Done' = {0} \cup Done \cup {t}
    BY <1>5
  <2> QED BY <1>2, <2>1 DEF Merged, MergedOf, LinesIn
<1>8. SameNumbers(datafile', Merged')
  <2>1. ValuesOf(Merged') \subseteq Int /\ ValuesOf(out) \subseteq Int
    BY <1>3, <1>6, <1>7, MergedRead, SeqValues
  <2>2. ASSUME NEW x \in Int
        PROVE  Occurrences(out, x) = Occurrences(Merged', x)
    <3>1. Occurrences(Merged', x)
            = Occurrences(Merged, x) + Occurrences(file[t], x)
      BY <1>3, <1>6, <1>7, MergedRead
    <3> QED BY <1>3, <3>1 DEF Closing, MadeOf
  <2> QED BY <1>2, <2>1, <2>2, SameNumbersCounted
<1>9. Whole'
  BY <1>2, <1>3, <1>6, <1>8 DEF Whole, Closing
<1>10. \A u \in Threads : /\ pc'[u] = "write" => Writing(u)'
                          /\ pc'[u] = "close" => Closing(u)'
  BY <1>1, <1>2, <1>4 DEF Inside
<1>11. Turns'
  <2>1. \A u \in Threads : pc'[u] # "start" => file'[u] # Missing
    BY <1>1, <1>2, <1>3, <1>4 DEF Core, Turns
  <2> QED BY <1>2, <1>5, <1>6, <2>1 DEF Turns
<1>12. \A u \in 0..NUM_OF_THREADS : file'[u] \in Lines(u)
  BY <1>2 DEF Core
<1> QED BY <1>9, <1>10, <1>11, <1>12 DEF Core

-------------------------------------------------------------------------------
(* Every step keeps the types, and what the threads work on.               *)
LEMMA EmptyList ==
  ASSUME NEW s, s = <<>>
  PROVE  /\ s \in Seq(Int)
         /\ <<>> \in [1..Len(s) -> 0..Len(s)]
<1>1. Len(s) = 0 /\ 1..0 = {}
  OBVIOUS
<1>2. <<>> \in Seq(Int) /\ Len(<<>>) = 0
  OBVIOUS
<1>3. <<>> = [k \in 1..0 |-> 0]
  OBVIOUS
<1> QED BY <1>1, <1>2, <1>3

LEMMA ExitType ==
  ASSUME TypeOK, ExitProcess
  PROVE  TypeOK'
<1>1. /\ process' = "failed" /\ datafile' \in {datafile, out} /\ pc' = pc
      /\ val' = val /\ next' = next /\ prev' = prev /\ head' = head /\ out' = out
      /\ answer' = answer /\ printed' = printed
  BY DEF ExitProcess, list, result
<1> QED BY <1>1 DEF TypeOK, Nodes

LEMMA RemoveType ==
  ASSUME TypeOK, NEW m \in 1..Len(val), Remove(m), val' = val
  PROVE  /\ head' \in 0..Len(val')
         /\ next' \in [1..Len(val') -> 0..Len(val')]
         /\ prev' \in [1..Len(val') -> 0..Len(val')]
<1> DEFINE L == Len(val)
<1>1. /\ next \in [1..L -> 0..L] /\ prev \in [1..L -> 0..L] /\ head \in 0..L
      /\ next[m] \in 0..L /\ prev[m] \in 0..L
  BY DEF TypeOK, Nodes
<1> HIDE DEF L
<1>2. head' \in 0..L
  BY <1>1 DEF Remove
<1>3. next' \in [1..L -> 0..L]
  BY <1>1 DEF Remove
<1>4. prev' \in [1..L -> 0..L]
  BY <1>1 DEF Remove, PrevOf
<1> QED BY <1>2, <1>3, <1>4 DEF L

LEMMA OpenType ==
  ASSUME Core, NEW t \in Threads, Open(t)
  PROVE  TypeOK'
<1>1. TypeOK
  BY DEF Core
<1>2. CASE ExitProcess
  BY <1>1, <1>2, ExitType
<1>3. CASE Crash
  <2>1. /\ process' = "crashed" /\ datafile' = datafile /\ pc' = pc
        /\ val' = val /\ next' = next /\ prev' = prev /\ head' = head
        /\ out' = out /\ answer' = answer /\ printed' = printed
    BY <1>3 DEF Crash, list, result
  <2> QED BY <1>1, <2>1 DEF TypeOK, Nodes
<1>4. CASE /\ datafile # Missing /\ ~Empty(file[t]) /\ ~Empty(datafile)
           /\ val' = Spliced(datafile, file[t])
           /\ next' = [k \in 1..Len(val') |->
                         IF k < Len(val') THEN k + 1 ELSE NULL]
           /\ prev' = [k \in 1..Len(val') |-> k - 1]
           /\ head' = 1 /\ datafile' = <<>> /\ out' = <<>>
           /\ pc' = [pc EXCEPT ![t] = "write"]
           /\ UNCHANGED <<process, file, result>>
  <2>1. datafile \in Seq(Int) /\ file[t] \in Seq(Int)
    BY <1>1, <1>4, FilesRead DEF TypeOK, Open, Ready
  <2> DEFINE n == Len(val')
  <2>2. val' \in Seq(Int) /\ n \in Nat /\ n >= 1
    BY <1>4, <2>1 DEF Spliced, Empty
  <2>3. /\ next' = [k \in 1..n |-> IF k < n THEN k + 1 ELSE NULL]
        /\ prev' = [k \in 1..n |-> k - 1] /\ head' = 1
    BY <1>4
  <2> HIDE DEF n
  <2>4. /\ head' \in 0..n /\ next' \in [1..n -> 0..n] /\ prev' \in [1..n -> 0..n]
    BY <2>2, <2>3 DEF NULL
  <2>5. /\ datafile' \in Seq(Int) /\ out' \in Seq(Int) /\ process' = process
        /\ answer' = answer /\ printed' = printed
    BY <1>4, EmptyList DEF result
  <2>6. pc' \in [Threads -> {"start", "lock", "write", "close", "done"}]
    BY <1>1, <1>4 DEF TypeOK
  <2> QED BY <1>1, <2>2, <2>4, <2>5, <2>6 DEF TypeOK, Nodes, n
<1> QED BY <1>2, <1>3, <1>4 DEF Open

LEMMA WriteType ==
  ASSUME Core, NEW t \in Threads, WriteMin(t)
  PROVE  TypeOK'
<1>1. TypeOK /\ pc[t] = "write"
  BY DEF Core, WriteMin
<1>2. PICK p \in Seq(1..Len(val)) : Taking(p)
  BY <1>1 DEF Core, Writing
<1>3. PICK i \in 1..Len(p) : min_node = p[i]
  BY <1>1, <1>2, MinNode DEF Taking
<1>4. p[i] \in 1..Len(val) /\ val[p[i]] \in Int
  BY <1>1, <1>2, <1>3, ChainFacts DEF Taking
<1>5. PICK m \in 1..Len(val) : m = min_node /\ val[m] \in Int
  BY <1>3, <1>4
<1>6. /\ process' = process /\ datafile' = datafile /\ out' = Append(out, val[m])
      /\ answer' = answer /\ printed' = printed /\ val' = val
      /\ \/ head' = head /\ next' = next /\ prev' = prev
         \/ Remove(m)
      /\ pc' = pc \/ pc' = [pc EXCEPT ![t] = "close"]
  BY <1>5 DEF WriteMin, list, result
<1>7. /\ head' \in 0..Len(val')
      /\ next' \in [1..Len(val') -> 0..Len(val')]
      /\ prev' \in [1..Len(val') -> 0..Len(val')]
  <2>1. CASE head' = head /\ next' = next /\ prev' = prev
    BY <1>1, <1>6, <2>1 DEF TypeOK, Nodes
  <2>2. CASE Remove(m)
    BY <1>1, <1>6, <2>2, RemoveType
  <2> QED BY <1>6, <2>1, <2>2
<1>8. out' \in Seq(Int)
  <2>1. out \in Seq(Int) /\ val[m] \in Int /\ out' = Append(out, val[m])
    BY <1>1, <1>5, <1>6 DEF TypeOK
  <2> QED BY <2>1
<1>9. pc' \in [Threads -> {"start", "lock", "write", "close", "done"}]
  BY <1>1, <1>6 DEF TypeOK
<1> QED BY <1>1, <1>6, <1>7, <1>8, <1>9 DEF TypeOK, Nodes

LEMMA CloseType ==
  ASSUME Core, NEW t \in Threads, Close(t)
  PROVE  TypeOK'
<1>1. TypeOK
  BY DEF Core
<1>2. /\ process' = process /\ datafile' = out /\ out' = <<>> /\ val' = <<>>
      /\ next' = <<>> /\ prev' = <<>> /\ head' = NULL
      /\ pc' = [pc EXCEPT ![t] = "done"] /\ answer' = answer
      /\ printed' = printed
  BY DEF Close, result
<1>3. /\ val' \in Seq(Int) /\ out' \in Seq(Int)
      /\ next' \in [1..Len(val') -> 0..Len(val')]
      /\ prev' \in [1..Len(val') -> 0..Len(val')]
  BY <1>2, EmptyList
<1>4. head' \in 0..Len(val')
  BY <1>2 DEF NULL
<1>5. pc' \in [Threads -> {"start", "lock", "write", "close", "done"}]
  BY <1>1, <1>2 DEF TypeOK
<1> QED BY <1>1, <1>2, <1>3, <1>4, <1>5 DEF TypeOK, Nodes

LEMMA CompareType ==
  ASSUME Core, Compare
  PROVE  TypeOK'
<1>1. TypeOK
  BY DEF Core
<1>2. CASE ExitProcess
  BY <1>1, <1>2, ExitType
<1>3. CASE ~ExitProcess
  <2>1. Verdict(answer', datafile) \in {"EQUAL", "NOT equal", "crash"}
    BY DEF Verdict
  <2>2. /\ answer' \in Answers /\ UNCHANGED <<file, datafile, pc, list, out>>
        /\ \/ process' = "crashed" /\ printed' = printed
           \/ process' = "returned" /\ printed' \in {"EQUAL", "NOT equal"}
    BY <1>3, <2>1 DEF Compare
  <2>3. /\ datafile' = datafile /\ pc' = pc /\ val' = val /\ next' = next
        /\ prev' = prev /\ head' = head /\ out' = out
    BY <2>2 DEF list
  <2> QED BY <1>1, <2>2, <2>3 DEF TypeOK, Nodes
<1> QED BY <1>2, <1>3

LEMMA ReadType ==
  ASSUME Core, NEW t \in Threads, ReadOwnFile(t)
  PROVE  TypeOK'
<1>1. TypeOK
  BY DEF Core
<1>2. CASE ExitProcess
  BY <1>1, <1>2, ExitType
<1>3. CASE ~ExitProcess
  <2>1. pc' = [pc EXCEPT ![t] = "lock"]
        /\ UNCHANGED <<process, file, datafile, list, out, result>>
    BY <1>3 DEF ReadOwnFile
  <2>2. /\ process' = process /\ datafile' = datafile /\ val' = val
        /\ next' = next /\ prev' = prev /\ head' = head /\ out' = out
        /\ answer' = answer /\ printed' = printed
    BY <2>1 DEF list, result
  <2>3. pc' \in [Threads -> {"start", "lock", "write", "close", "done"}]
    BY <1>1, <2>1 DEF TypeOK
  <2> QED BY <1>1, <2>2, <2>3 DEF TypeOK, Nodes
<1> QED BY <1>2, <1>3

LEMMA StepCore == Core /\ Next => Core'
<1> SUFFICES ASSUME Core, Next PROVE Core'
  OBVIOUS
<1>1. TypeOK /\ pc \in [Threads -> {"start", "lock", "write", "close", "done"}]
  BY DEF Core, TypeOK
<1>2. CASE ExitProcess
  <2>1. /\ UNCHANGED <<file, list, out>> /\ pc' = pc
        /\ datafile' = datafile \/ Inside # {}
    BY <1>2 DEF ExitProcess
  <2> QED BY <1>1, <1>2, <2>1, ExitType, QuietCore
<1>3. ASSUME NEW t \in Threads, ReadOwnFile(t), ~ExitProcess
      PROVE  Core'
  <2>1. /\ UNCHANGED <<file, list, out>> /\ datafile' = datafile
        /\ pc' = [pc EXCEPT ![t] = "lock"] /\ pc[t] = "start"
        /\ file[t] # Missing
    BY <1>3 DEF ReadOwnFile
  <2>2. \A u \in Threads :
          \/ pc'[u] = pc[u]
          \/ pc[u] = "start" /\ pc'[u] = "lock" /\ file[u] # Missing
    BY <1>1, <2>1
  <2>3. TypeOK'
    BY <1>3, ReadType
  <2> QED BY <2>1, <2>2, <2>3, QuietCore
<1>4. ASSUME NEW t \in Threads, Open(t), ~ExitProcess
      PROVE  Core'
  <2>1. TypeOK'
    BY <1>4, OpenType
  <2>2. CASE Crash
    <3>1. UNCHANGED <<file, list, out>> /\ pc' = pc /\ datafile' = datafile
      BY <2>2 DEF Crash
    <3> QED BY <2>1, <3>1, QuietCore
  <2>3. CASE ~Crash
    <3>1. /\ Ready(t) /\ datafile # Missing /\ ~Empty(file[t])
          /\ ~Empty(datafile) /\ val' = Spliced(datafile, file[t])
          /\ next' = [k \in 1..Len(val') |->
                        IF k < Len(val') THEN k + 1 ELSE NULL]
          /\ prev' = [k \in 1..Len(val') |-> k - 1]
          /\ head' = 1 /\ out' = <<>> /\ file' = file
          /\ pc' = [pc EXCEPT ![t] = "write"]
      BY <1>4, <2>3 DEF Open
    <3> QED BY <2>1, <3>1, OpenCore
  <2> QED BY <2>2, <2>3
<1>5. ASSUME NEW t \in Threads, WriteMin(t) \/ Close(t)
      PROVE  Core'
  BY <1>5, WriteType, WriteCore, CloseType, CloseCore
<1>6. ASSUME Compare, ~ExitProcess
      PROVE  Core'
  <2>1. UNCHANGED <<file, datafile, pc, list, out>>
    BY <1>6 DEF Compare
  <2>2. TypeOK'
    BY <1>6, CompareType
  <2> QED BY <2>1, <2>2, QuietCore
<1>7. CASE Terminated
  <2>1. UNCHANGED <<process, file, datafile, pc, list, out, result>>
    BY <1>7 DEF Terminated, vars
  <2>2. TypeOK'
    BY <1>1, <2>1 DEF TypeOK, Nodes, list, result
  <2> QED BY <2>1, <2>2, QuietCore
<1>8. CreateFails => ExitProcess
  BY DEF CreateFails
<1> QED BY <1>2, <1>3, <1>4, <1>5, <1>6, <1>7, <1>8 DEF Next, thread_job

-------------------------------------------------------------------------------
(* What the comparison finds.                                              *)
LEMMA Verdicts ==
  ASSUME NEW a \in Seq(Int), NEW d \in Seq(Int)
  PROVE  /\ Verdict(a, d) = "EQUAL" <=> a = d
         /\ Verdict(a, d) = "crash" <=> /\ Len(a) > Len(d)
                                        /\ \A k \in DOMAIN d : d[k] = a[k]
         /\ Verdict(a, d) \in {"EQUAL", "NOT equal", "crash"}
<1> DEFINE differ == {k \in DOMAIN a \cap DOMAIN d : a[k] # d[k]}
<1>1. /\ Len(a) \in Nat /\ Len(d) \in Nat
      /\ DOMAIN a = 1..Len(a) /\ DOMAIN d = 1..Len(d)
  OBVIOUS
<1>2. Verdict(a, d) = IF differ # {} THEN "NOT equal"
                      ELSE IF Len(a) = Len(d) THEN "EQUAL"
                      ELSE IF Len(a) < Len(d) THEN "NOT equal" ELSE "crash"
  BY DEF Verdict
<1>3. a = d <=> differ = {} /\ Len(a) = Len(d)
  <2>1. ASSUME differ = {}, Len(a) = Len(d)
        PROVE  a = d
    <3>1. \A k \in 1..Len(a) : a[k] = d[k]
      BY <1>1, <2>1
    <3> QED BY <2>1, <3>1
  <2> QED BY <2>1
<1>4. Len(a) > Len(d) =>
        (differ = {} <=> \A k \in DOMAIN d : d[k] = a[k])
  <2> SUFFICES ASSUME Len(a) > Len(d)
               PROVE  differ = {} <=> \A k \in DOMAIN d : d[k] = a[k]
    OBVIOUS
  <2>1. DOMAIN a \cap DOMAIN d = DOMAIN d
    BY <1>1
  <2> QED BY <2>1
<1> HIDE DEF differ
<1>5. Verdict(a, d) = "EQUAL" <=> a = d
  <2>1. Verdict(a, d) = "EQUAL" <=> differ = {} /\ Len(a) = Len(d)
    BY <1>2
  <2> QED BY <2>1, <1>3
<1>6. Verdict(a, d) = "crash" <=> /\ Len(a) > Len(d)
                                  /\ \A k \in DOMAIN d : d[k] = a[k]
  <2>1. /\ Len(a) = Len(d) => ~(Len(a) > Len(d))
        /\ Len(a) < Len(d) => ~(Len(a) > Len(d))
        /\ Len(a) # Len(d) /\ ~(Len(a) < Len(d)) => Len(a) > Len(d)
    <3>1. \A n, m \in Nat : /\ n = m => ~(n > m)
                            /\ n < m => ~(n > m)
                            /\ n # m /\ ~(n < m) => n > m
      OBVIOUS
    <3> QED BY <3>1, <1>1
  <2>2. Verdict(a, d) = "crash" <=> differ = {} /\ Len(a) > Len(d)
    BY <2>1, <1>2
  <2> QED BY <2>2, <1>4
<1>7. Verdict(a, d) \in {"EQUAL", "NOT equal", "crash"}
  BY <1>2
<1> QED BY <1>5, <1>6, <1>7

LEMMA AllDone ==
  ASSUME Core, \A t \in Threads : pc[t] = "done"
  PROVE  /\ datafile \in Seq(Int) /\ datafile # <<>> /\ Ascending(datafile)
         /\ \A a \in Seq(Int) :
              Ascending(a) /\ SameNumbers(a, Merged) <=> a = datafile
<1>1. Inside = {} /\ Done # {}
  <2>1. 1 \in Threads
    BY ThreadsAssumption DEF Threads
  <2> QED BY <2>1 DEF Inside, Done
<1>2. file[0] # Missing
  BY <1>1 DEF Core, Turns
<1>3. /\ datafile \in Seq(Int) /\ datafile # <<>> /\ Ascending(datafile)
      /\ SameNumbers(datafile, Merged)
  BY <1>1, <1>2 DEF Core, Whole
<1>4. ValuesOf(Merged) \subseteq Int
  BY <1>2, FilesRead, MergedRead
<1>5. ASSUME NEW a \in Seq(Int), Ascending(a), SameNumbers(a, Merged)
      PROVE  a = datafile
  <2>1. \A x \in Int : /\ Occurrences(a, x) = Occurrences(Merged, x)
                       /\ Occurrences(datafile, x) = Occurrences(Merged, x)
    BY <1>3, <1>4, <1>5, SameNumbersCounted, SeqValues
  <2>2. SameNumbers(a, datafile)
    BY <1>3, <2>1, SameNumbersCounted, SeqValues
  <2> QED BY <1>3, <1>5, <2>2, SortedOnce
<1> QED BY <1>3, <1>5

LEMMA NotCompared ==
  ASSUME Ends, process = "up", result' = result,
         process' = "crashed" => \E t \in 0..NUM_OF_THREADS : file'[t] = <<>>
  PROVE  Ends'
<1>1. answer' = Missing /\ printed' = ""
  BY DEF Ends, result
<1>2. CrashesOnlyOnEmpty'
  BY DEF CrashesOnlyOnEmpty
<1>3. VerdictIsRight'
  BY <1>1 DEF VerdictIsRight
<1> QED BY <1>1, <1>2, <1>3 DEF Ends

LEMMA OpenEnds ==
  ASSUME Core, Ends, NEW t \in Threads, Open(t)
  PROVE  Ends'
<1>1. process = "up" /\ result' = result /\ file' = file
  BY DEF Open, ExitProcess, Crash
<1>2. ASSUME process' = "crashed"
      PROVE  \E u \in 0..NUM_OF_THREADS : file'[u] = <<>>
  <2>1. Ready(t) /\ datafile # Missing /\ (file[t] = <<>> \/ datafile = <<>>)
    BY <1>2 DEF Open, ExitProcess, Empty
  <2>2. 0 \in 0..NUM_OF_THREADS /\ t \in 0..NUM_OF_THREADS
    BY ThreadsAssumption DEF Threads
  <2>3. CASE file[t] = <<>>
    BY <1>1, <2>2, <2>3
  <2>4. CASE datafile = <<>>
    <3>1. Inside = {}
      BY <2>1 DEF Ready
    <3>2. Done = {} \/ file[0] = Missing
      BY <2>4, <3>1 DEF Core, Whole
    <3>3. datafile = file[0]
      BY <3>1, <3>2 DEF Core, Turns
    <3> QED BY <1>1, <2>2, <2>4, <3>3
  <2> QED BY <2>1, <2>3, <2>4
<1> QED BY <1>1, <1>2, NotCompared

LEMMA CompareEnds ==
  ASSUME Core, Ends, Compare
  PROVE  Ends'
<1>1. process = "up" /\ \A t \in Threads : pc[t] = "done"
  BY DEF Compare
<1>2. CASE ExitProcess
  <2>1. result' = result /\ process' = "failed"
    BY <1>2 DEF ExitProcess
  <2> QED BY <1>1, <2>1, NotCompared
<1>3. CASE ~ExitProcess
  <2>1. /\ answer' \in Answers \ {Missing}
        /\ UNCHANGED <<file, datafile, pc, list, out>>
        /\ \/ /\ answer' = <<>> \/ Verdict(answer', datafile) = "crash"
              /\ process' = "crashed" /\ printed' = printed
           \/ /\ answer' # <<>> /\ Verdict(answer', datafile) # "crash"
              /\ process' = "returned"
              /\ printed' = Verdict(answer', datafile)
    BY <1>3 DEF Compare, Empty
  <2>2. printed = ""
    BY <1>1 DEF Ends
  <2>3. answer' \in Seq(Int)
    BY <2>1, AnswersAssumption
  <2>4. Merged' = Merged /\ datafile' = datafile
    BY <2>1 DEF Merged, Done
  <2>5. /\ datafile \in Seq(Int) /\ datafile # <<>>
        /\ Ascending(answer') /\ SameNumbers(answer', Merged)
             <=> answer' = datafile
    BY <1>1, <2>3, AllDone
  <2> DEFINE longer == /\ Len(answer') > Len(datafile)
                       /\ \A k \in DOMAIN datafile : datafile[k] = answer'[k]
  <2>6. /\ Verdict(answer', datafile) = "EQUAL" <=> answer' = datafile
        /\ Verdict(answer', datafile) = "crash" <=> longer
    BY <2>3, <2>5, Verdicts
  <2>7. longer => answer' # datafile
    BY <2>5
  <2> HIDE DEF longer
  <2>8. printed' = "EQUAL" <=> answer' = datafile
    <3>1. CASE /\ answer' = <<>> \/ Verdict(answer', datafile) = "crash"
               /\ printed' = printed
      <4>1. printed' # "EQUAL"
        BY <3>1, <2>2
      <4>2. answer' # datafile
        BY <3>1, <2>5, <2>6, <2>7
      <4> QED BY <4>1, <4>2
    <3>2. CASE printed' = Verdict(answer', datafile)
      BY <3>2, <2>6
    <3> QED BY <2>1, <3>1, <3>2
  <2>9. VerdictIsRight'
    BY <2>4, <2>5, <2>8 DEF VerdictIsRight
  <2>10. CrashesOnlyOnEmpty'
    BY <1>1, <2>1 DEF CrashesOnlyOnEmpty
  <2>11. process' # "up"
    BY <2>1
  <2> QED BY <2>9, <2>10, <2>11 DEF Ends
<1> QED BY <1>2, <1>3

LEMMA StepEnds == Core /\ Ends /\ Next => Ends'
<1> SUFFICES ASSUME Core, Ends, Next PROVE Ends'
  OBVIOUS
<1>1. ASSUME NEW t \in Threads, ReadOwnFile(t) \/ WriteMin(t) \/ Close(t)
      PROVE  Ends'
  <2>1. process = "up" /\ result' = result /\ process' # "crashed"
    BY <1>1 DEF ReadOwnFile, WriteMin, Close, ExitProcess
  <2> QED BY <2>1, NotCompared
<1>2. CASE CreateFails
  <2>1. process = "up" /\ result' = result /\ process' # "crashed"
    BY <1>2 DEF CreateFails, ExitProcess
  <2> QED BY <2>1, NotCompared
<1>3. CASE Terminated
  <2>1. UNCHANGED <<process, file, datafile, pc, answer, printed>>
    BY <1>3 DEF Terminated, vars, result
  <2>2. Merged' = Merged
    BY <2>1 DEF Merged, Done
  <2> QED BY <2>1, <2>2 DEF Ends, CrashesOnlyOnEmpty, VerdictIsRight
<1> QED BY <1>1, <1>2, <1>3, OpenEnds, CompareEnds DEF Next, thread_job

LEMMA Stutter == IInv /\ UNCHANGED vars => IInv'
<1> SUFFICES ASSUME IInv, UNCHANGED vars PROVE IInv'
  OBVIOUS
<1>1. UNCHANGED <<process, file, datafile, pc, list, out, result>>
  BY DEF vars
<1>2. TypeOK'
  BY <1>1 DEF IInv, Core, TypeOK, Nodes, list, result
<1>3. Core'
  BY <1>1, <1>2, QuietCore DEF IInv
<1>4. Merged' = Merged
  BY <1>1 DEF Merged, Done
<1>5. Ends'
  BY <1>1, <1>4 DEF IInv, Ends, CrashesOnlyOnEmpty, VerdictIsRight, result
<1> QED BY <1>3, <1>5 DEF IInv

LEMMA InitIInv == Init => IInv
<1> SUFFICES ASSUME Init PROVE IInv
  OBVIOUS
<1>1. /\ Inside = {} /\ Done = {}
      /\ \A t \in Threads : pc[t] = "start"
      /\ pc \in [Threads -> {"start", "lock", "write", "close", "done"}]
  BY DEF Init, Inside, Done
<1>2. /\ \A t \in 0..NUM_OF_THREADS : file[t] \in Lines(t)
      /\ datafile = file[0] /\ 0 \in 0..NUM_OF_THREADS
  <2>1. 0 \in 0..NUM_OF_THREADS
    BY ThreadsAssumption
  <2>2. \A t \in 0..NUM_OF_THREADS : file[t] \in Lines(t)
    BY Zenon DEF Init
  <2>3. datafile = file[0]
    BY Zenon DEF Init
  <2> QED BY <2>1, <2>2, <2>3
<1>3. datafile \in Seq(Int) \cup {Missing}
  BY <1>2, LinesAssumption
<1>4. TypeOK
  <2>1. /\ val \in Seq(Int) /\ out \in Seq(Int) /\ Nodes = 0..Len(val)
        /\ next \in [1..Len(val) -> 0..Len(val)]
        /\ prev \in [1..Len(val) -> 0..Len(val)]
    BY EmptyList DEF Init, Nodes
  <2>2. head \in Nodes
    <3>1. val = <<>> /\ head = 0
      BY DEF Init, NULL
    <3> QED BY <3>1 DEF Nodes
  <2> QED BY <1>1, <1>3, <2>1, <2>2 DEF Init, TypeOK
<1>5. Turns
  BY <1>1, <1>2 DEF Turns
<1>6. Whole
  <2> SUFFICES ASSUME file[0] # Missing
               PROVE  datafile \in Seq(Int) /\ SameNumbers(datafile, Merged)
    BY <1>1 DEF Whole
  <2>1. datafile \in Seq(Int) /\ file[0] \in Seq(Int)
    BY <1>2, <1>3
  <2>2. Merged = MergedOf({0})
    BY <1>1, MergedIs
  <2>3. \A x \in Int : Occurrences(datafile, x) = Occurrences(Merged, x)
    BY <1>2, <2>1, <2>2, MergedOne
  <2>4. ValuesOf(Merged) \subseteq Int
    <3>1. {0} \in SUBSET (0..NUM_OF_THREADS) /\ \A t \in {0} : file[t] \in Seq(Int)
      BY <1>2, <2>1
    <3> QED BY <2>2, <3>1, MergedCount
  <2> QED BY <2>1, <2>3, <2>4, SeqValues, SameNumbersCounted
<1>7. Core
  BY <1>1, <1>2, <1>4, <1>5, <1>6 DEF Core
<1>8. process = "up" /\ answer = Missing /\ printed = ""
  BY DEF Init
<1>9. Ends
  BY <1>8 DEF Ends, CrashesOnlyOnEmpty, VerdictIsRight
<1> QED BY <1>7, <1>9 DEF IInv

LEMMA Invariance == Spec => []IInv
<1>1. IInv /\ [Next]_vars => IInv'
  BY StepCore, StepEnds, Stutter DEF IInv
<1> QED BY <1>1, InitIInv, PTL DEF Spec

-------------------------------------------------------------------------------
LEMMA ListFromChain ==
  ASSUME TypeOK, NEW p \in Seq(1..Len(val)), Taking(p)
  PROVE  LET left    == From(head)
             numbers == [k \in DOMAIN left |-> val[left[k]]]
         IN /\ \A k \in DOMAIN left :
                 prev[left[k]] = IF k = 1 THEN NULL ELSE left[k - 1]
            /\ SameNumbers(out \o numbers, val)
            /\ Ascending(out)
            /\ \A j \in DOMAIN out, k \in DOMAIN numbers : out[j] <= numbers[k]
<1> DEFINE numbers == NumbersOf(p)
<1>1. Chain(p) /\ From(head) = p /\ DOMAIN p = 1..Len(p)
  BY FromIsChain DEF Taking
<1>2. numbers = [k \in DOMAIN p |-> val[p[k]]]
  BY <1>1 DEF NumbersOf
<1>3. /\ numbers \in Seq(Int) /\ DOMAIN numbers = 1..Len(p)
      /\ \A k \in 1..Len(p) : numbers[k] = val[p[k]]
  <2>1. /\ numbers \in Seq(Int) /\ Len(numbers) = Len(p)
        /\ \A k \in 1..Len(p) : numbers[k] = val[p[k]]
    BY <1>1, NumbersSeq
  <2> QED BY <1>1, <1>2, <2>1
<1>4. MadeOf(val, out, numbers)
  BY DEF Taking
<1> HIDE DEF numbers
<1>5. out \in Seq(Int) /\ val \in Seq(Int) /\ DOMAIN out = 1..Len(out)
  <2>1. out \in Seq(Int) /\ val \in Seq(Int)
    BY Zenon DEF TypeOK
  <2> QED BY <2>1
<1>6. SameNumbers(out \o numbers, val)
  <2>1. out \o numbers \in Seq(Int)
    BY <1>3, <1>5
  <2>2. \A x \in Int :
          Occurrences(out \o numbers, x) = Occurrences(val, x)
    BY <1>3, <1>4, <1>5, CountConcat DEF MadeOf
  <2> QED BY <1>5, <2>1, <2>2, SeqValues, SameNumbersCounted
<1>7. \A j \in DOMAIN out, k \in DOMAIN numbers : out[j] <= numbers[k]
  BY <1>3, <1>5 DEF Taking
<1>8. \A k \in DOMAIN p : prev[p[k]] = IF k = 1 THEN NULL ELSE p[k - 1]
  BY <1>1 DEF Chain
<1> QED BY <1>1, <1>2, <1>6, <1>7, <1>8 DEF Taking

(* No number is lost, doubled or out of place, in the list, in the stream  *)
(* and in datafile.dat, at any step of any number of threads.  (138-213)   *)
THEOREM NumbersKept == Spec => []NothingLost
<1>1. IInv => NothingLost
  <2> SUFFICES ASSUME IInv PROVE NothingLost
    OBVIOUS
  <2>1. Core /\ TypeOK
    BY DEF IInv, Core
  <2>2. ListIntact
    <3> SUFFICES ASSUME NEW t \in Threads, pc[t] = "write"
                 PROVE  \E p \in Seq(1..Len(val)) : Taking(p)
      BY <2>1, ListFromChain DEF ListIntact
    <3> QED BY <2>1 DEF Core, Writing
  <2>3. DatafileWhole
    <3> SUFFICES ASSUME datafile # Missing, Inside = {}
                 PROVE  /\ SameNumbers(datafile, Merged)
                        /\ Done # {} => Ascending(datafile)
      BY DEF DatafileWhole
    <3>1. file[0] # Missing
      BY <2>1 DEF Core, Turns
    <3> QED BY <2>1, <3>1 DEF Core, Whole
  <2> QED BY <2>1, <2>2, <2>3 DEF NothingLost
<1> QED BY <1>1, Invariance, PTL

(* The threads follow a pointer to nowhere only if one of the files was    *)
(* empty when the program started.  (138-146)                              *)
THEOREM WhoCrashes == Spec => []CrashesOnlyOnEmpty
<1>1. IInv => CrashesOnlyOnEmpty
  BY DEF IInv, Ends
<1> QED BY <1>1, Invariance, PTL

(* EQUAL is printed just for the sorted merge of all the files, whatever   *)
(* the files and the answer are.  (217-256)                                *)
THEOREM RightVerdict == Spec => []VerdictIsRight
<1>1. IInv => VerdictIsRight
  BY DEF IInv, Ends
<1> QED BY <1>1, Invariance, PTL

===============================================================================
