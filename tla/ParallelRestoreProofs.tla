----------------------- MODULE ParallelRestoreProofs ------------------------
(***************************************************************************)
(* What holds of a parallel dump for every number of processes, capacity   *)
(* of the channels, number of chunks and sequence of failures: no process  *)
(* outlives the snapshot, and an archive that was uploaded is complete.    *)
(***************************************************************************)
EXTENDS ParallelRestore, FiniteSetTheorems, TLAPS

-----------------------------------------------------------------------------
\* What the recursive functions of the plan compute.

\* Induction up to m, for sets: the sets 0..n are well-founded under inclusion.
LEMMA UpTo ==
    ASSUME NEW m \in Nat, NEW T \in SUBSET (0..m), 0 \in T,
           \A n \in 1..m : n - 1 \in T => n \in T
    PROVE  T = 0..m
  <1> SUFFICES ASSUME (0..m) \ T # {} PROVE FALSE
    OBVIOUS
  <1> DEFINE S == 0..m
             U == {0..n : n \in S \ T}
  <1>1. \A n \in S : IsFiniteSet(0..n)
    <2> TAKE n \in S
    <2>1. 0 \in Int /\ n \in Int
      OBVIOUS
    <2> QED BY <2>1, FS_Interval
  <1>2. \A n \in S : 0..n \in SUBSET S
    OBVIOUS
  <1>3. IsWellFoundedOn(StrictSubsetOrdering(S), FiniteSubsetsOf(S))
    BY FS_StrictSubsetOrderingWellFounded
  <1>4. U \subseteq FiniteSubsetsOf(S) /\ U # {}
    BY <1>1, <1>2 DEF FiniteSubsetsOf
  <1>5. \E x \in U : \A y \in U : ~(<<y, x>> \in StrictSubsetOrdering(S))
    <2> HIDE DEF U
    <2> QED BY <1>3, <1>4, WFMin
  <1>6. PICK n \in S \ T : \A k \in S \ T : ~(<<0..k, 0..n>> \in StrictSubsetOrdering(S))
    BY <1>5
  <1>7. n \in 1..m /\ n - 1 \in S \ T
    OBVIOUS
  <1>8. ~(<<0..(n - 1), 0..n>> \in StrictSubsetOrdering(S))
    BY <1>6, <1>7
  <1>9. 0..(n - 1) \in SUBSET S /\ 0..n \in SUBSET S /\ 0..(n - 1) \subseteq 0..n /\ 0..(n - 1) # 0..n
    BY <1>7
  <1> QED BY <1>8, <1>9 DEF StrictSubsetOrdering

\* The functions that start with base and go on with step.
Recursions(m, A, base, step) ==
    {to \in [0..m -> A] : to[0] = base /\ \A n \in 1..m : to[n] = step[n][to[n - 1]]}

\* There is one, when each step stays in A.
LEMMA Recursion ==
    ASSUME NEW m \in Nat, NEW A, NEW base \in A, NEW step \in [1..m -> [A -> A]]
    PROVE  Recursions(m, A, base, step) # {}
  <1> DEFINE Is(k, to) == /\ to \in [0..k -> A]
                          /\ to[0] = base
                          /\ \A n \in 1..k : to[n] = step[n][to[n - 1]]
             T == {k \in 0..m : \E to : Is(k, to)}
  <1>1. Is(0, [n \in 0..0 |-> base])
    OBVIOUS
  <1>2. ASSUME NEW k \in 1..m, NEW to, Is(k - 1, to)
        PROVE  \E next : Is(k, next)
    <2> DEFINE next == [n \in 0..k |-> IF n = k THEN step[k][to[k - 1]] ELSE to[n]]
    <2>1. to[k - 1] \in A /\ step[k] \in [A -> A] /\ to \in [0..(k - 1) -> A]
      BY <1>2
    <2>2. next \in [0..k -> A]
      BY <2>1
    <2>3. next[0] = base /\ next[k] = step[k][next[k - 1]]
      BY <1>2
    <2>4. \A n \in 1..(k - 1) : next[n] = to[n] /\ next[n - 1] = to[n - 1]
      OBVIOUS
    <2>5. \A n \in 1..(k - 1) : next[n] = step[n][next[n - 1]]
      BY <1>2, <2>4
    <2>6. \A n \in 1..k : next[n] = step[n][next[n - 1]]
      <3> HIDE DEF next
      <3> QED BY <2>3, <2>5
    <2>7. Is(k, next)
      <3> HIDE DEF next
      <3> QED BY <2>2, <2>3, <2>6
    <2> QED BY <2>7
  <1>3. 0 \in T
    <2>1. \E to : Is(0, to)
      <3> HIDE DEF Is
      <3> QED BY <1>1
    <2> QED BY <2>1
  <1>4. \A k \in 1..m : k - 1 \in T => k \in T
    <2> HIDE DEF Is
    <2> QED BY <1>2
  <1>5. m \in T
    <2>1. T \subseteq 0..m
      OBVIOUS
    <2> HIDE DEF T
    <2>2. T = 0..m
      BY <1>3, <1>4, <2>1, UpTo
    <2>3. m \in 0..m
      OBVIOUS
    <2> QED BY <2>2, <2>3
  <1> QED BY <1>5 DEF Recursions

\* The sum of a sequence with one more number.
LEMMA SumIs ==
    ASSUME NEW s \in Seq(Nat)
    PROVE  \E to \in [0..Len(s) -> Nat] :
              /\ Sum(s) = to[Len(s)] /\ to[0] = 0
              /\ \A n \in 1..Len(s) : to[n] = to[n - 1] + s[n]
  <1> DEFINE step == [n \in 1..Len(s) |-> [x \in Nat |-> x + s[n]]]
  <1>1. step \in [1..Len(s) -> [Nat -> Nat]] /\ Len(s) \in Nat /\ 0 \in Nat
    OBVIOUS
  <1>2. Recursions(Len(s), Nat, 0, step) # {}
    <2> HIDE DEF step
    <2> QED BY <1>1, Recursion
  <1>3. PICK f \in [0..Len(s) -> Nat] :
           f[0] = 0 /\ \A n \in 1..Len(s) : f[n] = step[n][f[n - 1]]
    BY <1>2 DEF Recursions
  <1>4. f = [n \in 0..Len(s) |-> IF n = 0 THEN 0 ELSE f[n - 1] + s[n]]
    <2>1. ASSUME NEW n \in 1..Len(s) PROVE f[n - 1] \in Nat
      <3> HIDE DEF step
      <3>1. n - 1 \in 0..Len(s)
        OBVIOUS
      <3> QED BY <3>1
    <2>2. \A n \in 1..Len(s) : f[n] = f[n - 1] + s[n]
      BY <1>3, <2>1
    <2>3. \A n \in 0..Len(s) : f[n] = IF n = 0 THEN 0 ELSE f[n - 1] + s[n]
      BY <1>3, <2>2
    <2> QED BY <2>3
  <1> DEFINE to == CHOOSE to : to = [n \in 0..Len(s) |-> IF n = 0 THEN 0 ELSE to[n - 1] + s[n]]
  <1>5. to = [n \in 0..Len(s) |-> IF n = 0 THEN 0 ELSE to[n - 1] + s[n]]
    BY <1>4
  <1>6. to[0] = 0 /\ \A n \in 1..Len(s) : to[n] = to[n - 1] + s[n]
    <2> HIDE DEF to, step
    <2>1. \A n \in 0..Len(s) : to[n] = IF n = 0 THEN 0 ELSE to[n - 1] + s[n]
      BY <1>5
    <2>2. 0 \in 0..Len(s) /\ \A n \in 1..Len(s) : n \in 0..Len(s) /\ n # 0
      BY <1>1
    <2> QED BY <2>1, <2>2
  <1>7. to \in [0..Len(s) -> Nat]
    <2> HIDE DEF to
    <2> DEFINE T == {n \in 0..Len(s) : to[n] \in Nat}
    <2>1. 0 \in 0..Len(s) /\ \A n \in 1..Len(s) : s[n] \in Nat /\ n \in 0..Len(s)
      OBVIOUS
    <2>2. 0 \in T
      BY <1>6, <2>1
    <2>3. ASSUME NEW n \in 1..Len(s), n - 1 \in T PROVE n \in T
      <3>1. to[n - 1] \in Nat /\ to[n] = to[n - 1] + s[n]
        BY <1>6, <2>3
      <3> QED BY <2>1, <3>1
    <2>4. T = 0..Len(s)
      <3>1. Len(s) \in Nat /\ T \in SUBSET (0..Len(s))
        OBVIOUS
      <3> HIDE DEF T
      <3> QED BY <2>2, <2>3, <3>1, UpTo
    <2>5. \A n \in 0..Len(s) : to[n] \in Nat
      BY <2>4
    <2> QED BY <1>5, <2>5
  <1>8. Sum(s) = to[Len(s)]
    BY DEF Sum
  <1> QED BY <1>6, <1>7, <1>8

LEMMA SumOneMore ==
    ASSUME NEW s \in Seq(Nat), NEW x \in Nat
    PROVE  Sum(Append(s, x)) = Sum(s) + x /\ Sum(s) \in Nat
  <1> DEFINE r == Append(s, x)
  <1>1. /\ r \in Seq(Nat) /\ Len(r) = Len(s) + 1 /\ Len(s) \in Nat
        /\ r[Len(s) + 1] = x /\ \A n \in 1..Len(s) : r[n] = s[n]
    OBVIOUS
  <1>2. PICK f \in [0..Len(s) -> Nat] :
           /\ Sum(s) = f[Len(s)] /\ f[0] = 0
           /\ \A n \in 1..Len(s) : f[n] = f[n - 1] + s[n]
    BY SumIs
  <1> HIDE DEF r
  <1>3. PICK g \in [0..Len(r) -> Nat] :
           /\ Sum(r) = g[Len(r)] /\ g[0] = 0
           /\ \A n \in 1..Len(r) : g[n] = g[n - 1] + r[n]
    BY <1>1, SumIs
  <1> DEFINE T == {n \in 0..Len(s) : f[n] = g[n]}
  <1>4. 0 \in T /\ \A n \in 1..Len(s) : n - 1 \in T => n \in T
    BY <1>1, <1>2, <1>3
  <1>5. T = 0..Len(s)
    <2>1. T \in SUBSET (0..Len(s))
      OBVIOUS
    <2> HIDE DEF T
    <2> QED BY <1>1, <1>4, <2>1, UpTo
  <1>6. g[Len(s)] = f[Len(s)]
    <2>1. Len(s) \in T
      <3> HIDE DEF T
      <3>1. Len(s) \in 0..Len(s)
        BY <1>1
      <3> QED BY <1>5, <3>1
    <2> QED BY <2>1
  <1>7. g[Len(s) + 1] = g[Len(s)] + x
    BY <1>1, <1>3
  <1> QED BY <1>1, <1>2, <1>3, <1>6, <1>7 DEF r

LEMMA SumOfNone == Sum(<<>>) = 0
  <1>1. <<>> \in Seq(Nat) /\ Len(<<>>) = 0
    OBVIOUS
  <1> QED BY <1>1, SumIs

-----------------------------------------------------------------------------

Plans == [jobs : Seq(Seq(Nat)), batch : Seq(Nat), bytes : Nat]
NoPlan == [jobs |-> <<>>, batch |-> <<>>, bytes |-> 0]

LEMMA PlaceInPlans ==
    ASSUME NEW t \in Seq(Nat), NEW n \in 1..Len(t), NEW p \in Plans
    PROVE  Place(t, n, p) \in Plans
  <1>1. /\ <<n>> \in Seq(Nat) /\ t[n] \in Nat /\ n \in Nat
        /\ p.jobs \in Seq(Seq(Nat)) /\ p.batch \in Seq(Nat) /\ p.bytes \in Nat
    BY DEF Plans
  <1>2. Flush(p) \in Seq(Seq(Nat))
    BY <1>1 DEF Flush
  <1> QED BY <1>1, <1>2 DEF Place, Plans

LEMMA PlacedIs ==
    ASSUME NEW t \in Seq(Nat)
    PROVE  /\ Placed(t) \in [0..Len(t) -> Plans] /\ Placed(t)[0] = NoPlan
           /\ \A n \in 1..Len(t) : Placed(t)[n] = Place(t, n, Placed(t)[n - 1])
  <1> DEFINE step == [n \in 1..Len(t) |-> [p \in Plans |-> Place(t, n, p)]]
  <1>1. step \in [1..Len(t) -> [Plans -> Plans]] /\ Len(t) \in Nat /\ NoPlan \in Plans
    BY PlaceInPlans DEF Plans, NoPlan
  <1>2. Recursions(Len(t), Plans, NoPlan, step) # {}
    <2> HIDE DEF step
    <2> QED BY <1>1, Recursion
  <1>3. PICK f \in [0..Len(t) -> Plans] :
           f[0] = NoPlan /\ \A n \in 1..Len(t) : f[n] = step[n][f[n - 1]]
    BY <1>2 DEF Recursions
  <1> DEFINE Is(to) == to = [n \in 0..Len(t) |-> IF n = 0 THEN NoPlan ELSE Place(t, n, to[n - 1])]
  <1>4. Is(f)
    <2>1. ASSUME NEW n \in 1..Len(t) PROVE f[n - 1] \in Plans
      <3> HIDE DEF step, Is
      <3>1. n - 1 \in 0..Len(t)
        OBVIOUS
      <3> QED BY <3>1
    <2>2. \A n \in 1..Len(t) : f[n] = Place(t, n, f[n - 1])
      BY <1>3, <2>1
    <2>3. \A n \in 0..Len(t) : f[n] = IF n = 0 THEN NoPlan ELSE Place(t, n, f[n - 1])
      BY <1>3, <2>2
    <2> QED BY <2>3
  <1>5. Placed(t) = CHOOSE to : Is(to)
    BY DEF Placed, NoPlan
  <1>6. Is(Placed(t))
    <2> HIDE DEF Is
    <2> QED BY <1>4, <1>5
  <1>7. /\ Placed(t)[0] = NoPlan
        /\ \A n \in 1..Len(t) : Placed(t)[n] = Place(t, n, Placed(t)[n - 1])
    <2>1. \A n \in 0..Len(t) : Placed(t)[n] = IF n = 0 THEN NoPlan ELSE Place(t, n, Placed(t)[n - 1])
      BY <1>6
    <2> HIDE DEF Is, step
    <2>2. 0 \in 0..Len(t) /\ \A n \in 1..Len(t) : n \in 0..Len(t) /\ n # 0
      BY <1>1
    <2> QED BY <2>1, <2>2
  <1> DEFINE T == {n \in 0..Len(t) : Placed(t)[n] \in Plans}
  <1>8. 0 \in T /\ \A n \in 1..Len(t) : n - 1 \in T => n \in T
    BY <1>1, <1>7, PlaceInPlans
  <1>9. T = 0..Len(t)
    <2>1. Len(t) \in Nat /\ T \in SUBSET (0..Len(t))
      OBVIOUS
    <2> HIDE DEF T
    <2> QED BY <1>8, <2>1, UpTo
  <1>10. Placed(t) \in [0..Len(t) -> Plans]
    BY <1>6, <1>9
  <1> QED BY <1>7, <1>10

-----------------------------------------------------------------------------

Bytes(t, b) == Sum([i \in DOMAIN b |-> t[b[i]]])

Within(t, b) == Len(b) > 1 => Len(b) <= BatchMaxCount /\ Bytes(t, b) <= BatchBytes

\* The jobs are about the tables of S, each in one job and no other.
Covers(t, jobs, S) ==
    /\ \A d \in DOMAIN jobs : Within(t, jobs[d]) /\ Range(jobs[d]) \subseteq S
    /\ \A i \in S : \E d \in DOMAIN jobs :
          i \in Range(jobs[d]) /\ \A e \in DOMAIN jobs \ {d} : i \notin Range(jobs[e])

\* The first n tables are in the jobs, or in the batch that is not a job yet.
Covered(t, n, p) ==
    /\ p \in Plans
    /\ Covers(t, p.jobs, (1..n) \ Range(p.batch))
    /\ Range(p.batch) \subseteq 1..n
    /\ p.bytes = Bytes(t, p.batch) /\ Within(t, p.batch)

LEMMA Limits == BatchMaxCount \in Nat \ {0} /\ BatchBytes \in Nat
  BY DumpAssumption

LEMMA Grows ==
    ASSUME NEW D, NEW b \in Seq(D), NEW x \in D
    PROVE  /\ DOMAIN Append(b, x) = DOMAIN b \cup {Len(b) + 1} /\ Len(b) + 1 \notin DOMAIN b
           /\ \A i \in DOMAIN b : Append(b, x)[i] = b[i]
           /\ Append(b, x)[Len(b) + 1] = x
  OBVIOUS

LEMMA RangeGrows ==
    ASSUME NEW b \in Seq(Nat), NEW x \in Nat
    PROVE  Range(Append(b, x)) = Range(b) \cup {x}
  <1>1. /\ DOMAIN Append(b, x) = DOMAIN b \cup {Len(b) + 1} /\ Len(b) + 1 \notin DOMAIN b
        /\ \A i \in DOMAIN b : Append(b, x)[i] = b[i]
        /\ Append(b, x)[Len(b) + 1] = x
    OBVIOUS
  <1> QED BY <1>1, Zenon DEF Range

LEMMA OneMoreJob ==
    ASSUME NEW t, NEW S, NEW jobs \in Seq(Seq(Nat)), NEW b \in Seq(Nat),
           Covers(t, jobs, S), Within(t, b), Range(b) \cap S = {}
    PROVE  Covers(t, Append(jobs, b), S \cup Range(b))
  <1> DEFINE more == Append(jobs, b)
             l == Len(jobs) + 1
  <1>1. /\ DOMAIN more = DOMAIN jobs \cup {l} /\ l \notin DOMAIN jobs
        /\ \A d \in DOMAIN jobs : more[d] = jobs[d]
        /\ more[l] = b
    BY Grows
  <1> HIDE DEF more, l
  <1>2. \A d \in DOMAIN more : Within(t, more[d]) /\ Range(more[d]) \subseteq S \cup Range(b)
    BY <1>1 DEF Covers
  <1>3. ASSUME NEW i \in S
        PROVE  \E d \in DOMAIN more :
                  i \in Range(more[d]) /\ \A e \in DOMAIN more \ {d} : i \notin Range(more[e])
    <2>1. PICK d \in DOMAIN jobs :
             i \in Range(jobs[d]) /\ \A e \in DOMAIN jobs \ {d} : i \notin Range(jobs[e])
      BY DEF Covers
    <2>2. i \notin Range(more[l])
      BY <1>1
    <2> QED BY <1>1, <2>1, <2>2
  <1>4. ASSUME NEW i \in Range(b)
        PROVE  \E d \in DOMAIN more :
                  i \in Range(more[d]) /\ \A e \in DOMAIN more \ {d} : i \notin Range(more[e])
    <2>1. \A e \in DOMAIN jobs : i \notin Range(jobs[e])
      BY DEF Covers
    <2> QED BY <1>1, <2>1
  <1>5. Covers(t, more, S \cup Range(b))
    BY <1>2, <1>3, <1>4 DEF Covers
  <1> QED BY <1>5 DEF more

LEMMA OneMoreTable ==
    ASSUME NEW t \in Seq(Nat), NEW n \in 1..Len(t),
           NEW b \in Seq(Nat), Range(b) \subseteq 1..(n - 1)
    PROVE  Bytes(t, Append(b, n)) = Bytes(t, b) + t[n] /\ Bytes(t, b) \in Nat
  <1> DEFINE s == [i \in DOMAIN b |-> t[b[i]]]
             r == [i \in DOMAIN Append(b, n) |-> t[Append(b, n)[i]]]
  <1>1. \A i \in DOMAIN b : b[i] \in 1..Len(t)
    <2>1. \A i \in DOMAIN b : b[i] \in Range(b)
      BY DEF Range
    <2>2. 1..(n - 1) \subseteq 1..Len(t)
      <3> HIDE DEF s, r
      <3> QED OBVIOUS
    <2> QED BY <2>1, <2>2
  <1>2. s \in Seq(Nat) /\ t[n] \in Nat /\ Len(s) = Len(b)
    <2>1. DOMAIN b = 1..Len(b) /\ Len(b) \in Nat
      OBVIOUS
    <2>2. \A i \in 1..Len(b) : t[b[i]] \in Nat
      <3>1. \A k \in 1..Len(t) : t[k] \in Nat
        OBVIOUS
      <3> QED BY <1>1, <2>1, <3>1
    <2>3. s = [i \in 1..Len(b) |-> t[b[i]]]
      BY <2>1
    <2> HIDE DEF s
    <2> QED BY <2>1, <2>2, <2>3
  <1>3. r = Append(s, t[n])
    <2> DEFINE a == Append(b, n)
               v == Append(s, t[n])
    <2>1. /\ DOMAIN a = 1..(Len(b) + 1) /\ DOMAIN b = 1..Len(b) /\ Len(b) \in Nat
          /\ \A i \in 1..Len(b) : a[i] = b[i]
          /\ a[Len(b) + 1] = n
      OBVIOUS
    <2>2. \A i \in 1..Len(b) : s[i] = t[b[i]]
      BY <2>1
    <2>3. r = [i \in DOMAIN a |-> t[a[i]]]
      OBVIOUS
    <2> HIDE DEF s, r, a
    <2>4. /\ v = [i \in 1..(Len(b) + 1) |-> v[i]]
          /\ \A i \in 1..Len(b) : v[i] = s[i]
          /\ v[Len(b) + 1] = t[n]
      BY <1>2, <2>1
    <2> HIDE DEF v
    <2>5. ASSUME NEW i \in 1..(Len(b) + 1) PROVE t[a[i]] = v[i]
      <3>1. CASE i = Len(b) + 1
        BY <2>1, <2>4, <3>1
      <3>2. CASE i # Len(b) + 1
        <4>1. i \in 1..Len(b)
          BY <2>1, <3>2
        <4> QED BY <2>1, <2>2, <2>4, <4>1
      <3> QED BY <3>1, <3>2
    <2>6. r = v
      BY <2>1, <2>3, <2>4, <2>5
    <2> QED BY <2>6 DEF v
  <1> QED BY <1>2, <1>3, SumOneMore DEF Bytes

LEMMA NoBytes == \A t : Bytes(t, <<>>) = 0
  <1>1. \A t : [i \in DOMAIN <<>> |-> t[<<>>[i]]] = <<>>
    OBVIOUS
  <1> QED BY <1>1, SumOfNone DEF Bytes

LEMMA FlushCovers ==
    ASSUME NEW t, NEW n \in Nat, NEW p, Covered(t, n, p)
    PROVE  Covers(t, Flush(p), 1..n)
  <1>1. CASE p.batch = <<>>
    <2>1. Range(p.batch) = {}
      BY <1>1 DEF Range
    <2>2. (1..n) \ Range(p.batch) = 1..n
      BY <2>1
    <2> QED BY <1>1, <2>2 DEF Covered, Flush
  <1>2. CASE p.batch # <<>>
    <2> DEFINE S == (1..n) \ Range(p.batch)
    <2>1. /\ p.jobs \in Seq(Seq(Nat)) /\ p.batch \in Seq(Nat)
          /\ Covers(t, p.jobs, S) /\ Within(t, p.batch) /\ Range(p.batch) \cap S = {}
      BY DEF Covered, Plans
    <2>2. S \cup Range(p.batch) = 1..n
      BY DEF Covered
    <2> HIDE DEF S
    <2>3. Covers(t, Append(p.jobs, p.batch), S \cup Range(p.batch))
      BY <2>1, OneMoreJob
    <2> QED BY <1>2, <2>2, <2>3 DEF Flush
  <1> QED BY <1>1, <1>2

LEMMA PlaceCovers ==
    ASSUME NEW t \in Seq(Nat), NEW n \in 1..Len(t), NEW p, Covered(t, n - 1, p)
    PROVE  Covered(t, n, Place(t, n, p))
  <1> DEFINE q == Place(t, n, p)
             S == (1..(n - 1)) \ Range(p.batch)
  <1>1. /\ p.jobs \in Seq(Seq(Nat)) /\ p.batch \in Seq(Nat) /\ p.bytes \in Nat /\ p \in Plans
        /\ Range(p.batch) \subseteq 1..(n - 1) /\ n \notin Range(p.batch)
        /\ p.bytes = Bytes(t, p.batch) /\ Within(t, p.batch) /\ Covers(t, p.jobs, S)
        /\ n - 1 \in Nat /\ n \in Nat /\ t[n] \in Nat
    BY DEF Covered, Plans
  <1>2. q \in Plans
    BY <1>1, PlaceInPlans
  <1>3. <<n>> \in Seq(Nat) /\ Range(<<n>>) = {n} /\ Within(t, <<n>>)
    BY <1>1 DEF Range, Within
  <1>4. Bytes(t, <<n>>) = t[n]
    <2>1. <<>> \in Seq(Nat) /\ Range(<<>>) \subseteq 1..(n - 1) /\ Append(<<>>, n) = <<n>>
      BY DEF Range
    <2>2. Bytes(t, Append(<<>>, n)) = Bytes(t, <<>>) + t[n]
      BY <2>1, OneMoreTable
    <2> QED BY <1>1, <2>1, <2>2, NoBytes
  <1>5. CASE n \in Solo(t)
    <2>1. q.jobs = Append(p.jobs, <<n>>) /\ q.batch = p.batch /\ q.bytes = p.bytes
      BY <1>5 DEF Place
    <2>2. Covers(t, Append(p.jobs, <<n>>), S \cup {n})
      <3>1. Range(<<n>>) \cap S = {}
        BY <1>3
      <3> HIDE DEF S
      <3> QED BY <1>1, <1>3, <3>1, OneMoreJob
    <2>3. S \cup {n} = (1..n) \ Range(p.batch)
      BY <1>1
    <2>4. Range(p.batch) \subseteq 1..n
      BY <1>1
    <2> HIDE DEF q, S
    <2>5. Covered(t, n, q)
      BY <1>1, <1>2, <2>1, <2>2, <2>3, <2>4 DEF Covered
    <2> QED BY <2>5 DEF q
  <1>6. CASE n \notin Solo(t) /\ Full(p.batch, p.bytes, t[n])
    <2>1. q.jobs = Flush(p) /\ q.batch = <<n>> /\ q.bytes = t[n]
      BY <1>6 DEF Place
    <2>2. Covers(t, Flush(p), 1..(n - 1))
      BY <1>1, FlushCovers
    <2>3. 1..(n - 1) = (1..n) \ Range(q.batch) /\ Range(q.batch) \subseteq 1..n
      <3>1. Range(q.batch) = {n}
        BY <1>3, <2>1
      <3> HIDE DEF q, S
      <3>2. 1..(n - 1) = (1..n) \ {n} /\ {n} \subseteq 1..n
        BY <1>1
      <3> QED BY <3>1, <3>2
    <2> HIDE DEF q
    <2>4. Covered(t, n, q)
      BY <1>2, <1>3, <1>4, <2>1, <2>2, <2>3 DEF Covered
    <2> QED BY <2>4 DEF q
  <1>7. CASE n \notin Solo(t) /\ ~Full(p.batch, p.bytes, t[n])
    <2>1. q.jobs = p.jobs /\ q.batch = Append(p.batch, n) /\ q.bytes = p.bytes + t[n]
      BY <1>7 DEF Place
    <2>2. Bytes(t, Append(p.batch, n)) = p.bytes + t[n]
      BY <1>1, OneMoreTable
    <2>3. Range(Append(p.batch, n)) = Range(p.batch) \cup {n} /\ Len(Append(p.batch, n)) = Len(p.batch) + 1
      BY <1>1, RangeGrows
    <2>4. Within(t, Append(p.batch, n))
      <3> SUFFICES ASSUME Len(Append(p.batch, n)) > 1
                   PROVE  Len(Append(p.batch, n)) <= BatchMaxCount /\ p.bytes + t[n] <= BatchBytes
        BY <2>2 DEF Within
      <3>1. Len(p.batch) \in Nat /\ p.batch # <<>>
        BY <1>1, <2>3
      <3>2. ~(p.bytes + t[n] > BatchBytes) /\ ~(Len(p.batch) >= BatchMaxCount)
        BY <1>7, <3>1 DEF Full
      <3>3. BatchMaxCount \in Nat /\ BatchBytes \in Nat
        BY Limits
      <3> HIDE DEF q, S
      <3>4. p.bytes + t[n] <= BatchBytes
        BY <1>1, <3>2, <3>3
      <3>5. Len(p.batch) + 1 <= BatchMaxCount
        BY <3>1, <3>2, <3>3
      <3> QED BY <2>3, <3>4, <3>5
    <2>5. S = (1..n) \ (Range(p.batch) \cup {n}) /\ Range(p.batch) \cup {n} \subseteq 1..n
      BY <1>1
    <2> HIDE DEF q, S
    <2>6. Covered(t, n, q)
      BY <1>1, <1>2, <2>1, <2>2, <2>3, <2>4, <2>5 DEF Covered
    <2> QED BY <2>6 DEF q
  <1> QED BY <1>5, <1>6, <1>7

\* Each table is in one job of the plan and no other.
LEMMA PlanCovers ==
    ASSUME NEW t \in Seq(Nat)
    PROVE  PlanDataJobs(t) \in Seq(Seq(Nat)) /\ Covers(t, PlanDataJobs(t), 1..Len(t))
  <1> DEFINE T == {n \in 0..Len(t) : Covered(t, n, Placed(t)[n])}
  <1>1. 0 \in T
    <2>1. NoPlan \in Plans /\ NoPlan.jobs = <<>> /\ NoPlan.batch = <<>> /\ NoPlan.bytes = 0
      BY DEF NoPlan, Plans
    <2>2. Range(<<>>) = {} /\ (1..0) \ Range(<<>>) = {} /\ Within(t, <<>>)
      BY DEF Range, Within
    <2>3. Covers(t, <<>>, {})
      BY DEF Covers
    <2>4. Covered(t, 0, NoPlan)
      BY <2>1, <2>2, <2>3, NoBytes DEF Covered
    <2> QED BY <2>4, PlacedIs
  <1>2. ASSUME NEW n \in 1..Len(t), n - 1 \in T PROVE n \in T
    <2>1. Covered(t, n - 1, Placed(t)[n - 1])
      BY <1>2
    <2>2. Covered(t, n, Placed(t)[n])
      BY <2>1, PlaceCovers, PlacedIs
    <2> QED BY <2>2
  <1>3. T = 0..Len(t)
    <2>1. Len(t) \in Nat /\ T \in SUBSET (0..Len(t))
      OBVIOUS
    <2> HIDE DEF T
    <2> QED BY <1>1, <1>2, <2>1, UpTo
  <1>4. Covered(t, Len(t), Placed(t)[Len(t)]) /\ Len(t) \in Nat
    BY <1>3
  <1>5. Flush(Placed(t)[Len(t)]) \in Seq(Seq(Nat))
    BY <1>4 DEF Flush, Covered, Plans
  <1> QED BY <1>4, <1>5, FlushCovers DEF PlanDataJobs

-----------------------------------------------------------------------------

N == Len(DataJobs)

Flags ==
    /\ tables \in TablesUpTo(MaxTables)
    /\ producer \in {"pre", "data", "post", "meta", "close", "gone"}
    /\ failed \in BOOLEAN
    /\ worker \in [Workers -> Int] /\ queue \in Seq(Nat)
    /\ ended \in [JobIds -> {"open", "ok", "err"}]
    /\ upload \in {"eof", "error"} => producer = "gone"

\* Processes run only while the producer is at the data.
ProcessesAtData ==
    producer # "data" => \A w \in Workers : worker[w] \notin JobIds

-----------------------------------------------------------------------------
\* The dump while nothing has failed.

Good == upload = "reads" /\ ~failed /\ producer # "gone"

\* Entries are created in the order of the jobs.
InOrder ==
    /\ entries \in Seq(Nat) /\ written \in 0..Len(entries)
    /\ \A i \in 1..Len(entries) : entries[i] = i - 1
    /\ Len(entries) + Len(queue) = N + 1
    /\ \A i \in 1..Len(queue) : queue[i] = Len(entries) + i - 1

\* A worker has an entry to itself, one the producer is not done with.
OwnEntry ==
    /\ \A w \in Workers : worker[w] \in JobIds =>
          written <= worker[w] /\ worker[w] < Len(entries) /\ ended[worker[w]] = "open"
    /\ \A v, w \in Workers : worker[v] \in JobIds /\ worker[v] = worker[w] => v = w
    /\ \A j \in JobIds : j >= Len(entries) => ended[j] = "open"

\* The first worker leaves when there are no more jobs, or its last one failed.
FirstLeaves ==
    /\ producer = "pre" => worker[1] # Gone
    /\ worker[1] = Gone =>
          \/ queue = <<>>
          \/ \E j \in JobIds : written <= j /\ j < Len(entries) /\ ended[j] = "err"

Names == {"pre", "data", "post"} \X Int

\* The schema and the first n jobs.
Part(a, n) ==
    /\ a \in Seq(Names) /\ Len(a) = n + 1 /\ a[1] = Pre
    /\ \A i \in 2..(n + 1) : a[i] = Data(i - 2)

Whole(a) ==
    /\ a \in Seq(Names) /\ Len(a) = N + 3 /\ a[1] = Pre /\ a[N + 3] = Post
    /\ \A i \in 2..(N + 2) : a[i] = Data(i - 2)

\* What the archive holds when the producer is at each section.
Filled ==
    /\ producer = "pre" => archive = <<>> /\ written = 0
    /\ producer \in {"data", "post"} => Part(archive, written)
    /\ producer = "post" => written = N + 1
    /\ producer \in {"meta", "close"} => Whole(archive)
    /\ producer = "close" => manifest = archive

GoodInv == Good => ~cancelled /\ InOrder /\ OwnEntry /\ FirstLeaves /\ Filled

Uploaded == upload = "eof" => Whole(archive) /\ manifest = archive

Inv == Flags /\ ProcessesAtData /\ GoodInv /\ Uploaded

-----------------------------------------------------------------------------

LEMMA Numbers ==
    /\ MaxTables \in Nat /\ JobIds \subseteq Nat /\ 1 \in Workers
    /\ Free \notin JobIds /\ Gone \notin JobIds /\ Free # Gone
    /\ Free \in Int /\ Gone \in Int
  BY DumpAssumption DEF JobIds, Workers, Free, Gone

LEMMA TablesAre == ASSUME NEW t \in TablesUpTo(MaxTables) PROVE t \in Seq(Nat)
  <1>1. t \in UNION {[1..k -> Sizes] : k \in 0..MaxTables}
    BY DEF TablesUpTo
  <1>2. PICK k \in 0..MaxTables : t \in [1..k -> Sizes]
    BY <1>1
  <1>3. Sizes \subseteq Nat /\ MaxTables \in Nat
    BY DumpAssumption
  <1>4. k \in Nat
    BY <1>3
  <1>5. t \in [1..k -> Nat]
    BY <1>2, <1>3
  <1> QED BY <1>4, <1>5

LEMMA PlanLength == ASSUME tables \in TablesUpTo(MaxTables) PROVE N \in Nat
  <1>1. DataJobs \in Seq(Seq(Nat))
    BY TablesAre, PlanCovers DEF DataJobs
  <1> QED BY <1>1 DEF N

\* One more file.
LEMMA PartGrows ==
    ASSUME NEW n \in Nat, NEW a, Part(a, n)
    PROVE  Part(Append(a, Data(n)), n + 1)
  <1>1. Data(n) \in Names
    BY DEF Data, Names
  <1>2. /\ Append(a, Data(n)) \in Seq(Names) /\ Len(Append(a, Data(n))) = n + 2
        /\ \A i \in 1..(n + 1) : Append(a, Data(n))[i] = a[i]
        /\ Append(a, Data(n))[n + 2] = Data(n)
    BY <1>1 DEF Part
  <1>3. ASSUME NEW i \in 2..(n + 2) PROVE Append(a, Data(n))[i] = Data(i - 2)
    <2>1. CASE i = n + 2
      BY <1>2, <2>1
    <2>2. CASE i # n + 2
      BY <1>2, <2>2 DEF Part
    <2> QED BY <2>1, <2>2
  <1> QED BY <1>2, <1>3 DEF Part

LEMMA PartEnds ==
    ASSUME N \in Nat, NEW a, Part(a, N + 1)
    PROVE  Whole(Append(a, Post))
  <1>1. Post \in Names
    BY DEF Post, Names
  <1>2. /\ Append(a, Post) \in Seq(Names) /\ Len(Append(a, Post)) = N + 3
        /\ \A i \in 1..(N + 2) : Append(a, Post)[i] = a[i]
        /\ Append(a, Post)[N + 3] = Post
    BY <1>1 DEF Part
  <1> QED BY <1>2 DEF Part, Whole

LEMMA PartBegins == Part(Append(<<>>, Pre), 0)
  <1>1. Pre \in Names
    BY DEF Pre, Names
  <1> QED BY <1>1 DEF Part

LEMMA InvInit == Init => Inv
  <1> SUFFICES ASSUME Init PROVE Inv
    OBVIOUS
  <1>1. tables \in TablesUpTo(MaxTables)
    BY DEF Init, DumpInit
  <1>2. N \in Nat /\ queue = [i \in 1..(N + 1) |-> i - 1]
    BY <1>1, PlanLength DEF N, Init, DumpInit
  <1>7. queue \in Seq(Nat) /\ Len(queue) = N + 1
    BY <1>2
  <1>10. Flags
    BY <1>1, <1>7, Numbers DEF Init, DumpInit, Flags
  <1>3. \A w \in Workers : worker[w] \in {Free, Gone}
    BY DEF Init, DumpInit
  <1>4. ProcessesAtData
    BY <1>3, Numbers DEF ProcessesAtData
  <1>5. 1 \in Started /\ worker[1] = Free
    BY <1>2, Numbers DEF Init, DumpInit, Started, N
  <1>6. /\ queue = [i \in 1..(N + 1) |-> i - 1] /\ entries = <<>> /\ written = 0
        /\ producer = "pre" /\ archive = <<>> /\ ~cancelled /\ upload = "reads"
        /\ ended = [j \in JobIds |-> "open"]
    BY DEF Init, DumpInit, N
  <1>8. InOrder
    BY <1>2, <1>6, <1>7 DEF InOrder
  <1>9. OwnEntry /\ FirstLeaves /\ Filled
    BY <1>3, <1>5, <1>6, Numbers DEF OwnEntry, FirstLeaves, Filled
  <1> QED BY <1>10, <1>4, <1>6, <1>8, <1>9 DEF Inv, GoodInv, Uploaded

\* Steps that touch neither the archive nor what fills it.
Core == <<tables, producer, failed, written, queue, entries, worker, ended, cancelled,
          archive, manifest, upload>>

LEMMA CoreKept == ASSUME Inv, UNCHANGED Core PROVE Inv'
  BY DEF Core, Inv, Flags, ProcessesAtData, GoodInv, Good, InOrder, OwnEntry, FirstLeaves,
         Filled, Uploaded, Part, Whole, N, DataJobs

LEMMA ProducerStep == ASSUME Inv, Produce PROVE Inv'
  <1>0. Flags /\ ProcessesAtData /\ GoodInv /\ Uploaded /\ N \in Nat
    BY PlanLength DEF Inv, Flags
  <1> USE <1>0 DEF plan, channels
  <1>n. ASSUME UNCHANGED tables
        PROVE  N' = N /\ \A a : Whole(a)' <=> Whole(a)
    BY <1>n DEF N, DataJobs, Whole
  <1>1. CASE SectionWritten("pre", Pre, "data")
    <2>1. /\ producer = "pre" /\ upload = "reads" /\ producer' = "data"
          /\ archive' = Append(archive, Pre)
          /\ UNCHANGED <<tables, failed, written, queue, entries, worker, ended, cancelled,
                         manifest, upload>>
      BY <1>1 DEF SectionWritten
    <2>2. Flags' /\ ProcessesAtData' /\ Uploaded'
      BY <2>1 DEF Flags, ProcessesAtData, Uploaded
    <2>3. Good => Part(archive', written')
      BY <2>1, PartBegins DEF GoodInv, Good, Filled
    <2>4. GoodInv'
      BY <2>1, <2>3, <1>n DEF GoodInv, Good, InOrder, OwnEntry, FirstLeaves, Filled, Part
    <2> QED BY <2>2, <2>4 DEF Inv
  <1>2. CASE SectionWritten("post", Post, "meta")
    <2>1. /\ producer = "post" /\ upload = "reads" /\ producer' = "meta"
          /\ archive' = Append(archive, Post)
          /\ UNCHANGED <<tables, failed, written, queue, entries, worker, ended, cancelled,
                         manifest, upload>>
      BY <1>2 DEF SectionWritten
    <2>2. Flags' /\ ProcessesAtData' /\ Uploaded'
      BY <2>1 DEF Flags, ProcessesAtData, Uploaded
    <2>3. Good => Whole(archive')
      BY <2>1, PartEnds DEF GoodInv, Good, Filled
    <2>4. GoodInv'
      BY <2>1, <2>3, <1>n DEF GoodInv, Good, InOrder, OwnEntry, FirstLeaves, Filled
    <2> QED BY <2>2, <2>4 DEF Inv
  <1>3. ASSUME NEW at \in {"pre", "post"}, SectionFails(at) PROVE Inv'
    <2>1. /\ producer = at /\ failed' /\ producer' = "close"
          /\ UNCHANGED <<tables, queue, worker, ended, archive, manifest, upload>>
      BY <1>3 DEF SectionFails
    <2>2. ~Good' /\ Flags' /\ ProcessesAtData'
      BY <2>1 DEF Good, Flags, ProcessesAtData
    <2>3. Uploaded'
      BY <2>1 DEF Uploaded, Flags
    <2> QED BY <2>2, <2>3 DEF Inv, GoodInv
  <1>4. CASE MoveChunk
    BY <1>4, CoreKept DEF MoveChunk, Core, Inv
  <1>5. CASE EndEntry
    <2>1. /\ producer = "data" /\ written < Len(entries) /\ ended[Current] # "open"
          /\ written' = written + 1
          /\ UNCHANGED <<tables, producer, queue, entries, worker, ended, manifest, upload>>
      BY <1>5 DEF EndEntry
    <2>2. \/ UNCHANGED <<failed, cancelled>> /\ (failed \/ ended[Current] = "ok")
          \/ failed' = TRUE
      BY <1>5 DEF EndEntry
    <2>3. upload # "eof" /\ failed' \in BOOLEAN
      BY <2>1, <2>2 DEF Flags
    <2>4. Flags' /\ ProcessesAtData' /\ Uploaded'
      BY <2>1, <2>3 DEF Flags, ProcessesAtData, Uploaded
    <2>5. GoodInv'
      <3> SUFFICES ASSUME Good' PROVE (~cancelled /\ InOrder /\ OwnEntry /\ FirstLeaves /\ Filled)'
        BY DEF GoodInv
      <3>1. /\ Good /\ UNCHANGED <<failed, cancelled>> /\ ended[Current] = "ok"
            /\ archive' = Append(archive, Data(Current))
        BY <1>5, <2>1, <2>2 DEF Good, EndEntry
      <3>2. ~cancelled /\ InOrder /\ OwnEntry /\ FirstLeaves /\ Filled
        BY <3>1 DEF GoodInv
      <3>3. Current = written /\ written \in Nat /\ Len(entries) \in Nat
        BY <2>1, <3>2 DEF Current, InOrder
      <3>4. InOrder'
        BY <2>1, <3>2, <3>3, <1>n DEF InOrder
      <3>5. OwnEntry'
        <4>1. ASSUME NEW w \in Workers, worker[w] \in JobIds PROVE worker[w] # written
          BY <3>1, <3>2, <3>3, <4>1 DEF OwnEntry
        <4>2. ASSUME NEW w \in Workers, worker[w] \in JobIds PROVE written + 1 <= worker[w]
          <5>1. written <= worker[w]
            BY <3>2, <4>2 DEF OwnEntry
          <5>2. worker[w] \in Nat
            BY <4>2, Numbers
          <5> QED BY <3>3, <4>1, <4>2, <5>1, <5>2
        <4> QED BY <2>1, <3>2, <4>2 DEF OwnEntry
      <3>6. FirstLeaves'
        BY <2>1, <3>1, <3>2, <3>3, Numbers DEF FirstLeaves
      <3>7. Part(archive', written')
        BY <2>1, <3>1, <3>2, <3>3, PartGrows DEF Filled
      <3>8. Filled'
        BY <2>1, <3>7 DEF Filled, Part
      <3> QED BY <3>1, <3>2, <3>4, <3>5, <3>6, <3>8
    <2> QED BY <2>4, <2>5 DEF Inv
  <1>6. CASE EndData
    <2>1. /\ producer = "data" /\ written = Len(entries) /\ \A w \in Workers : worker[w] = Gone
          /\ producer' = IF failed THEN "close" ELSE "post"
          /\ UNCHANGED <<tables, failed, written, queue, entries, worker, ended, cancelled,
                         archive, manifest, upload>>
      BY <1>6 DEF EndData, Drained
    <2>2. Flags' /\ ProcessesAtData' /\ Uploaded'
      BY <2>1, Numbers DEF Flags, ProcessesAtData, Uploaded
    <2>3. GoodInv'
      <3> SUFFICES ASSUME Good' PROVE (~cancelled /\ InOrder /\ OwnEntry /\ FirstLeaves /\ Filled)'
        BY DEF GoodInv
      <3>1. Good /\ producer' = "post"
        BY <2>1 DEF Good
      <3>2. ~cancelled /\ InOrder /\ OwnEntry /\ FirstLeaves /\ Filled
        BY <3>1 DEF GoodInv
      <3>3. queue = <<>>
        BY <2>1, <3>2, Numbers DEF FirstLeaves, InOrder
      <3>4. written = N + 1
        BY <2>1, <3>2, <3>3 DEF InOrder
      <3>5. Filled'
        BY <2>1, <3>1, <3>2, <3>4, <1>n DEF Filled, Part
      <3>6. InOrder' /\ OwnEntry' /\ FirstLeaves'
        BY <2>1, <3>1, <3>2, <1>n DEF InOrder, OwnEntry, FirstLeaves
      <3> QED BY <2>1, <3>2, <3>5, <3>6
    <2> QED BY <2>2, <2>3 DEF Inv
  <1>7. CASE WriteMeta
    <2>1. /\ producer = "meta" /\ producer' = "close" /\ upload = "reads" /\ manifest' = archive
          /\ UNCHANGED <<tables, failed, written, queue, entries, worker, ended, cancelled,
                         archive, upload>>
      BY <1>7 DEF WriteMeta
    <2>2. Flags' /\ ProcessesAtData' /\ Uploaded'
      BY <2>1 DEF Flags, ProcessesAtData, Uploaded
    <2>3. GoodInv'
      BY <2>1, <1>n DEF GoodInv, Good, InOrder, OwnEntry, FirstLeaves, Filled
    <2> QED BY <2>2, <2>3 DEF Inv
  <1>8. CASE Close
    <2>1. /\ producer = "close" /\ upload = "reads" /\ producer' = "gone"
          /\ upload' = IF failed THEN "error" ELSE "eof"
          /\ UNCHANGED <<tables, failed, queue, worker, ended, archive, manifest>>
      BY <1>8 DEF Close, Reported
    <2>2. Flags' /\ ProcessesAtData' /\ ~Good'
      BY <2>1 DEF Flags, ProcessesAtData, Good
    <2>3. Uploaded'
      BY <2>1, <1>n DEF Uploaded, GoodInv, Good, Filled
    <2> QED BY <2>2, <2>3 DEF Inv, GoodInv
  <1> QED BY <1>1, <1>2, <1>3, <1>4, <1>5, <1>6, <1>7, <1>8 DEF Produce, Section

LEMMA WorkerStep == ASSUME Inv, NEW w \in Workers, Work(w) PROVE Inv'
  <1>0. Flags /\ ProcessesAtData /\ GoodInv /\ Uploaded /\ N \in Nat
    BY PlanLength DEF Inv, Flags
  <1> USE <1>0, Numbers DEF plan, channels
  <1>n. ASSUME UNCHANGED tables
        PROVE  N' = N /\ \A a : Whole(a)' <=> Whole(a)
    BY <1>n DEF N, DataJobs, Whole
  <1>1. CASE Take(w) /\ (cancelled \/ queue = <<>>)
    <2>1. /\ producer = "data" /\ worker[w] = Free /\ worker' = [worker EXCEPT ![w] = Gone]
          /\ queue' = IF queue = <<>> THEN queue ELSE Tail(queue)
          /\ UNCHANGED <<tables, producer, failed, written, entries, ended, cancelled,
                         archive, manifest, upload>>
      BY <1>1 DEF Take
    <2>0. queue' \in Seq(Nat)
      BY <2>1 DEF Flags
    <2>2. Flags' /\ ProcessesAtData' /\ Uploaded'
      BY <2>0, <2>1, <1>n DEF Flags, ProcessesAtData, Uploaded
    <2>3. GoodInv'
      <3> SUFFICES ASSUME Good PROVE (~cancelled /\ InOrder /\ OwnEntry /\ FirstLeaves /\ Filled)'
        BY <2>1 DEF GoodInv, Good
      <3>1. queue = <<>> /\ queue' = queue
        BY <1>1, <2>1 DEF GoodInv
      <3>2. InOrder' /\ Filled' /\ ~cancelled'
        BY <2>1, <3>1, <1>n DEF GoodInv, InOrder, Filled, Part
      <3>3. OwnEntry' /\ FirstLeaves'
        BY <2>1, <3>1 DEF GoodInv, OwnEntry, FirstLeaves, Flags
      <3> QED BY <3>2, <3>3
    <2> QED BY <2>2, <2>3 DEF Inv
  <1>2. CASE Take(w) /\ ~(cancelled \/ queue = <<>>)
    <2>1. /\ producer = "data" /\ worker[w] = Free /\ worker' = [worker EXCEPT ![w] = Head(queue)]
          /\ queue' = Tail(queue) /\ entries' = Append(entries, Head(queue)) /\ queue # <<>>
          /\ UNCHANGED <<tables, producer, failed, written, ended, cancelled,
                         archive, manifest, upload>>
      BY <1>2 DEF Take
    <2>2. Head(queue) \in Nat /\ Tail(queue) \in Seq(Nat)
      BY <2>1 DEF Flags
    <2>3. Flags' /\ ProcessesAtData' /\ Uploaded'
      BY <2>1, <2>2, <1>n DEF Flags, ProcessesAtData, Uploaded
    <2>4. GoodInv'
      <3> SUFFICES ASSUME Good PROVE (~cancelled /\ InOrder /\ OwnEntry /\ FirstLeaves /\ Filled)'
        BY <2>1 DEF GoodInv, Good
      <3>0. ~cancelled /\ InOrder /\ OwnEntry /\ FirstLeaves /\ Filled
        BY DEF GoodInv
      <3> DEFINE j == Len(entries)
      <3>1. Head(queue) = j /\ j \in Nat
        <4>1. j \in Nat /\ 1 \in 1..Len(queue) /\ Head(queue) = queue[1]
          BY <2>1, <3>0 DEF InOrder, Flags
        <4>2. queue[1] = j + 1 - 1
          BY <3>0, <4>1 DEF InOrder
        <4> QED BY <4>1, <4>2
      <3>2. /\ Len(entries') = j + 1 /\ entries' \in Seq(Nat)
            /\ \A i \in 1..j : entries'[i] = entries[i]
            /\ entries'[j + 1] = j
        BY <2>1, <3>0, <3>1 DEF InOrder
      <3>3. Len(queue') = Len(queue) - 1 /\ \A i \in 1..Len(queue') : queue'[i] = queue[i + 1]
        BY <2>1 DEF Flags
      <3>4. Len(queue) \in Nat /\ Len(queue') \in Nat
        BY <2>1, <2>2 DEF Flags
      <3>5. \A i \in 1..(j + 1) : entries'[i] = i - 1
        <4>1. \A i \in 1..(j + 1) : i \in 1..j \/ i = j + 1
          BY <3>1
        <4>2. \A i \in 1..j : entries[i] = i - 1
          BY <3>0 DEF InOrder
        <4> QED BY <3>1, <3>2, <4>1, <4>2
      <3>6. \A i \in 1..Len(queue') : queue'[i] = j + 1 + i - 1
        BY <3>0, <3>1, <3>3, <3>4 DEF InOrder
      <3>7. InOrder'
        BY <2>1, <3>0, <3>1, <3>2, <3>3, <3>4, <3>5, <3>6, <1>n DEF InOrder
      <3>8. OwnEntry'
        <4>1. /\ worker'[w] = j /\ \A v \in Workers : v # w => worker'[v] = worker[v]
          BY <2>1, <3>1 DEF Flags
        <4>2. \A v \in Workers : worker[v] \in JobIds => worker[v] < j
          BY <3>0 DEF OwnEntry
        <4>3. j \in JobIds => ended[j] = "open"
          BY <3>0, <3>1 DEF OwnEntry
        <4>4. written <= j
          BY <3>0, <3>1 DEF InOrder
        <4>5. ASSUME NEW v \in Workers, worker'[v] \in JobIds
              PROVE  written <= worker'[v] /\ worker'[v] < j + 1 /\ ended[worker'[v]] = "open"
          <5>1. CASE v = w
            BY <3>1, <4>1, <4>3, <4>4, <4>5, <5>1
          <5>2. CASE v # w
            <6>1. worker'[v] = worker[v]
              BY <4>1, <5>2
            <6>2. written <= worker[v] /\ worker[v] < j /\ ended[worker[v]] = "open"
              BY <3>0, <4>5, <6>1 DEF OwnEntry
            <6>3. worker[v] \in Nat
              BY <4>5, <6>1
            <6> QED BY <3>1, <6>1, <6>2, <6>3
          <5> QED BY <5>1, <5>2
        <4>6. \A u, v \in Workers : worker'[u] \in JobIds /\ worker'[u] = worker'[v] => u = v
          BY <3>0, <3>1, <4>1, <4>2 DEF OwnEntry
        <4>7. \A k \in JobIds : k >= j + 1 => ended[k] = "open"
          BY <3>0, <3>1 DEF OwnEntry
        <4> QED BY <2>1, <3>2, <4>5, <4>6, <4>7 DEF OwnEntry
      <3>9. FirstLeaves'
        <4>0. j # Gone
          BY <3>1 DEF Gone
        <4>1. worker'[1] = Gone => worker[1] = Gone
          BY <2>1, <3>1, <4>0 DEF Flags
        <4>2. \A k \in JobIds : k < j => k < j + 1
          BY <3>1
        <4>3. worker'[1] = Gone => \E k \in JobIds : written <= k /\ k < j + 1 /\ ended[k] = "err"
          BY <2>1, <3>0, <4>1, <4>2 DEF FirstLeaves
        <4> QED BY <2>1, <3>2, <4>3 DEF FirstLeaves
      <3>10. Filled'
        BY <2>1, <3>0 DEF Filled, Part
      <3> QED BY <2>1, <3>0, <3>7, <3>8, <3>9, <3>10
    <2> QED BY <2>3, <2>4 DEF Inv
  <1>3. CASE WriteChunk(w)
    BY <1>3, CoreKept DEF WriteChunk, Core, Inv
  <1>4. ASSUME NEW result \in {"ok", "err"}, NEW next \in {Free, Gone}, Ends(w, result, next),
               result = "err" <=> next = Gone
        PROVE  Inv'
    <2> DEFINE j == worker[w]
    <2>1. /\ j \in JobIds /\ producer = "data"
          /\ ended' = [ended EXCEPT ![j] = result] /\ worker' = [worker EXCEPT ![w] = next]
          /\ UNCHANGED <<tables, producer, failed, written, queue, entries, cancelled,
                         archive, manifest, upload>>
      BY <1>4 DEF Ends, ProcessesAtData
    <2>2. Flags' /\ ProcessesAtData' /\ Uploaded'
      BY <2>1, <1>n DEF Flags, ProcessesAtData, Uploaded
    <2>3. GoodInv'
      <3> SUFFICES ASSUME Good PROVE (~cancelled /\ InOrder /\ OwnEntry /\ FirstLeaves /\ Filled)'
        BY <2>1 DEF GoodInv, Good
      <3>0. ~cancelled /\ InOrder /\ OwnEntry /\ FirstLeaves /\ Filled
        BY DEF GoodInv
      <3>1. InOrder' /\ Filled'
        BY <2>1, <3>0, <1>n DEF InOrder, Filled, Part
      <3>2. /\ worker'[w] = next /\ ended'[j] = result
            /\ \A v \in Workers : v # w => worker'[v] = worker[v]
            /\ \A k \in JobIds : k # j => ended'[k] = ended[k]
        BY <2>1 DEF Flags
      <3>3. \A v \in Workers : v # w /\ worker[v] \in JobIds => worker[v] # j
        BY <2>1, <3>0 DEF OwnEntry
      <3>4. written <= j /\ j < Len(entries) /\ j \in Nat /\ Len(entries) \in Nat
        <4>1. written <= j /\ j < Len(entries)
          BY <2>1, <3>0 DEF OwnEntry
        <4>2. Len(entries) \in Nat
          BY <3>0 DEF InOrder
        <4>3. worker[w] \in Nat
          BY <2>1, Numbers
        <4> QED BY <4>1, <4>2, <4>3
      <3>5. OwnEntry'
        BY <2>1, <3>0, <3>2, <3>3, <3>4 DEF OwnEntry
      <3>6. FirstLeaves'
        <4>1. ASSUME worker'[1] = Gone
              PROVE  queue = <<>> \/ \E k \in JobIds : written <= k /\ k < Len(entries) /\ ended'[k] = "err"
          <5>1. CASE w = 1
            BY <1>4, <2>1, <3>2, <3>4, <4>1, <5>1
          <5>2. CASE w # 1
            <6>1. worker[1] = Gone
              BY <3>2, <4>1, <5>2
            <6>2. ended[j] = "open"
              BY <2>1, <3>0 DEF OwnEntry
            <6> QED BY <3>0, <3>2, <6>1, <6>2 DEF FirstLeaves
          <5> QED BY <5>1, <5>2
        <4> QED BY <2>1, <4>1 DEF FirstLeaves
      <3> QED BY <2>1, <3>0, <3>1, <3>5, <3>6
    <2> QED BY <2>2, <2>3 DEF Inv
  <1>5. CASE DumpEnds(w) \/ DumpFails(w)
    BY <1>4, <1>5 DEF DumpEnds, DumpFails
  <1> QED BY <1>1, <1>2, <1>3, <1>5 DEF Work

LEMMA InvStep == Inv /\ [Next]_vars => Inv'
  <1> SUFFICES ASSUME Inv, [Next]_vars PROVE Inv'
    OBVIOUS
  <1>1. CASE UploadFails \/ JobReturns
    <2>1. /\ UNCHANGED <<tables, producer, failed, queue, worker, ended, archive, manifest>>
          /\ upload' \in {upload, "failed"} /\ upload' # "reads"
      BY <1>1 DEF UploadFails, JobReturns, plan, channels
    <2>2. Flags' /\ ProcessesAtData' /\ ~Good'
      BY <2>1 DEF Inv, Flags, ProcessesAtData, Good
    <2>3. Uploaded'
      BY <2>1 DEF Inv, Uploaded, Whole, N, DataJobs
    <2> QED BY <2>2, <2>3 DEF Inv, GoodInv
  <1>2. CASE Restore
    BY <1>2, CoreKept DEF Restore, dumpOnly, channels, Core
  <1>3. CASE UNCHANGED vars
    BY <1>3, CoreKept DEF vars, dumpVars, plan, channels, Core
  <1> QED BY <1>1, <1>2, <1>3, ProducerStep, WorkerStep DEF Next, DumpNext

LEMMA Invariant == Spec => []Inv
  BY InvInit, InvStep, PTL DEF Spec

\* A whole archive has every job once, between the schema and the indexes.
LEMMA WholeIsComplete ==
    ASSUME N \in Nat, Whole(archive)
    PROVE  /\ Head(archive) = Pre /\ Last(archive) = Post
           /\ Range(archive) = {Pre, Post} \cup {Data(j) : j \in AllJobs}
  <1>1. DOMAIN archive = 1..(N + 3) /\ Len(archive) = N + 3
    BY DEF Whole
  <1>2. Head(archive) = Pre /\ Last(archive) = Post
    BY <1>1 DEF Whole, Last
  <1>3. \A i \in 1..(N + 3) : i = 1 \/ i = N + 3 \/ (i \in 2..(N + 2) /\ i - 2 \in 0..N)
    OBVIOUS
  <1>4. Range(archive) \subseteq {Pre, Post} \cup {Data(j) : j \in AllJobs}
    BY <1>1, <1>3 DEF Whole, Range, AllJobs, N
  <1>5. \A j \in 0..N : j + 2 \in 2..(N + 2) /\ j + 2 \in 1..(N + 3) /\ archive[j + 2] = Data(j)
    BY DEF Whole
  <1>6. {Data(j) : j \in AllJobs} \subseteq Range(archive)
    BY <1>1, <1>5 DEF Range, AllJobs, N
  <1>7. Pre \in Range(archive) /\ Post \in Range(archive)
    BY <1>1 DEF Whole, Range
  <1> QED BY <1>2, <1>4, <1>6, <1>7


-----------------------------------------------------------------------------
\* The restore while no file has failed.

Named == Names \cup {Idle, Done}

RestoreTypes ==
    /\ stage \in {"none", "pre", "data", "post", "ok", "failed"}
    /\ todo \in Seq(Names) /\ restored \in Seq(Names)
    /\ psql \in [Sessions -> Named]
    /\ errs \in Nat /\ stopped \in BOOLEAN /\ (stopped = TRUE <=> errs > 0)

\* The schema is restored first, and nothing twice.
Distinct ==
    /\ restored # <<>> /\ restored[1] = Pre
    /\ \A i, k \in DOMAIN restored : i # k => restored[i] # restored[k]

\* Jobs whose file has been taken from the queue.
Taken == N + 1 - Len(todo)

\* The queue holds the files that are not taken, in their order.  A file that is
\* taken is restored, or in the hands of one process.
InProgress ==
    /\ Taken \in Nat /\ \A i \in 1..Len(todo) : todo[i] = Data(Taken + i - 1)
    /\ \A s \in Sessions : psql[s] \notin {Idle, Done} => \E j \in 0..(Taken - 1) : psql[s] = Data(j)
    /\ \A r, s \in Sessions : psql[s] \notin {Idle, Done} /\ psql[r] = psql[s] => r = s
    /\ \A s \in Sessions : psql[s] \notin Range(restored)
    /\ \A j \in 0..(Taken - 1) : Data(j) \in Range(restored) \/ \E s \in Sessions : psql[s] = Data(j)
    /\ Range(restored) \subseteq {Pre} \cup {Data(j) : j \in 0..(Taken - 1)}
    /\ psql[1] = Done => todo = <<>>

RestoreInv ==
    /\ RestoreTypes
    /\ stage # "none" => upload = "eof"
    /\ stage # "data" => \A s \in Sessions : psql[s] = Done
    /\ stage \in {"none", "pre"} => restored = <<>> /\ errs = 0
    /\ stage \in {"data", "post", "ok"} /\ errs = 0 => Distinct
    /\ stage \in {"data", "post"} /\ errs = 0 => InProgress
    /\ stage \in {"post", "ok"} => errs = 0
    /\ stage = "post" => todo = <<>>
    /\ stage = "ok" => Last(restored) = Post /\ \A j \in 0..N : Data(j) \in Range(restored)
\* Every table is in one job of the plan.
LEMMA TablesAreCovered == ASSUME tables \in TablesUpTo(MaxTables) PROVE EveryTableOnce
  <1>1. tables \in Seq(Nat) /\ DOMAIN tables = 1..Len(tables) /\ Len(tables) \in Nat
    BY TablesAre
  <1>2. DataJobs \in Seq(Seq(Nat)) /\ Covers(tables, DataJobs, 1..Len(tables))
    BY <1>1, PlanCovers DEF DataJobs
  <1>3. DOMAIN DataJobs = 1..N /\ N \in Nat /\ AllJobs = 0..N
    BY <1>2 DEF N, AllJobs
  <1>4. TablesOf(0) = {0}
    BY <1>1 DEF TablesOf, Excluded
  <1>5. \A j \in 1..N : TablesOf(j) = Range(DataJobs[j]) /\ j # 0
    BY DEF TablesOf
  <1>6. \A j \in AllJobs : j = 0 \/ j \in 1..N
    BY <1>3
  <1>7. ASSUME NEW i \in DOMAIN tables
        PROVE  \E j \in AllJobs : i \in TablesOf(j) /\ \A k \in AllJobs \ {j} : i \notin TablesOf(k)
    <2>1. PICK j \in 1..N : i \in Range(DataJobs[j]) /\ \A k \in (1..N) \ {j} : i \notin Range(DataJobs[k])
      BY <1>1, <1>2, <1>3 DEF Covers
    <2>2. i # 0 /\ j \in AllJobs
      BY <1>1, <1>3
    <2> QED BY <1>4, <1>5, <1>6, <2>1, <2>2
  <1>8. \A k \in AllJobs \ {0} : 0 \notin TablesOf(k)
    <2>1. \A j \in 1..N : Range(DataJobs[j]) \subseteq 1..Len(tables)
      BY <1>2, <1>3 DEF Covers
    <2> QED BY <1>5, <1>6, <2>1
  <1>9. 0 \in AllJobs
    BY <1>3
  <1>10. \A j \in DOMAIN DataJobs : Within(tables, DataJobs[j])
    BY <1>2 DEF Covers
  <1> QED BY <1>4, <1>7, <1>8, <1>9, <1>10 DEF EveryTableOnce, Within, Bytes

-----------------------------------------------------------------------------
\* The files that are restored.

LEMMA DataNames == /\ \A j \in Int : Data(j) \in Names /\ Data(j) \notin {Pre, Post, Idle, Done}
                   /\ \A i, j \in Int : Data(i) = Data(j) => i = j
                   /\ Pre \in Names /\ Post \in Names /\ Pre # Post /\ Idle # Done
                   /\ {Pre, Post} \cap {Idle, Done} = {}
                   /\ {Idle, Done} \cap Names = {}
  BY DEF Data, Names, Pre, Post, Idle, Done

LEMMA ListedIs ==
    ASSUME NEW files \in Seq(Names)
    PROVE  /\ Listed(files)[0] = <<>>
           /\ \A n \in 1..Len(files) :
                 Listed(files)[n] = IF files[n] \in {Pre, Post} THEN Listed(files)[n - 1]
                                    ELSE Append(Listed(files)[n - 1], files[n])
  <1> DEFINE A == Seq(Names)
             With(n, a) == IF files[n] \in {Pre, Post} THEN a ELSE Append(a, files[n])
             step == [n \in 1..Len(files) |-> [a \in A |-> With(n, a)]]
  <1>1. \A n \in 1..Len(files), a \in A : With(n, a) \in A
    OBVIOUS
  <1>2. Len(files) \in Nat /\ <<>> \in A
    OBVIOUS
  <1> DEFINE Is(to) == to = [n \in 0..Len(files) |-> IF n = 0 THEN <<>> ELSE With(n, to[n - 1])]
  <1>3. Listed(files) = CHOOSE to : Is(to)
    BY DEF Listed
  <1> HIDE DEF With, A
  <1>4. step \in [1..Len(files) -> [A -> A]]
    BY <1>1
  <1>5. Recursions(Len(files), A, <<>>, step) # {}
    <2> HIDE DEF step
    <2> QED BY <1>2, <1>4, Recursion
  <1>6. PICK f \in [0..Len(files) -> A] :
           f[0] = <<>> /\ \A n \in 1..Len(files) : f[n] = step[n][f[n - 1]]
    BY <1>5 DEF Recursions
  <1>7. Is(f)
    <2>1. \A n \in 1..Len(files) : f[n - 1] \in A
      OBVIOUS
    <2>2. \A n \in 1..Len(files) : f[n] = With(n, f[n - 1])
      BY <1>6, <2>1
    <2>3. \A n \in 0..Len(files) : f[n] = IF n = 0 THEN <<>> ELSE With(n, f[n - 1])
      BY <1>6, <2>2
    <2> QED BY <2>3
  <1>8. Is(Listed(files))
    <2> HIDE DEF Is
    <2> QED BY <1>3, <1>7
  <1>9. Listed(files)[0] = <<>> /\ \A n \in 1..Len(files) : Listed(files)[n] = With(n, Listed(files)[n - 1])
    BY <1>8
  <1> QED BY <1>9 DEF With

\* The data files of a whole archive, in the order of the jobs.
LEMMA FilesOfWhole ==
    ASSUME N \in Nat, NEW files, Whole(files)
    PROVE  /\ Listed(files)[Len(files)] \in Seq(Names)
           /\ Len(Listed(files)[Len(files)]) = N + 1
           /\ \A i \in 1..(N + 1) : Listed(files)[Len(files)][i] = Data(i - 1)
  <1>1. /\ files \in Seq(Names) /\ Len(files) = N + 3 /\ files[1] = Pre /\ files[N + 3] = Post
        /\ \A i \in 2..(N + 2) : files[i] = Data(i - 2)
    BY DEF Whole
  <1> DEFINE to == Listed(files)
             First(n) == /\ to[n + 1] \in Seq(Names) /\ Len(to[n + 1]) = n
                         /\ \A i \in 1..n : to[n + 1][i] = Data(i - 1)
             T == {n \in 0..(N + 1) : First(n)}
  <1>2. to[0] = <<>>
    BY <1>1, ListedIs
  <1>3. \A n \in 1..(N + 3) : files[n] \in {Pre, Post} => to[n] = to[n - 1]
    BY <1>1, ListedIs
  <1>4. \A n \in 1..(N + 3) : files[n] \notin {Pre, Post} => to[n] = Append(to[n - 1], files[n])
    BY <1>1, ListedIs
  <1> HIDE DEF to
  <1>5. First(0)
    <2>1. to[1] = <<>>
      BY <1>1, <1>2, <1>3
    <2>2. to[0 + 1] \in Seq(Names) /\ Len(to[0 + 1]) = 0
      <3>1. 0 + 1 = 1 /\ <<>> \in Seq(Names) /\ Len(<<>>) = 0
        OBVIOUS
      <3>2. to[0 + 1] = <<>>
        BY <2>1, <3>1
      <3> QED BY <3>1, <3>2
    <2>3. \A i \in 1..0 : to[0 + 1][i] = Data(i - 1)
      OBVIOUS
    <2> QED BY <2>2, <2>3
  <1>6. ASSUME NEW n \in 1..(N + 1), First(n - 1) PROVE First(n)
    <2> DEFINE a == to[n]
               b == to[n + 1]
    <2>1. a \in Seq(Names) /\ Len(a) = n - 1 /\ \A i \in 1..(n - 1) : a[i] = Data(i - 1)
      BY <1>6
    <2>2. files[n + 1] = Data(n - 1) /\ n + 1 \in 1..(N + 3)
      BY <1>1
    <2>3. Data(n - 1) \in Names /\ Data(n - 1) \notin {Pre, Post}
      BY DataNames
    <2>4. b = Append(a, Data(n - 1))
      BY <1>4, <2>2, <2>3
    <2> HIDE DEF a, b
    <2>5. b \in Seq(Names) /\ Len(b) = n
      BY <2>1, <2>3, <2>4
    <2>6. \A i \in 1..n : b[i] = Data(i - 1)
      BY <2>1, <2>3, <2>4
    <2> QED BY <2>5, <2>6 DEF b
  <1>7. T = 0..(N + 1)
    <2> HIDE DEF First
    <2>1. N + 1 \in Nat /\ T \in SUBSET (0..(N + 1)) /\ 0 \in T
      BY <1>5
    <2>2. \A n \in 1..(N + 1) : n - 1 \in T => n \in T
      BY <1>6
    <2> HIDE DEF T
    <2> QED BY <2>1, <2>2, UpTo
  <1>8. First(N + 1)
    <2> HIDE DEF First
    <2> QED BY <1>7
  <1>9. to[N + 3] = to[N + 2]
    BY <1>1, <1>3
  <1>10. Len(files) = N + 3 /\ N + 1 + 1 = N + 2
    BY <1>1
  <1> QED BY <1>8, <1>9, <1>10 DEF to

-----------------------------------------------------------------------------
\* The steps of the restore.

LEMMA RestoreInit == Init => RestoreInv
  <1> SUFFICES ASSUME Init PROVE RestoreInv
    OBVIOUS
  <1>1. /\ stage = "none" /\ todo = <<>> /\ psql = [s \in Sessions |-> Done]
        /\ errs = 0 /\ stopped = FALSE /\ restored = <<>>
    BY DEF Init
  <1>2. Done \in Named /\ <<>> \in Seq(Names)
    BY DEF Named
  <1>3. \A s \in Sessions : psql[s] = Done
    BY <1>1
  <1>4. psql \in [Sessions -> Named]
    BY <1>1, <1>2
  <1>5. stopped \in BOOLEAN /\ (stopped = TRUE <=> errs > 0) /\ errs \in Nat
    <2>1. errs \in Nat /\ ~(errs > 0)
      BY <1>1
    <2>2. stopped \in BOOLEAN /\ ~(stopped = TRUE)
      BY <1>1, Zenon
    <2> QED BY <2>1, <2>2, Zenon
  <1>6. RestoreTypes
    BY <1>1, <1>2, <1>4, <1>5 DEF RestoreTypes
  <1> QED BY <1>1, <1>3, <1>6 DEF RestoreInv

\* What has been uploaded does not change.
LEMMA UploadStays ==
    ASSUME Inv, DumpNext
    PROVE  tables' = tables /\ (upload = "eof" => upload' = "eof")
  <1>1. upload = "eof" => producer = "gone"
    BY DEF Inv, Flags
  <1> QED BY <1>1 DEF DumpNext, Produce, Section, SectionWritten, SectionFails, MoveChunk, EndEntry,
        EndData, WriteMeta, Close, Work, Take, WriteChunk, DumpEnds, DumpFails, Ends, UploadFails,
        JobReturns, plan

LEMMA RestoreIdles ==
    ASSUME RestoreInv, UNCHANGED restoreVars, tables' = tables, upload = "eof" => upload' = "eof"
    PROVE  RestoreInv'
  BY DEF RestoreInv, RestoreTypes, Distinct, InProgress, Taken, N, DataJobs, restoreVars

\* The data files of what was uploaded.
LEMMA FilesOfUpload ==
    ASSUME Inv, upload = "eof"
    PROVE  /\ N \in Nat /\ DataFiles \in Seq(Names) /\ Len(DataFiles) = N + 1
           /\ \A i \in 1..(N + 1) : DataFiles[i] = Data(i - 1)
  <1>1. N \in Nat /\ Whole(manifest)
    BY PlanLength DEF Inv, Flags, Uploaded
  <1> QED BY <1>1, FilesOfWhole DEF DataFiles

LEMMA NamesGrow ==
    ASSUME NEW r \in Seq(Names), NEW x \in Names
    PROVE  /\ Append(r, x) \in Seq(Names) /\ Range(Append(r, x)) = Range(r) \cup {x}
           /\ DOMAIN Append(r, x) = DOMAIN r \cup {Len(r) + 1} /\ Len(r) + 1 \notin DOMAIN r
           /\ \A i \in DOMAIN r : Append(r, x)[i] = r[i]
           /\ Append(r, x)[Len(r) + 1] = x
  <1>1. Append(r, x) \in Seq(Names)
    OBVIOUS
  <1>2. /\ DOMAIN Append(r, x) = DOMAIN r \cup {Len(r) + 1} /\ Len(r) + 1 \notin DOMAIN r
        /\ \A i \in DOMAIN r : Append(r, x)[i] = r[i]
        /\ Append(r, x)[Len(r) + 1] = x
    BY Grows
  <1>3. Range(Append(r, x)) = Range(r) \cup {x}
    BY <1>2, Zenon DEF Range
  <1> QED BY <1>1, <1>2, <1>3

\* One more file, that was not restored before.
LEMMA StaysDistinct ==
    ASSUME RestoreTypes, Distinct, NEW x \in Names, x \notin Range(restored),
           restored' = Append(restored, x)
    PROVE  Distinct'
  <1>1. restored \in Seq(Names) /\ restored # <<>> /\ restored[1] = Pre
    BY DEF RestoreTypes, Distinct
  <1>2. /\ DOMAIN restored' = DOMAIN restored \cup {Len(restored) + 1} /\ Len(restored) + 1 \notin DOMAIN restored
        /\ \A i \in DOMAIN restored : restored'[i] = restored[i]
        /\ restored'[Len(restored) + 1] = x
    BY <1>1, NamesGrow
  <1>3. 1 \in DOMAIN restored
    BY <1>1
  <1>4. \A i \in DOMAIN restored : restored[i] # x
    BY DEF Range
  <1>5. restored' # <<>> /\ restored'[1] = Pre
    BY <1>1, <1>2, <1>3
  <1>6. \A i, k \in DOMAIN restored' : i # k => restored'[i] # restored'[k]
    BY <1>2, <1>4 DEF Distinct
  <1> QED BY <1>5, <1>6 DEF Distinct

LEMMA OpenArchiveKeeps ==
    ASSUME RestoreInv, OpenArchive, UNCHANGED dumpOnly PROVE RestoreInv'
  <1>1. /\ stage = "none" /\ upload = "eof" /\ stage' \in {"pre", "failed"}
        /\ UNCHANGED <<todo, psql, errs, stopped, restored, upload, tables>>
    BY DEF OpenArchive, dumpOnly
  <1>2. RestoreTypes'
    BY <1>1 DEF RestoreInv, RestoreTypes
  <1> QED BY <1>1, <1>2 DEF RestoreInv

LEMMA RestorePreKeeps ==
    ASSUME Inv, RestoreInv, RestorePre, UNCHANGED dumpOnly PROVE RestoreInv'
  <1>0. /\ stage = "pre" /\ upload = "eof" /\ restored = <<>> /\ errs = 0 /\ RestoreTypes
        /\ UNCHANGED <<errs, stopped, upload, tables>> /\ N' = N
    BY DEF RestorePre, RestoreInv, dumpOnly, N, DataJobs
  <1>1. CASE stage' = "failed" /\ UNCHANGED <<todo, psql, restored>>
    <2>1. RestoreTypes'
      BY <1>0, <1>1 DEF RestoreTypes
    <2> QED BY <1>0, <1>1, <2>1 DEF RestoreInv
  <1>2. CASE restored' = Append(restored, Pre) /\ StartData
    <2>1. /\ N \in Nat /\ DataFiles \in Seq(Names) /\ Len(DataFiles) = N + 1
          /\ \A i \in 1..(N + 1) : DataFiles[i] = Data(i - 1)
      BY <1>0, FilesOfUpload
    <2>2. /\ stage' = "data" /\ todo' = DataFiles
          /\ psql' = [s \in Sessions |-> IF s <= Len(DataFiles) THEN Idle ELSE Done]
      BY <1>2, <2>1 DEF StartData
    <2>3. /\ restored' = <<Pre>> /\ Pre \in Names /\ restored' \in Seq(Names)
          /\ restored'[1] = Pre /\ DOMAIN restored' = {1} /\ Range(restored') = {Pre}
      <3>1. restored' = <<Pre>> /\ Pre \in Names
        BY <1>0, <1>2, DataNames
      <3>2. DOMAIN <<Pre>> = {1} /\ <<Pre>>[1] = Pre
        OBVIOUS
      <3>3. Range(<<Pre>>) = {Pre}
        BY <3>2 DEF Range
      <3> QED BY <3>1, <3>2, <3>3
    <2>4. /\ psql' \in [Sessions -> Named] /\ \A s \in Sessions : psql'[s] \in {Idle, Done}
      BY <2>2 DEF Named
    <2>5. RestoreTypes'
      BY <1>0, <2>1, <2>2, <2>3, <2>4 DEF RestoreTypes
    <2>6. Distinct'
      BY <2>3 DEF Distinct
    <2>7. InProgress'
      <3>1. Taken' = 0
        BY <1>0, <2>1, <2>2 DEF Taken
      <3>2. \A i \in 1..Len(todo') : todo'[i] = Data(0 + i - 1)
        BY <2>1, <2>2
      <3>3. psql'[1] # Done
        <4>1. 1 \in Sessions /\ 1 <= N + 1
          BY <2>1, RestoreAssumption DEF Sessions
        <4> QED BY <2>1, <2>2, <4>1, DataNames
      <3>4. \A s \in Sessions : psql'[s] \notin Range(restored')
        BY <2>3, <2>4, DataNames
      <3>5. \A s \in Sessions : psql'[s] \in {Idle, Done}
        BY <2>4
      <3>6. 0..(0 - 1) = {} /\ 0 \in Nat
        OBVIOUS
      <3> QED BY <2>3, <3>1, <3>2, <3>3, <3>4, <3>5, <3>6 DEF InProgress
    <2> QED BY <1>0, <2>2, <2>5, <2>6, <2>7 DEF RestoreInv
  <1> QED BY <1>1, <1>2 DEF RestorePre

\* A process has taken a file, or has found the queue empty.
LEMMA TakeFileKeeps ==
    ASSUME Inv, RestoreInv, NEW s \in Sessions, TakeFile(s), UNCHANGED dumpOnly PROVE RestoreInv'
  <1>0. /\ stage = "data" /\ upload = "eof" /\ psql[s] = Idle /\ RestoreTypes
        /\ todo' = IF todo = <<>> THEN todo ELSE Tail(todo)
        /\ psql' = [psql EXCEPT ![s] = IF stopped \/ todo = <<>> THEN Done ELSE Head(todo)]
        /\ UNCHANGED <<stage, errs, stopped, restored, upload, tables>> /\ N' = N
    BY DEF TakeFile, RestoreInv, dumpOnly, N, DataJobs
  <1>1. N \in Nat
    BY <1>0, FilesOfUpload
  <1>2. todo' \in Seq(Names) /\ (todo # <<>> => Head(todo) \in Names)
    BY <1>0 DEF RestoreTypes
  <1>3. psql' \in [Sessions -> Named]
    BY <1>0, <1>2 DEF RestoreTypes, Named
  <1>4. RestoreTypes'
    BY <1>0, <1>2, <1>3 DEF RestoreTypes
  <1>5. ASSUME errs = 0 PROVE Distinct' /\ InProgress'
    <2>0. Distinct /\ InProgress /\ ~stopped
      BY <1>0, <1>5 DEF RestoreInv, RestoreTypes
    <2>1. Distinct'
      BY <1>0, <2>0 DEF Distinct
    <2>2. CASE todo = <<>>
      <3>1. todo' = todo /\ Taken' = Taken /\ psql' = [psql EXCEPT ![s] = Done]
        BY <1>0, <2>2 DEF Taken
      <3>2. psql'[s] = Done /\ \A r \in Sessions : r # s => psql'[r] = psql[r]
        BY <1>0, <3>1 DEF RestoreTypes
      <3>3. Done \notin Range(restored)
        <4>1. Range(restored) \subseteq Names
          BY <1>0 DEF RestoreTypes, Range
        <4> QED BY <4>1, DataNames
      <3>4. \A j \in 0..(Taken - 1) : Data(j) # Idle
        BY DataNames
      <3> HIDE DEF Taken
      <3> QED BY <1>0, <2>0, <2>1, <2>2, <3>1, <3>2, <3>3, <3>4 DEF InProgress
    <2>3. CASE todo # <<>>
      <3> DEFINE k == Taken
      <3>1. k \in Nat /\ Len(todo) \in Nat \ {0} /\ Head(todo) = Data(k)
        <4>1. Len(todo) \in Nat \ {0} /\ Head(todo) = todo[1] /\ 1 \in 1..Len(todo)
          BY <1>0, <2>3 DEF RestoreTypes
        <4>2. k \in Nat /\ todo[1] = Data(k + 1 - 1) /\ k + 1 - 1 = k
          BY <2>0, <4>1 DEF InProgress
        <4> QED BY <4>1, <4>2
      <3>2. todo' = Tail(todo) /\ psql' = [psql EXCEPT ![s] = Data(k)]
        BY <1>0, <2>0, <2>3, <3>1
      <3>3. Len(todo') = Len(todo) - 1 /\ \A i \in 1..Len(todo') : todo'[i] = todo[i + 1]
        BY <1>0, <2>3, <3>2 DEF RestoreTypes
      <3>4. Taken' = k + 1
        BY <1>0, <1>1, <3>1, <3>3 DEF Taken
      <3>5. psql'[s] = Data(k) /\ \A r \in Sessions : r # s => psql'[r] = psql[r]
        BY <1>0, <3>2 DEF RestoreTypes
      <3>6. \A i \in 1..Len(todo') : todo'[i] = Data(k + 1 + i - 1)
        <4> TAKE i \in 1..Len(todo')
        <4>1. i + 1 \in 1..Len(todo) /\ k + (i + 1) - 1 = k + 1 + i - 1
          BY <3>1, <3>3
        <4>2. todo[i + 1] = Data(k + (i + 1) - 1)
          BY <2>0, <4>1 DEF InProgress
        <4> QED BY <3>3, <4>1, <4>2
      <3>7. Data(k) \notin Range(restored) /\ \A r \in Sessions : psql[r] # Data(k)
        <4>1. Data(k) # Pre /\ Data(k) \notin {Idle, Done} /\ \A j \in 0..(k - 1) : Data(j) # Data(k)
          BY <3>1, DataNames
        <4> QED BY <2>0, <4>1 DEF InProgress
      <3>8. (0..k) = (0..(k - 1)) \cup {k} /\ k + 1 - 1 = k /\ k + 1 \in Nat
        BY <3>1
      <3>9. \A r \in Sessions : psql'[r] \notin {Idle, Done} => \E j \in 0..k : psql'[r] = Data(j)
        BY <2>0, <3>5, <3>8 DEF InProgress
      <3>10. \A q, r \in Sessions : psql'[r] \notin {Idle, Done} /\ psql'[q] = psql'[r] => q = r
        BY <2>0, <3>5, <3>7 DEF InProgress
      <3>11. \A r \in Sessions : psql'[r] \notin Range(restored)
        BY <2>0, <3>5, <3>7 DEF InProgress
      <3>12. \A j \in 0..k : Data(j) \in Range(restored) \/ \E r \in Sessions : psql'[r] = Data(j)
        <4>1. \A j \in 0..(k - 1) : Data(j) # Idle
          BY DataNames
        <4> QED BY <1>0, <2>0, <3>5, <3>8, <4>1 DEF InProgress
      <3>13. Range(restored) \subseteq {Pre} \cup {Data(j) : j \in 0..k}
        BY <2>0, <3>8 DEF InProgress
      <3>14. psql'[1] # Done
        <4>1. psql[1] # Done
          BY <2>0, <2>3 DEF InProgress
        <4>2. Data(k) # Done /\ 1 \in Sessions
          BY <3>1, DataNames, RestoreAssumption DEF Sessions
        <4> QED BY <3>5, <4>1, <4>2
      <3>15. Taken' \in Nat /\ Taken' - 1 = k
        BY <3>1, <3>4
      <3>16. \A i \in 1..Len(todo') : todo'[i] = Data(Taken' + i - 1)
        BY <3>4, <3>6
      <3> HIDE DEF k
      <3>17. InProgress'
        BY <1>0, <3>9, <3>10, <3>11, <3>12, <3>13, <3>14, <3>15, <3>16 DEF InProgress
      <3> QED BY <2>1, <3>17
    <2> QED BY <2>1, <2>2, <2>3
  <1> QED BY <1>0, <1>4, <1>5 DEF RestoreInv

LEMMA FileRestoredKeeps ==
    ASSUME Inv, RestoreInv, NEW s \in Sessions, FileRestored(s), UNCHANGED dumpOnly PROVE RestoreInv'
  <1>0. /\ psql[s] \notin {Idle, Done} /\ RestoreTypes
        /\ restored' = Append(restored, psql[s]) /\ psql' = [psql EXCEPT ![s] = Idle]
        /\ UNCHANGED <<stage, todo, errs, stopped, upload, tables>> /\ N' = N
    BY DEF FileRestored, RestoreInv, dumpOnly, N, DataJobs
  <1>1. stage = "data" /\ upload = "eof"
    BY <1>0 DEF RestoreInv
  <1>2. psql[s] \in Names /\ restored \in Seq(Names)
    BY <1>0 DEF RestoreTypes, Named
  <1>3. restored' \in Seq(Names) /\ Range(restored') = Range(restored) \cup {psql[s]}
    BY <1>0, <1>2, NamesGrow
  <1>4. psql' \in [Sessions -> Named] /\ psql'[s] = Idle /\ \A r \in Sessions : r # s => psql'[r] = psql[r]
    BY <1>0 DEF RestoreTypes, Named
  <1>5. RestoreTypes'
    BY <1>0, <1>3, <1>4 DEF RestoreTypes
  <1>6. ASSUME errs = 0 PROVE Distinct' /\ InProgress'
    <2>0. Distinct /\ InProgress
      BY <1>1, <1>6 DEF RestoreInv
    <2>1. psql[s] \notin Range(restored)
      BY <2>0 DEF InProgress
    <2>2. Distinct'
      BY <1>0, <1>2, <2>0, <2>1, StaysDistinct
    <2>3. Taken' = Taken /\ Taken \in Nat
      BY <1>0, <2>0 DEF Taken, InProgress
    <2>4. Idle \notin Range(restored') /\ Idle # Done
      <3>1. Range(restored') \subseteq Names
        BY <1>3 DEF Range
      <3> QED BY <3>1, DataNames
    <2>5. PICK j \in 0..(Taken - 1) : psql[s] = Data(j)
      BY <1>0, <2>0 DEF InProgress
    <2>6. \A r \in Sessions : psql'[r] \notin Range(restored')
      BY <1>0, <1>3, <1>4, <2>0, <2>4 DEF InProgress
    <2>7. \A i \in 0..(Taken - 1) : Data(i) \in Range(restored') \/ \E r \in Sessions : psql'[r] = Data(i)
      BY <1>3, <1>4, <2>0 DEF InProgress
    <2>8. Range(restored') \subseteq {Pre} \cup {Data(i) : i \in 0..(Taken - 1)}
      BY <1>3, <2>0, <2>5 DEF InProgress
    <2>9. \A r \in Sessions : psql'[r] \notin {Idle, Done} => r # s
      BY <1>4
    <2> HIDE DEF Taken
    <2>10. InProgress'
      BY <1>0, <1>4, <2>0, <2>3, <2>4, <2>6, <2>7, <2>8, <2>9 DEF InProgress
    <2> QED BY <2>2, <2>10
  <1> QED BY <1>0, <1>1, <1>5, <1>6 DEF RestoreInv

LEMMA RestoreFailsKeeps ==
    ASSUME RestoreInv, NEW s \in Sessions, RestoreFails(s), UNCHANGED dumpOnly PROVE RestoreInv'
  <1>0. /\ psql[s] \notin {Idle, Done} /\ RestoreTypes
        /\ stopped' = TRUE /\ psql' = [psql EXCEPT ![s] = Done] /\ errs' = errs + 1
        /\ UNCHANGED <<stage, todo, restored, upload, tables>>
    BY DEF RestoreFails, FileFails, Sent, RestoreInv, dumpOnly
  <1>1. stage = "data" /\ upload = "eof"
    BY <1>0 DEF RestoreInv
  <1>2. psql' \in [Sessions -> Named] /\ errs' \in Nat /\ errs' > 0
    BY <1>0 DEF RestoreTypes, Named
  <1>3. RestoreTypes'
    BY <1>0, <1>2 DEF RestoreTypes
  <1> QED BY <1>0, <1>1, <1>2, <1>3 DEF RestoreInv

LEMMA EndDataFilesKeeps ==
    ASSUME RestoreInv, EndDataFiles, UNCHANGED dumpOnly PROVE RestoreInv'
  <1>0. /\ stage = "data" /\ RestoreTypes /\ upload = "eof" /\ \A s \in Sessions : psql[s] = Done
        /\ stage' = IF errs > 0 THEN "failed" ELSE "post"
        /\ UNCHANGED <<todo, psql, errs, stopped, restored, upload, tables>> /\ N' = N
    BY DEF EndDataFiles, AllDone, RestoreInv, dumpOnly, N, DataJobs
  <1>1. RestoreTypes'
    BY <1>0 DEF RestoreTypes
  <1>2. CASE errs = 0
    <2>1. Distinct /\ InProgress /\ stage' = "post"
      BY <1>0, <1>2 DEF RestoreInv
    <2>2. todo = <<>>
      <3>1. 1 \in Sessions
        BY RestoreAssumption DEF Sessions
      <3> QED BY <1>0, <2>1, <3>1 DEF InProgress
    <2>3. Distinct' /\ InProgress'
      BY <1>0, <2>1 DEF Distinct, InProgress, Taken
    <2> QED BY <1>0, <1>1, <1>2, <2>1, <2>2, <2>3 DEF RestoreInv
  <1>3. CASE errs # 0
    <2>1. stage' = "failed"
      BY <1>0, <1>3 DEF RestoreTypes
    <2> QED BY <1>0, <1>1, <1>3, <2>1 DEF RestoreInv
  <1> QED BY <1>2, <1>3

LEMMA RestorePostKeeps ==
    ASSUME Inv, RestoreInv, RestorePost, UNCHANGED dumpOnly PROVE RestoreInv'
  <1>0. /\ stage = "post" /\ RestoreTypes /\ upload = "eof" /\ \A s \in Sessions : psql[s] = Done
        /\ errs = 0 /\ todo = <<>> /\ Distinct /\ InProgress
        /\ UNCHANGED <<todo, psql, errs, stopped, upload, tables>> /\ N' = N
    BY DEF RestorePost, RestoreInv, dumpOnly, N, DataJobs
  <1>1. CASE stage' = "failed" /\ UNCHANGED restored
    <2>1. RestoreTypes'
      BY <1>0, <1>1 DEF RestoreTypes
    <2> QED BY <1>0, <1>1, <2>1 DEF RestoreInv
  <1>2. CASE stage' = "ok" /\ restored' = Append(restored, Post)
    <2>1. restored \in Seq(Names) /\ Post \in Names /\ Range(restored) \subseteq Names
      BY <1>0, DataNames DEF RestoreTypes, Range
    <2>2. /\ restored' \in Seq(Names) /\ Range(restored') = Range(restored) \cup {Post}
          /\ restored'[Len(restored) + 1] = Post
      BY <1>2, <2>1, NamesGrow
    <2>3. RestoreTypes'
      BY <1>0, <1>2, <2>2 DEF RestoreTypes
    <2>4. Post \notin Range(restored)
      <3>1. \A j \in 0..(Taken - 1) : Data(j) # Post
        BY DataNames
      <3> QED BY <1>0, <3>1, DataNames DEF InProgress
    <2>5. Distinct'
      BY <1>0, <1>2, <2>1, <2>4, StaysDistinct
    <2>6. Last(restored') = Post
      <3>1. Len(restored') = Len(restored) + 1
        BY <1>2, <2>1
      <3> QED BY <2>2, <3>1 DEF Last
    <2>7. N \in Nat /\ Taken = N + 1
      <3>1. N \in Nat /\ Len(<<>>) = 0
        BY <1>0, FilesOfUpload
      <3> QED BY <1>0, <3>1 DEF Taken
    <2>8. \A j \in 0..N : Data(j) \in Range(restored')
      <3> TAKE j \in 0..N
      <3>1. j \in 0..(Taken - 1)
        BY <2>7
      <3>2. \A s \in Sessions : psql[s] # Data(j)
        BY <1>0, DataNames
      <3>3. Data(j) \in Range(restored)
        BY <1>0, <3>1, <3>2 DEF InProgress
      <3> QED BY <2>2, <3>3
    <2> QED BY <1>0, <1>2, <2>3, <2>5, <2>6, <2>8 DEF RestoreInv
  <1> QED BY <1>1, <1>2 DEF RestorePost

LEMMA RestoreStep == Inv /\ RestoreInv /\ [Next]_vars => RestoreInv'
  <1> SUFFICES ASSUME Inv, RestoreInv, [Next]_vars PROVE RestoreInv'
    OBVIOUS
  <1>1. CASE DumpNext /\ UNCHANGED restoreVars
    BY <1>1, UploadStays, RestoreIdles
  <1>2. CASE Restore
    <2>1. UNCHANGED dumpOnly
      BY <1>2 DEF Restore
    <2> QED BY <1>2, <2>1, OpenArchiveKeeps, RestorePreKeeps, TakeFileKeeps, FileRestoredKeeps,
               RestoreFailsKeeps, EndDataFilesKeeps, RestorePostKeeps DEF Restore
  <1>3. CASE UNCHANGED vars
    BY <1>3, RestoreIdles DEF vars, dumpVars, plan
  <1> QED BY <1>1, <1>2, <1>3 DEF Next

LEMMA RestoreInvariant == Spec => [](Inv /\ RestoreInv)
  <1>1. Init => RestoreInv
    BY RestoreInit
  <1> QED BY <1>1, Invariant, RestoreStep, PTL DEF Spec

\* When the producer is gone, and with it the snapshot, no process runs any more.
THEOREM ProcessesEndFirst == Spec => []NoDumpLeftBehind
  <1>1. Inv => NoDumpLeftBehind
    BY DEF Inv, ProcessesAtData, NoDumpLeftBehind
  <1> QED BY Invariant, <1>1, PTL

\* An upload that ends without an error has got the whole archive, for any
\* number of processes, whichever of them fail and in whatever order they end.
THEOREM UploadedIsComplete == Spec => []CompleteAtEnd
  <1>1. Inv => CompleteAtEnd
    <2> SUFFICES ASSUME Inv, upload = "eof"
                 PROVE  /\ Len(archive) = Len(DataJobs) + 3
                        /\ Head(archive) = Pre /\ Last(archive) = Post
                        /\ manifest = archive
                        /\ Range(archive) = {Pre, Post} \cup {Data(j) : j \in AllJobs}
      BY DEF CompleteAtEnd
    <2>1. N \in Nat /\ Whole(archive) /\ manifest = archive
      BY PlanLength DEF Inv, Flags, Uploaded
    <2> QED BY <2>1, WholeIsComplete DEF Whole, N
  <1> QED BY Invariant, <1>1, PTL

\* Every table is dumped by one job and no other, and no batch is above its limits,
\* whatever the sizes of the tables and the limits of planDataJobs.
THEOREM TablesOnce == Spec => []EveryTableOnce
  <1>1. Inv => EveryTableOnce
    BY TablesAreCovered DEF Inv, Flags
  <1> QED BY Invariant, <1>1, PTL

\* A restore that reports success has loaded every table, for any number of jobs and
\* of psql processes, in whatever order they end: the schema first, no file twice,
\* the indexes after all of the data.
THEOREM RestoresAll == Spec => []RestoredWhole
  <1>1. Inv /\ RestoreInv => RestoredWhole
    <2> SUFFICES ASSUME Inv, RestoreInv, stage = "ok" PROVE RestoredWhole
      BY DEF RestoredWhole
    <2>1. /\ Distinct /\ RestoreTypes /\ Last(restored) = Post /\ \A s \in Sessions : psql[s] = Done
          /\ \A j \in 0..N : Data(j) \in Range(restored)
      BY DEF RestoreInv
    <2>2. Head(restored) = Pre
      BY <2>1 DEF Distinct, RestoreTypes
    <2>3. EveryTableOnce
      BY TablesAreCovered DEF Inv, Flags
    <2>4. \A i \in DOMAIN tables \cup {0} : \E j \in AllJobs : i \in TablesOf(j) /\ Data(j) \in Range(restored)
      BY <2>1, <2>3 DEF EveryTableOnce, AllJobs, N
    <2> QED BY <2>1, <2>2, <2>4 DEF RestoredWhole, Distinct
  <1> QED BY RestoreInvariant, <1>1, PTL

-----------------------------------------------------------------------------
\* The dump after a failure: who holds what, and that somebody can always go on.

\* A plan has no more jobs than tables.
LEMMA JobsFit ==
    ASSUME NEW t \in Seq(Nat)
    PROVE  Len(PlanDataJobs(t)) <= Len(t)
  <1> DEFINE Few(p, n) == Len(p.jobs) <= n /\ (p.batch # <<>> => Len(p.jobs) + 1 <= n)
             T == {n \in 0..Len(t) : Few(Placed(t)[n], n)}
  <1>1. 0 \in T
    <2>1. Few(NoPlan, 0)
      BY DEF NoPlan
    <2>2. 0 \in 0..Len(t) /\ Placed(t)[0] = NoPlan
      BY PlacedIs
    <2> HIDE DEF Few
    <2> QED BY <2>1, <2>2
  <1>2. ASSUME NEW n \in 1..Len(t), n - 1 \in T PROVE n \in T
    <2> DEFINE p == Placed(t)[n - 1]
               q == Place(t, n, p)
    <2>1. Placed(t)[n] = q /\ p \in Plans
      BY <1>2, PlacedIs
    <2>2. Few(p, n - 1)
      BY <1>2
    <2> HIDE DEF p
    <2>3. p.jobs \in Seq(Seq(Nat)) /\ p.batch \in Seq(Nat) /\ <<n>> \in Seq(Nat) /\ n \in Nat
      BY <2>1 DEF Plans
    <2>4. ASSUME n \in Solo(t) PROVE Few(q, n)
      <3>1. q.jobs = Append(p.jobs, <<n>>) /\ q.batch = p.batch
        BY <2>4 DEF Place
      <3>2. Len(q.jobs) = Len(p.jobs) + 1 /\ Len(p.jobs) \in Nat
        BY <2>3, <3>1
      <3> HIDE DEF q
      <3> QED BY <2>2, <2>3, <3>1, <3>2
    <2>5. ASSUME n \notin Solo(t) /\ Full(p.batch, p.bytes, t[n]) PROVE Few(q, n)
      <3>1. q.jobs = Append(p.jobs, p.batch) /\ p.batch # <<>>
        BY <2>5 DEF Place, Flush, Full
      <3>2. Len(q.jobs) = Len(p.jobs) + 1 /\ Len(p.jobs) \in Nat
        BY <2>3, <3>1
      <3> HIDE DEF q
      <3> QED BY <2>2, <2>3, <3>1, <3>2
    <2>6. ASSUME n \notin Solo(t) /\ ~Full(p.batch, p.bytes, t[n]) PROVE Few(q, n)
      <3>1. q.jobs = p.jobs
        BY <2>6 DEF Place
      <3>2. Len(p.jobs) \in Nat
        BY <2>3
      <3> HIDE DEF q
      <3> QED BY <2>2, <2>3, <3>1, <3>2
    <2>7. Few(q, n)
      BY <2>4, <2>5, <2>6
    <2> HIDE DEF q, Few
    <2> QED BY <2>1, <2>7
  <1>3. T = 0..Len(t)
    <2>1. Len(t) \in Nat /\ T \in SUBSET (0..Len(t))
      OBVIOUS
    <2> HIDE DEF T
    <2> QED BY <1>1, <1>2, <2>1, UpTo
  <1> DEFINE last == Placed(t)[Len(t)]
  <1>4. last \in Plans /\ Few(last, Len(t)) /\ Len(t) \in Nat
    <2>1. Len(t) \in 0..Len(t)
      OBVIOUS
    <2>2. Len(t) \in T
      BY <1>3, <2>1
    <2> HIDE DEF Few
    <2> QED BY <2>1, <2>2, PlacedIs
  <1> HIDE DEF last
  <1>5. last.jobs \in Seq(Seq(Nat)) /\ last.batch \in Seq(Nat)
    BY <1>4 DEF Plans
  <1>6. Len(Flush(last)) <= Len(t)
    <2>1. CASE last.batch = <<>>
      BY <1>4, <2>1 DEF Flush
    <2>2. CASE last.batch # <<>>
      <3>1. Flush(last) = Append(last.jobs, last.batch)
        BY <2>2 DEF Flush
      <3>2. Len(Flush(last)) = Len(last.jobs) + 1
        BY <1>5, <3>1
      <3> QED BY <1>4, <2>2, <3>2
    <2> QED BY <2>1, <2>2
  <1> QED BY <1>6 DEF PlanDataJobs, last

\* All jobs have a number of their own.
LEMMA JobsHaveIds ==
    ASSUME tables \in TablesUpTo(MaxTables)
    PROVE  N \in Nat /\ 0..N \subseteq JobIds
  <1>1. tables \in Seq(Nat) /\ N \in Nat /\ N <= Len(tables)
    BY TablesAre, PlanLength, JobsFit DEF N, DataJobs
  <1>2. Len(tables) <= MaxTables
    <2>1. PICK k \in 0..MaxTables : tables \in [1..k -> Sizes]
      BY DEF TablesUpTo
    <2>2. k \in Nat /\ k <= MaxTables
      BY <2>1, Numbers
    <2>3. DOMAIN tables = 1..k
      BY <2>1
    <2>4. Len(tables) = k
      BY <1>1, <2>2, <2>3
    <2> QED BY <2>2, <2>4
  <1>3. Len(tables) \in Nat
    BY <1>1
  <1> QED BY <1>1, <1>2, <1>3, Numbers DEF JobIds

FileNames == {"pre", "data", "post"} \X JobIds

Control ==
    /\ tables \in TablesUpTo(MaxTables)
    /\ producer \in {"pre", "data", "post", "meta", "close", "gone"}
    /\ failed \in BOOLEAN /\ cancelled \in BOOLEAN
    /\ snapshot \in BOOLEAN /\ returned \in BOOLEAN
    /\ faults \in 0..MaxFaults
    /\ upload \in {"reads", "eof", "error", "failed"}
    /\ returned => cancelled /\ ~snapshot /\ upload # "reads"
    /\ producer = "gone" => upload # "reads"

Channels ==
    /\ queue \in Seq(JobIds) /\ entries \in Seq(JobIds) /\ written \in 0..Len(entries)
    /\ worker \in [Workers -> JobIds \cup {Free, Gone}]
    /\ chunks \in [JobIds -> 0..ChunkCount] /\ made \in [JobIds -> 0..Chunks]
    /\ ended \in [JobIds -> {"open", "ok", "err"}]

\* The manifest is written after all of the archive.
Stored ==
    /\ archive \in Seq(FileNames)
    /\ manifest = IF producer \in {"close", "gone"} /\ manifest # <<>> THEN archive ELSE <<>>

\* Entries are created in the order of the jobs, until the dump is cancelled.
Turns ==
    /\ \A i \in 1..Len(entries) : entries[i] = i - 1
    /\ ~cancelled => \A i \in 1..Len(queue) : queue[i] = Len(entries) + i - 1

\* An entry that has not ended is in the hands of one worker, which is at no other,
\* and the producer is not done with it.
Held ==
    /\ \A w \in Workers : worker[w] \in JobIds =>
          written <= worker[w] /\ worker[w] < Len(entries) /\ ended[worker[w]] = "open"
    /\ \A v, w \in Workers : worker[v] \in JobIds /\ worker[v] = worker[w] => v = w
    /\ \A j \in JobIds : j < Len(entries) /\ ended[j] = "open" =>
          \E w \in Workers : worker[w] = j
    /\ \A j \in JobIds : j >= Len(entries) => ended[j] = "open"

AnyTime == Control /\ Channels /\ Stored /\ Turns /\ Held

\* The bounds are numbers.
LEMMA Bounds ==
    /\ MaxFaults \in Nat /\ Chunks \in Nat \ {0} /\ ChunkCount \in Nat \ {0}
    /\ MaxTables \in Nat /\ Sizes \subseteq Nat
  BY DumpAssumption

\* All of this holds before the dump starts, and ...
LEMMA AnyTimeInit == Init => AnyTime
  <1> SUFFICES ASSUME Init PROVE AnyTime
    OBVIOUS
  <1>1. tables \in TablesUpTo(MaxTables)
    BY DEF Init, DumpInit
  <1>2. N \in Nat /\ 0..N \subseteq JobIds
    BY <1>1, JobsHaveIds
  <1>3. queue = [i \in 1..(N + 1) |-> i - 1]
    BY DEF Init, DumpInit, N
  <1>4. queue \in Seq(JobIds) /\ Len(queue) = N + 1 /\ \A i \in 1..Len(queue) : queue[i] = i - 1
    BY <1>2, <1>3
  <1>5. Control
    <2>1. /\ producer = "pre" /\ failed = FALSE /\ cancelled = FALSE /\ snapshot = TRUE
          /\ returned = FALSE /\ faults = 0 /\ upload = "reads"
      BY DEF Init, DumpInit
    <2>2. faults \in 0..MaxFaults
      BY <2>1, Bounds
    <2> QED BY <1>1, <2>1, <2>2 DEF Control
  <1>6. \A w \in Workers : worker[w] \in {Free, Gone}
    BY DEF Init, DumpInit
  <1>7. worker \in [Workers -> JobIds \cup {Free, Gone}]
    BY DEF Init, DumpInit
  <1>8. /\ entries = <<>> /\ written = 0 /\ archive = <<>> /\ manifest = <<>>
        /\ chunks = [j \in JobIds |-> 0] /\ made = [j \in JobIds |-> 0]
        /\ ended = [j \in JobIds |-> "open"]
    BY DEF Init, DumpInit
  <1>9. Channels
    BY <1>4, <1>7, <1>8, Bounds DEF Channels
  <1>10. Stored /\ Turns
    BY <1>4, <1>8 DEF Stored, Turns
  <1>11. Held
    BY <1>6, <1>8, Numbers DEF Held
  <1> QED BY <1>5, <1>9, <1>10, <1>11 DEF AnyTime

\* A step that takes neither jobs nor entries.
LEMMA HoldingKept ==
    ASSUME Turns, Held, UNCHANGED <<written, queue, entries, worker, ended>>, cancelled => cancelled'
    PROVE  Turns' /\ Held'
  BY DEF Turns, Held

\* A step of the producer leaves every entry in the hands it is in.
LEMMA ProducerHolds == ASSUME AnyTime, Produce PROVE AnyTime'
  <1>0. Control /\ Channels /\ Stored /\ Turns /\ Held
    BY DEF AnyTime
  <1> USE DEF plan, channels
  <1>1. ASSUME NEW at \in {"pre", "post"}, NEW file \in {Pre, Post}, NEW next \in {"data", "meta"},
               SectionWritten(at, file, next)
        PROVE  AnyTime'
    <2>1. /\ producer = at /\ archive' = Append(archive, file) /\ producer' = next
          /\ UNCHANGED <<tables, failed, written, queue, entries, worker, chunks, made, ended,
                         cancelled, manifest, snapshot, upload, returned, faults>>
      BY <1>1 DEF SectionWritten
    <2>2. file \in FileNames
      BY Numbers DEF Pre, Post, FileNames, JobIds
    <2>3. Stored'
      BY <1>0, <2>1, <2>2 DEF Stored
    <2>4. Control'
      BY <1>0, <2>1 DEF Control
    <2>5. Channels'
      BY <1>0, <2>1 DEF Channels
    <2> QED BY <1>0, <2>1, <2>3, <2>4, <2>5, HoldingKept DEF AnyTime
  <1>2. ASSUME NEW at \in {"pre", "post"}, SectionFails(at) PROVE AnyTime'
    <2>1. /\ producer = at /\ producer' = "close" /\ failed' = TRUE
          /\ faults' = faults \/ (faults < MaxFaults /\ faults' = faults + 1)
          /\ UNCHANGED <<tables, written, queue, entries, worker, chunks, made, ended,
                         cancelled, archive, manifest, snapshot, upload, returned>>
      BY <1>2 DEF SectionFails, Fault
    <2>2. faults' \in 0..MaxFaults
      BY <1>0, <2>1, Bounds DEF Control
    <2>3. Control'
      BY <1>0, <2>1, <2>2 DEF Control
    <2>4. Channels' /\ Stored'
      BY <1>0, <2>1 DEF Channels, Stored
    <2> QED BY <1>0, <2>1, <2>3, <2>4, HoldingKept DEF AnyTime
  <1>3. CASE MoveChunk
    <2>1. /\ chunks[Current] > 0 /\ written < Len(entries)
          /\ chunks' = [chunks EXCEPT ![Current] = @ - 1]
          /\ UNCHANGED <<tables, producer, failed, written, queue, entries, worker, made, ended,
                         cancelled, archive, manifest, snapshot, upload, returned, faults>>
      BY <1>3 DEF MoveChunk
    <2>2. Current \in JobIds
      BY <1>0, <2>1 DEF Current, Channels
    <2>3. chunks[Current] - 1 \in 0..ChunkCount
      <3>1. chunks[Current] \in 0..ChunkCount
        BY <1>0, <2>2 DEF Channels
      <3> QED BY <2>1, <3>1, Bounds
    <2>4. chunks' \in [JobIds -> 0..ChunkCount]
      BY <1>0, <2>1, <2>3 DEF Channels
    <2>5. Channels'
      BY <1>0, <2>1, <2>4 DEF Channels
    <2>6. Control' /\ Stored'
      BY <1>0, <2>1 DEF Control, Stored
    <2> QED BY <1>0, <2>1, <2>5, <2>6, HoldingKept DEF AnyTime
  <1>4. CASE EndEntry
    <2>1. /\ producer = "data" /\ written < Len(entries) /\ ended[Current] # "open"
          /\ written' = written + 1
          /\ archive' \in {archive, Append(archive, Data(Current))}
          /\ \/ failed' = failed /\ cancelled' = cancelled
             \/ failed' = TRUE /\ cancelled' = TRUE
          /\ UNCHANGED <<tables, producer, queue, entries, worker, chunks, made, ended,
                         manifest, snapshot, upload, returned, faults>>
      BY <1>4 DEF EndEntry
    <2>2. written \in Nat /\ Len(entries) \in Nat /\ written + 1 \in 1..Len(entries)
      BY <1>0, <2>1 DEF Channels
    <2>3. Current = written /\ Current \in JobIds
      BY <1>0, <2>2 DEF Current, Channels, Turns
    <2>4. Data(Current) \in FileNames
      BY <2>3 DEF Data, FileNames
    <2>5. Stored'
      BY <1>0, <2>1, <2>4 DEF Stored
    <2>6. Control'
      <3>1. failed' \in BOOLEAN /\ cancelled' \in BOOLEAN
        BY <1>0, <2>1 DEF Control
      <3>2. returned => cancelled'
        <4>1. CASE cancelled' = cancelled
          BY <1>0, <4>1 DEF Control
        <4>2. CASE cancelled' = TRUE
          BY <4>2
        <4> QED BY <2>1, <4>1, <4>2
      <3> QED BY <1>0, <2>1, <3>1, <3>2 DEF Control
    <2>7. Channels'
      BY <1>0, <2>1, <2>2 DEF Channels
    <2>8. Turns'
      <3>1. CASE cancelled' = cancelled
        BY <1>0, <2>1, <3>1 DEF Turns
      <3>2. CASE cancelled' = TRUE
        BY <1>0, <2>1, <3>2 DEF Turns
      <3> QED BY <2>1, <3>1, <3>2
    <2>9. ASSUME NEW w \in Workers, worker[w] \in JobIds PROVE written + 1 <= worker[w]
      <3>1. written <= worker[w] /\ worker[w] # written
        BY <1>0, <2>1, <2>3, <2>9 DEF Held
      <3>2. worker[w] \in Nat
        BY <2>9, Numbers
      <3> QED BY <2>2, <3>1, <3>2
    <2>10. Held'
      BY <1>0, <2>1, <2>9 DEF Held
    <2> QED BY <2>5, <2>6, <2>7, <2>8, <2>10 DEF AnyTime
  <1>5. CASE EndData \/ WriteMeta
    <2>1. /\ \/ producer = "data" /\ producer' \in {"close", "post"} /\ manifest' = manifest
             \/ producer = "meta" /\ producer' = "close" /\ manifest' = archive
          /\ UNCHANGED <<tables, failed, written, queue, entries, worker, chunks, made, ended,
                         cancelled, archive, snapshot, upload, returned, faults>>
      BY <1>5 DEF EndData, WriteMeta
    <2>2. Control' /\ Channels' /\ Stored'
      BY <1>0, <2>1 DEF Control, Channels, Stored
    <2> QED BY <1>0, <2>1, <2>2, HoldingKept DEF AnyTime
  <1>6. CASE Close
    <2>1. /\ producer = "close" /\ producer' = "gone" /\ snapshot' = FALSE /\ cancelled' = TRUE
          /\ upload = "reads" /\ upload' \in {"error", "eof"}
          /\ UNCHANGED <<tables, failed, written, queue, entries, worker, chunks, made, ended,
                         archive, manifest, returned, faults>>
      BY <1>6 DEF Close, Reported
    <2>2. Control' /\ Channels' /\ Stored'
      BY <1>0, <2>1 DEF Control, Channels, Stored
    <2> QED BY <1>0, <2>1, <2>2, HoldingKept DEF AnyTime
  <1> QED BY <1>1, <1>2, <1>3, <1>4, <1>5, <1>6 DEF Produce, Section

\* Taking a job puts its entry into the worker's hands, ending it gives it back.
LEMMA WorkerHolds == ASSUME AnyTime, NEW w \in Workers, Work(w) PROVE AnyTime'
  <1>0. Control /\ Channels /\ Stored /\ Turns /\ Held
    BY DEF AnyTime
  <1> USE DEF plan, channels
  <1>1. CASE Take(w) /\ (cancelled \/ queue = <<>>)
    <2>1. /\ worker[w] = Free /\ worker' = [worker EXCEPT ![w] = Gone]
          /\ queue' = IF queue = <<>> THEN queue ELSE Tail(queue)
          /\ UNCHANGED <<tables, producer, failed, written, entries, chunks, made, ended,
                         cancelled, archive, manifest, snapshot, upload, returned, faults>>
      BY <1>1 DEF Take
    <2>2. queue' \in Seq(JobIds) /\ (~cancelled' => queue' = queue)
      BY <1>0, <1>1, <2>1 DEF Channels
    <2>3. /\ worker' \in [Workers -> JobIds \cup {Free, Gone}]
          /\ \A v \in Workers : worker'[v] \in JobIds => worker'[v] = worker[v]
          /\ \A v \in Workers : worker[v] \in JobIds => worker'[v] = worker[v]
      BY <1>0, <2>1, Numbers DEF Channels
    <2>4. Control' /\ Stored'
      BY <1>0, <2>1 DEF Control, Stored
    <2>5. Channels'
      BY <1>0, <2>1, <2>2, <2>3 DEF Channels
    <2>6. Turns'
      BY <1>0, <2>1, <2>2 DEF Turns
    <2>7. Held'
      BY <1>0, <2>1, <2>3 DEF Held
    <2> QED BY <2>4, <2>5, <2>6, <2>7 DEF AnyTime
  <1>2. CASE Take(w) /\ ~(cancelled \/ queue = <<>>)
    <2> DEFINE j == Len(entries)
    <2>1. /\ worker[w] = Free /\ worker' = [worker EXCEPT ![w] = Head(queue)]
          /\ queue' = Tail(queue) /\ entries' = Append(entries, Head(queue)) /\ queue # <<>>
          /\ ~cancelled
          /\ UNCHANGED <<tables, producer, failed, written, chunks, made, ended,
                         cancelled, archive, manifest, snapshot, upload, returned, faults>>
      BY <1>2 DEF Take
    <2>2. /\ queue \in Seq(JobIds) /\ entries \in Seq(JobIds) /\ j \in Nat
          /\ written \in Nat /\ written <= j
      BY <1>0 DEF Channels
    <2>3. Head(queue) = j /\ j \in JobIds
      <3>1. Len(queue) \in Nat /\ 1 \in 1..Len(queue) /\ Head(queue) = queue[1] /\ queue[1] \in JobIds
        BY <2>1, <2>2
      <3>2. queue[1] = j + 1 - 1
        BY <1>0, <2>1, <3>1 DEF Turns
      <3> QED BY <2>2, <3>1, <3>2
    <2>4. /\ Tail(queue) \in Seq(JobIds) /\ Len(queue') = Len(queue) - 1 /\ Len(queue) \in Nat
          /\ \A i \in 1..Len(queue') : queue'[i] = queue[i + 1]
      BY <2>1, <2>2
    <2>5. /\ Len(entries') = j + 1 /\ entries' \in Seq(JobIds)
          /\ \A i \in 1..j : entries'[i] = entries[i]
          /\ entries'[j + 1] = j
      BY <2>1, <2>2, <2>3
    <2>6. /\ worker' \in [Workers -> JobIds \cup {Free, Gone}] /\ worker'[w] = j
          /\ \A v \in Workers : v # w => worker'[v] = worker[v]
      BY <1>0, <2>1, <2>3 DEF Channels
    <2>7. Control' /\ Stored'
      BY <1>0, <2>1 DEF Control, Stored
    <2>8. Channels'
      <3>1. written' \in 0..Len(entries')
        BY <2>1, <2>2, <2>5
      <3> QED BY <1>0, <2>1, <2>4, <2>5, <2>6, <3>1 DEF Channels
    <2> HIDE DEF j
    <2>9. Turns'
      <3>1. \A i \in 1..Len(entries') : entries'[i] = i - 1
        <4>1. \A i \in 1..j : entries[i] = i - 1
          BY <1>0 DEF Turns, j
        <4>2. ASSUME NEW i \in 1..(j + 1) PROVE entries'[i] = i - 1
          <5>1. CASE i = j + 1
            <6>1. i - 1 = j
              BY <2>2, <5>1
            <6> QED BY <2>5, <5>1, <6>1
          <5>2. CASE i # j + 1
            <6>1. i \in 1..j
              BY <2>2, <5>2
            <6> QED BY <2>5, <4>1, <6>1
          <5> QED BY <5>1, <5>2
        <4> QED BY <2>5, <4>2
      <3>2. \A i \in 1..Len(queue') : queue'[i] = Len(entries') + i - 1
        <4>1. \A i \in 1..Len(queue) : queue[i] = j + i - 1
          BY <1>0, <2>1 DEF Turns, j
        <4>2. \A i \in 1..Len(queue') : i + 1 \in 1..Len(queue)
          BY <2>4
        <4> QED BY <2>2, <2>4, <2>5, <4>1, <4>2
      <3> QED BY <3>1, <3>2 DEF Turns
    <2>10. Held'
      <3>1. /\ \A v \in Workers : worker[v] \in JobIds =>
                  written <= worker[v] /\ worker[v] < j /\ ended[worker[v]] = "open"
            /\ \A u, v \in Workers : worker[u] \in JobIds /\ worker[u] = worker[v] => u = v
            /\ \A k \in JobIds : k < j /\ ended[k] = "open" => \E v \in Workers : worker[v] = k
            /\ \A k \in JobIds : k >= j => ended[k] = "open"
        BY <1>0 DEF Held, j
      <3>2. \A v \in Workers : worker'[v] \in JobIds =>
               written <= worker'[v] /\ worker'[v] < j + 1 /\ ended[worker'[v]] = "open"
        <4>1. written <= j /\ j < j + 1 /\ ended[j] = "open"
          BY <2>2, <2>3, <3>1
        <4>2. \A k \in JobIds : k < j => k < j + 1
          BY <2>2, Numbers
        <4> QED BY <2>6, <3>1, <4>1, <4>2
      <3>3. \A u, v \in Workers : worker'[u] \in JobIds /\ worker'[u] = worker'[v] => u = v
        <4>1. \A v \in Workers : worker[v] # j
          BY <2>2, <2>3, <3>1
        <4> QED BY <2>6, <3>1, <4>1
      <3>4. \A k \in JobIds : k < j + 1 /\ ended[k] = "open" => \E v \in Workers : worker'[v] = k
        <4>1. \A k \in JobIds : k < j + 1 => k < j \/ k = j
          BY <2>2, Numbers
        <4>2. \A k \in JobIds : \A v \in Workers : worker[v] = k => v # w
          BY <2>1, Numbers
        <4> QED BY <2>6, <3>1, <4>1, <4>2
      <3>5. \A k \in JobIds : k >= j + 1 => ended[k] = "open"
        <4>1. \A k \in JobIds : k >= j + 1 => k >= j
          BY <2>2, Numbers
        <4> QED BY <3>1, <4>1
      <3> QED BY <2>1, <2>5, <3>2, <3>3, <3>4, <3>5 DEF Held
    <2> QED BY <2>7, <2>8, <2>9, <2>10 DEF AnyTime
  <1>3. CASE WriteChunk(w)
    <2> DEFINE k == worker[w]
    <2>1. /\ k \in JobIds /\ made[k] < Chunks /\ chunks[k] < ChunkCount
          /\ made' = [made EXCEPT ![k] = @ + 1] /\ chunks' = [chunks EXCEPT ![k] = @ + 1]
          /\ UNCHANGED <<tables, producer, failed, written, queue, entries, worker, ended,
                         cancelled, archive, manifest, snapshot, upload, returned, faults>>
      BY <1>3 DEF WriteChunk, Room
    <2> HIDE DEF k
    <2>2. made[k] + 1 \in 0..Chunks /\ chunks[k] + 1 \in 0..ChunkCount
      <3>1. made[k] \in 0..Chunks /\ chunks[k] \in 0..ChunkCount
        BY <1>0, <2>1 DEF Channels
      <3> QED BY <2>1, <3>1, Bounds
    <2>3. made' \in [JobIds -> 0..Chunks] /\ chunks' \in [JobIds -> 0..ChunkCount]
      BY <1>0, <2>1, <2>2 DEF Channels
    <2>4. Control' /\ Stored'
      BY <1>0, <2>1 DEF Control, Stored
    <2>5. Channels'
      BY <1>0, <2>1, <2>3 DEF Channels
    <2> QED BY <1>0, <2>1, <2>4, <2>5, HoldingKept DEF AnyTime
  <1>4. ASSUME NEW result \in {"ok", "err"}, NEW next \in {Free, Gone}, Ends(w, result, next),
               faults' = faults \/ (faults < MaxFaults /\ faults' = faults + 1)
        PROVE  AnyTime'
    <2> DEFINE j == worker[w]
    <2>1. /\ j \in JobIds
          /\ ended' = [ended EXCEPT ![j] = result] /\ worker' = [worker EXCEPT ![w] = next]
          /\ UNCHANGED <<tables, producer, failed, written, queue, entries, chunks, made,
                         cancelled, archive, manifest, snapshot, upload, returned>>
      BY <1>4 DEF Ends
    <2>2. faults' \in 0..MaxFaults
      BY <1>0, <1>4, Bounds DEF Control
    <2>3. Control'
      BY <1>0, <2>1, <2>2 DEF Control
    <2>4. /\ worker' \in [Workers -> JobIds \cup {Free, Gone}] /\ worker'[w] = next
          /\ \A v \in Workers : v # w => worker'[v] = worker[v]
      BY <1>0, <2>1 DEF Channels
    <2>5. /\ ended' \in [JobIds -> {"open", "ok", "err"}] /\ ended'[j] = result
          /\ \A k \in JobIds : k # j => ended'[k] = ended[k]
      BY <1>0, <2>1 DEF Channels
    <2>6. Channels' /\ Stored'
      BY <1>0, <2>1, <2>4, <2>5 DEF Channels, Stored
    <2>7. Turns'
      BY <1>0, <2>1 DEF Turns
    <2>8. j < Len(entries) /\ j \in Nat /\ Len(entries) \in Nat
      <3>1. j < Len(entries)
        BY <1>0, <2>1 DEF Held
      <3>2. Len(entries) \in Nat
        BY <1>0 DEF Channels
      <3> HIDE DEF j
      <3>3. j \in Nat
        BY <2>1, Numbers
      <3> QED BY <3>1, <3>2, <3>3
    <2>9. \A v \in Workers : v # w /\ worker[v] \in JobIds => worker[v] # j
      BY <1>0, <2>1 DEF Held
    <2> HIDE DEF j
    <2>10. \A k \in JobIds : \A v \in Workers : worker[v] = k /\ k # j => v # w
      BY DEF j
    <2>11. \A v \in Workers : worker'[v] \in JobIds => v # w
      BY <1>4, <2>4, Numbers
    <2>12. Held'
      <3>1. \A v \in Workers : worker'[v] \in JobIds =>
               written <= worker'[v] /\ worker'[v] < Len(entries) /\ ended'[worker'[v]] = "open"
        BY <1>0, <2>4, <2>5, <2>9, <2>11 DEF Held
      <3>2. \A u, v \in Workers : worker'[u] \in JobIds /\ worker'[u] = worker'[v] => u = v
        BY <1>0, <2>4, <2>11 DEF Held
      <3>3. \A k \in JobIds : k < Len(entries) /\ ended'[k] = "open" => \E v \in Workers : worker'[v] = k
        <4>1. \A k \in JobIds : ended'[k] = "open" => k # j /\ ended[k] = "open"
          BY <1>4, <2>5
        <4> QED BY <1>0, <2>4, <2>10, <4>1 DEF Held
      <3>4. \A k \in JobIds : k >= Len(entries) => ended'[k] = "open"
        <4>1. \A k \in JobIds : k >= Len(entries) => k # j
          BY <2>8
        <4> QED BY <1>0, <2>5, <4>1 DEF Held
      <3> QED BY <2>1, <3>1, <3>2, <3>3, <3>4 DEF Held
    <2> QED BY <2>3, <2>6, <2>7, <2>12 DEF AnyTime
  <1>5. CASE DumpEnds(w) \/ DumpFails(w)
    BY <1>4, <1>5 DEF DumpEnds, DumpFails, Fault
  <1> QED BY <1>1, <1>2, <1>3, <1>5 DEF Work

\* ... after every step, for the upload, the job and the restore leave it alone.
LEMMA AnyTimeStep == AnyTime /\ [Next]_vars => AnyTime'
  <1> SUFFICES ASSUME AnyTime, [Next]_vars PROVE AnyTime'
    OBVIOUS
  <1>0. Control /\ Channels /\ Stored /\ Turns /\ Held
    BY DEF AnyTime
  <1>1. CASE UploadFails \/ JobReturns
    <2>1. /\ upload' \in {upload, "failed"} /\ upload' # "reads"
          /\ faults' = faults \/ (faults < MaxFaults /\ faults' = faults + 1)
          /\ \/ UNCHANGED <<cancelled, snapshot, returned>>
             \/ cancelled' = TRUE /\ snapshot' = FALSE /\ returned' = TRUE
          /\ UNCHANGED <<tables, producer, failed, written, queue, entries, worker, chunks, made,
                         ended, archive, manifest>>
      BY <1>1 DEF UploadFails, JobReturns, Return, Fault, plan, channels
    <2>2. faults' \in 0..MaxFaults
      BY <1>0, <2>1, Bounds DEF Control
    <2>3. Control'
      <3>1. CASE UNCHANGED <<cancelled, snapshot, returned>>
        BY <1>0, <2>1, <2>2, <3>1 DEF Control
      <3>2. CASE cancelled' = TRUE /\ snapshot' = FALSE /\ returned' = TRUE
        BY <1>0, <2>1, <2>2, <3>2 DEF Control
      <3> QED BY <2>1, <3>1, <3>2
    <2>4. Channels' /\ Stored'
      BY <1>0, <2>1 DEF Channels, Stored
    <2>5. cancelled => cancelled'
      BY <2>1
    <2> QED BY <1>0, <2>1, <2>3, <2>4, <2>5, HoldingKept DEF AnyTime
  <1>2. CASE Restore \/ UNCHANGED vars
    <2>1. /\ faults' = faults \/ (faults < MaxFaults /\ faults' = faults + 1)
          /\ UNCHANGED <<tables, producer, failed, written, queue, entries, worker, chunks, made,
                         ended, cancelled, archive, manifest, snapshot, upload, returned>>
      BY <1>2 DEF Restore, RestorePre, RestorePost, RestoreFails, Fault, dumpOnly, channels, vars,
                  dumpVars, plan
    <2>2. faults' \in 0..MaxFaults
      BY <1>0, <2>1, Bounds DEF Control
    <2>3. Control'
      BY <1>0, <2>1, <2>2 DEF Control
    <2>4. Channels' /\ Stored'
      BY <1>0, <2>1 DEF Channels, Stored
    <2> QED BY <1>0, <2>1, <2>3, <2>4, HoldingKept DEF AnyTime
  <1> QED BY <1>1, <1>2, ProducerHolds, WorkerHolds DEF Next, DumpNext

\* Whatever has failed, and after the dump has ended too.
LEMMA AtAnyTime == Spec => []AnyTime
  BY AnyTimeInit, AnyTimeStep, PTL DEF Spec

\* The types of the dump's state, for any number of tables, jobs and failures.
THEOREM DumpTypes == Spec => []TypeOK
  <1>1. ASSUME AnyTime PROVE TypeOK
    <2>0. Control /\ Channels /\ Stored
      BY <1>1 DEF AnyTime
    <2>1. tables \in Seq(Sizes)
      <3>1. PICK k \in 0..MaxTables : tables \in [1..k -> Sizes]
        BY <2>0 DEF Control, TablesUpTo
      <3>2. k \in Nat
        BY <3>1, Bounds
      <3> QED BY <3>1, <3>2
    <2>2. Range(archive) \subseteq FileNames
      BY <2>0 DEF Stored, Range
    <2>3. manifest \in {<<>>, archive}
      BY <2>0 DEF Stored
    <2>4. {failed, cancelled, snapshot, returned} \subseteq BOOLEAN
      BY <2>0 DEF Control
    <2> QED BY <2>0, <2>1, <2>2, <2>3, <2>4 DEF TypeOK, Control, Channels, FileNames
  <1> QED BY <1>1, AtAnyTime, PTL

-----------------------------------------------------------------------------
\* The dump is never stuck, and each of its steps brings it nearer to its end.

\* What DumpsEnd promises.
DumpOver == returned /\ ~snapshot /\ \A w \in Workers : worker[w] \notin JobIds

\* The producer has something to write, to drop, or to close.
ProducerCan ==
    \/ producer \in {"pre", "post"} /\ (upload = "reads" \/ cancelled)
    \/ /\ producer = "data" /\ written < Len(entries)
       /\ \/ chunks[Current] > 0 /\ (upload = "reads" \/ failed)
          \/ chunks[Current] = 0 /\ ended[Current] # "open"
    \/ producer = "data" /\ Drained
    \/ producer \in {"meta", "close"} /\ upload = "reads"

\* The worker can take a job, or its process can write, end or be killed.
WorkerCan(w) ==
    \/ producer = "data" /\ worker[w] = Free
    \/ worker[w] \in JobIds /\ (made[worker[w]] = Chunks \/ Room(worker[w]) \/ cancelled)

SomebodyCan ==
    ProducerCan \/ (\E w \in Workers : WorkerCan(w)) \/ (upload # "reads" /\ ~returned)

\* The producer waits for an entry only while a process that has room fills it: a
\* process that waits for room is never the one everything else waits for.
LEMMA NoWaitingInACircle ==
    ASSUME AnyTime, producer = "data", upload = "reads",
           \A w \in Workers : worker[w] # Free, ~Drained
    PROVE  ProducerCan \/ \E w \in Workers : WorkerCan(w)
  <1>0. Control /\ Channels /\ Turns /\ Held
    BY DEF AnyTime
  <1>1. written < Len(entries)
    <2>1. CASE \E w \in Workers : worker[w] # Gone
      <3>1. PICK w \in Workers : worker[w] # Gone
        BY <2>1
      <3>2. worker[w] \in JobIds
        BY <1>0, <3>1 DEF Channels
      <3>3. written <= worker[w] /\ worker[w] < Len(entries)
        BY <1>0, <3>2 DEF Held
      <3>4. written \in Nat /\ Len(entries) \in Nat
        BY <1>0 DEF Channels
      <3>5. worker[w] \in Nat
        BY <3>2, Numbers
      <3> QED BY <3>3, <3>4, <3>5
    <2>2. CASE \A w \in Workers : worker[w] = Gone
      <3>1. written # Len(entries)
        BY <2>2 DEF Drained
      <3>2. written \in 0..Len(entries) /\ Len(entries) \in Nat
        BY <1>0 DEF Channels
      <3> QED BY <3>1, <3>2
    <2> QED BY <2>1, <2>2
  <1>2. Current = written /\ written \in JobIds
    <2>1. written + 1 \in 1..Len(entries) /\ written + 1 - 1 = written
      BY <1>0, <1>1 DEF Channels
    <2>2. entries[written + 1] = written + 1 - 1 /\ entries[written + 1] \in JobIds
      BY <1>0, <2>1 DEF Turns, Channels
    <2> QED BY <2>1, <2>2 DEF Current
  <1>3. chunks[written] \in Nat
    BY <1>0, <1>2, Bounds DEF Channels
  <1>4. CASE chunks[written] > 0 \/ ended[written] # "open"
    <2>1. chunks[written] > 0 \/ chunks[written] = 0
      BY <1>3
    <2> QED BY <1>1, <1>2, <1>4, <2>1 DEF ProducerCan
  <1>5. CASE ~(chunks[written] > 0) /\ ended[written] = "open"
    <2>1. PICK w \in Workers : worker[w] = written
      BY <1>0, <1>1, <1>2, <1>5 DEF Held
    <2>2. chunks[written] < ChunkCount
      BY <1>3, <1>5, Bounds
    <2>3. WorkerCan(w)
      BY <1>2, <2>1, <2>2 DEF WorkerCan, Room
    <2> QED BY <2>1, <2>3
  <1> QED BY <1>4, <1>5

\* Whatever has failed, and however many processes wait for room in the channel of
\* their entry: until the dump is over, one of its parties has a step to take.
THEOREM NeverStuck == Spec => [](DumpOver \/ SomebodyCan)
  <1>1. ASSUME AnyTime PROVE DumpOver \/ SomebodyCan
    <2>0. Control /\ Channels
      BY <1>1 DEF AnyTime
    <2>1. CASE returned
      <3>1. cancelled /\ ~snapshot
        BY <2>0, <2>1 DEF Control
      <3>2. CASE \E w \in Workers : worker[w] \in JobIds
        BY <3>1, <3>2 DEF SomebodyCan, WorkerCan
      <3>3. CASE \A w \in Workers : worker[w] \notin JobIds
        BY <2>1, <3>1, <3>3 DEF DumpOver
      <3> QED BY <3>2, <3>3
    <2>2. CASE ~returned /\ upload # "reads"
      BY <2>2 DEF SomebodyCan
    <2>3. CASE upload = "reads"
      <3>1. producer \in {"pre", "data", "post", "meta", "close"}
        BY <2>0, <2>3 DEF Control
      <3>2. CASE producer # "data"
        BY <2>3, <3>1, <3>2 DEF SomebodyCan, ProducerCan
      <3>3. CASE producer = "data"
        <4>1. CASE \E w \in Workers : worker[w] = Free
          BY <3>3, <4>1 DEF SomebodyCan, WorkerCan
        <4>2. CASE Drained
          BY <3>3, <4>2 DEF SomebodyCan, ProducerCan
        <4>3. CASE ~Drained /\ \A w \in Workers : worker[w] # Free
          BY <1>1, <2>3, <3>3, <4>3, NoWaitingInACircle DEF SomebodyCan
        <4> QED BY <4>1, <4>2, <4>3
      <3> QED BY <3>2, <3>3
    <2> QED BY <2>1, <2>2, <2>3
  <1> QED BY <1>1, AtAnyTime, PTL

At == [pre |-> 0, data |-> 1, post |-> 2, meta |-> 3, close |-> 4, gone |-> 5]

\* What has been done stays done ...
NothingUndone ==
    /\ At[producer] <= At[producer'] /\ written <= written' /\ Len(entries) <= Len(entries')
    /\ \A j \in JobIds : /\ made[j] <= made'[j]
                         /\ made[j] - chunks[j] <= made'[j] - chunks'[j]
                         /\ ended[j] # "open" => ended'[j] = ended[j]
    /\ \A w \in Workers : worker[w] = Gone => worker'[w] = Gone
    /\ upload # "reads" => upload' = upload
    /\ returned => returned'

\* ... and something is done.
SomethingDone ==
    \/ producer' # producer \/ written' # written \/ Len(entries') # Len(entries)
    \/ made' # made \/ chunks' # chunks \/ ended' # ended
    \/ \E w \in Workers : worker[w] # Gone /\ worker'[w] = Gone
    \/ upload' # upload
    \/ ~returned /\ returned'

\* The jobs, and the end of the dump, as a step of another part leaves them.
JobsUndisturbed == UNCHANGED <<written, entries, worker, made, chunks, ended>>
EndUndisturbed == UNCHANGED <<upload, returned>>

\* Of what a step leaves alone, nothing is undone.
LEMMA Undisturbed ==
    ASSUME AnyTime
    PROVE  /\ At[producer] <= At[producer]
           /\ JobsUndisturbed =>
                /\ written <= written' /\ Len(entries) <= Len(entries')
                /\ \A j \in JobIds : /\ made[j] <= made'[j]
                                     /\ made[j] - chunks[j] <= made'[j] - chunks'[j]
                                     /\ ended[j] # "open" => ended'[j] = ended[j]
                /\ \A w \in Workers : worker[w] = Gone => worker'[w] = Gone
  <1>1. written \in Nat /\ Len(entries) \in Nat
    BY DEF AnyTime, Channels
  <1>2. \A j \in JobIds : made[j] \in Nat /\ chunks[j] \in Nat
    BY Bounds DEF AnyTime, Channels
  <1>3. At[producer] \in Nat
    BY DEF AnyTime, Control, At
  <1> QED BY <1>1, <1>2, <1>3 DEF JobsUndisturbed

\* A step of the producer undoes nothing and does something.
LEMMA ProducerForward == ASSUME AnyTime, Produce PROVE NothingUndone /\ SomethingDone
  <1>0. Control /\ Channels /\ Held
    BY DEF AnyTime
  <1> USE DEF plan, channels
  <1>1. CASE Section \/ EndData \/ WriteMeta
    <2>1. /\ <<producer, producer'>> \in
                {"pre", "post"} \X {"close"}
                \cup {<<"pre", "data">>, <<"post", "meta">>, <<"meta", "close">>,
                      <<"data", "close">>, <<"data", "post">>}
          /\ JobsUndisturbed /\ EndUndisturbed
      BY <1>1 DEF Section, SectionWritten, SectionFails, EndData, WriteMeta, JobsUndisturbed,
                  EndUndisturbed
    <2>2. At[producer] <= At[producer'] /\ producer' # producer
      BY <2>1 DEF At
    <2> QED BY <2>1, <2>2, Undisturbed DEF NothingUndone, SomethingDone, EndUndisturbed
  <1>2. CASE MoveChunk
    <2> DEFINE c == Current
    <2>1. /\ chunks[c] > 0 /\ written < Len(entries)
          /\ chunks' = [chunks EXCEPT ![c] = @ - 1]
          /\ UNCHANGED <<producer, written, entries, worker, made, ended, upload, returned>>
      BY <1>2 DEF MoveChunk
    <2>2. c \in JobIds
      BY <1>0, <2>1 DEF Current, Channels
    <2> HIDE DEF c
    <2>3. \A j \in JobIds : made[j] \in Nat /\ chunks[j] \in Nat
      BY <1>0, Bounds DEF Channels
    <2>4. /\ \A j \in JobIds \ {c} : chunks'[j] = chunks[j]
          /\ chunks'[c] = chunks[c] - 1
      BY <1>0, <2>1, <2>2 DEF Channels
    <2>5. \A j \in JobIds : made[j] - chunks[j] <= made'[j] - chunks'[j]
      BY <2>1, <2>3, <2>4
    <2>6. chunks' # chunks
      BY <2>2, <2>3, <2>4
    <2>7. \A j \in JobIds : made[j] <= made'[j]
      BY <2>1, <2>3
    <2>8. written <= written' /\ Len(entries) <= Len(entries')
      BY <1>0, <2>1 DEF Channels
    <2> QED BY <2>1, <2>5, <2>6, <2>7, <2>8, Undisturbed DEF NothingUndone, SomethingDone
  <1>3. CASE EndEntry
    <2>1. /\ written' = written + 1
          /\ UNCHANGED <<producer, entries, worker, made, chunks, ended, upload, returned>>
      BY <1>3 DEF EndEntry
    <2>2. written \in Nat /\ Len(entries) \in Nat
      BY <1>0 DEF Channels
    <2>3. \A j \in JobIds : made[j] \in Nat /\ chunks[j] \in Nat
      BY <1>0, Bounds DEF Channels
    <2>4. \A j \in JobIds : made[j] <= made'[j] /\ made[j] - chunks[j] <= made'[j] - chunks'[j]
      BY <2>1, <2>3
    <2>5. written <= written' /\ written' # written /\ Len(entries) <= Len(entries')
      BY <2>1, <2>2
    <2> QED BY <2>1, <2>4, <2>5, Undisturbed DEF NothingUndone, SomethingDone
  <1>4. CASE Close
    <2>1. /\ producer = "close" /\ producer' = "gone" /\ upload = "reads"
          /\ returned' = returned /\ JobsUndisturbed
      BY <1>4 DEF Close, JobsUndisturbed
    <2>2. At[producer] <= At[producer'] /\ producer' # producer
      BY <2>1 DEF At
    <2> QED BY <2>1, <2>2, Undisturbed DEF NothingUndone, SomethingDone
  <1> QED BY <1>1, <1>2, <1>3, <1>4 DEF Produce

\* So does a step of a worker or of its pg_dump process.
LEMMA WorkerForward ==
    ASSUME AnyTime, NEW w \in Workers, Work(w)
    PROVE  NothingUndone /\ SomethingDone
  <1>0. Control /\ Channels /\ Held
    BY DEF AnyTime
  <1> USE DEF plan, channels
  <1>1. written \in Nat /\ Len(entries) \in Nat /\ At[producer] <= At[producer]
    BY <1>0, Undisturbed DEF Channels
  <1>2. \A j \in JobIds : made[j] \in Nat /\ chunks[j] \in Nat
    BY <1>0, Bounds DEF Channels
  <1>3. CASE Take(w)
    <2>1. /\ UNCHANGED <<producer, written, chunks, made, ended, upload, returned>>
          /\ worker[w] = Free /\ worker' = [worker EXCEPT ![w] = worker'[w]]
          /\ \/ worker'[w] = Gone /\ entries' = entries
             \/ queue # <<>> /\ entries' = Append(entries, Head(queue))
      BY <1>0, <1>3 DEF Take, Channels
    <2>2. \A v \in Workers : worker[v] = Gone => worker'[v] = Gone
      BY <1>0, <2>1, Numbers DEF Channels
    <2>3. \A j \in JobIds : made[j] <= made'[j] /\ made[j] - chunks[j] <= made'[j] - chunks'[j]
      BY <1>2, <2>1
    <2>4. CASE worker'[w] = Gone /\ entries' = entries
      <3>1. Len(entries) <= Len(entries') /\ written <= written' /\ worker[w] # Gone
        BY <1>1, <2>1, <2>4, Numbers
      <3> QED BY <1>1, <2>1, <2>2, <2>3, <2>4, <3>1 DEF NothingUndone, SomethingDone
    <2>5. CASE queue # <<>> /\ entries' = Append(entries, Head(queue))
      <3>1. Len(entries') = Len(entries) + 1
        BY <1>0, <2>5 DEF Channels
      <3>2. Len(entries) <= Len(entries') /\ Len(entries') # Len(entries) /\ written <= written'
        BY <1>1, <2>1, <3>1
      <3> QED BY <1>1, <2>1, <2>2, <2>3, <3>2 DEF NothingUndone, SomethingDone
    <2> QED BY <2>1, <2>4, <2>5
  <1>4. CASE WriteChunk(w)
    <2> DEFINE k == worker[w]
    <2>1. /\ k \in JobIds
          /\ made' = [made EXCEPT ![k] = @ + 1] /\ chunks' = [chunks EXCEPT ![k] = @ + 1]
          /\ UNCHANGED <<producer, written, entries, worker, ended, upload, returned>>
      BY <1>4 DEF WriteChunk
    <2> HIDE DEF k
    <2>2. /\ \A j \in JobIds \ {k} : made'[j] = made[j] /\ chunks'[j] = chunks[j]
          /\ made'[k] = made[k] + 1 /\ chunks'[k] = chunks[k] + 1
      BY <1>0, <2>1 DEF Channels
    <2>3. \A j \in JobIds : made[j] <= made'[j] /\ made[j] - chunks[j] <= made'[j] - chunks'[j]
      BY <1>2, <2>1, <2>2
    <2>4. made' # made
      BY <1>2, <2>1, <2>2
    <2>5. written <= written' /\ Len(entries) <= Len(entries')
      BY <1>1, <2>1
    <2> QED BY <1>1, <2>1, <2>3, <2>4, <2>5 DEF NothingUndone, SomethingDone
  <1>5. CASE DumpEnds(w) \/ DumpFails(w)
    <2> DEFINE k == worker[w]
    <2>1. PICK result \in {"ok", "err"}, next \in {Free, Gone} : Ends(w, result, next)
      BY <1>5 DEF DumpEnds, DumpFails
    <2>2. /\ k \in JobIds
          /\ ended' = [ended EXCEPT ![k] = result] /\ worker' = [worker EXCEPT ![w] = next]
          /\ UNCHANGED <<producer, written, entries, chunks, made, upload, returned>>
      BY <2>1 DEF Ends
    <2>3. ended[k] = "open" /\ k # Gone
      BY <1>0, <2>2, Numbers DEF Held
    <2> HIDE DEF k
    <2>4. /\ \A j \in JobIds : ended[j] # "open" => ended'[j] = ended[j]
          /\ ended'[k] # "open"
      BY <1>0, <2>1, <2>2, <2>3 DEF Channels
    <2>5. ended' # ended
      BY <2>3, <2>4
    <2>6. \A v \in Workers : worker[v] = Gone => worker'[v] = Gone
      BY <1>0, <2>2, <2>3 DEF Channels, k
    <2>7. \A j \in JobIds : made[j] <= made'[j] /\ made[j] - chunks[j] <= made'[j] - chunks'[j]
      BY <1>2, <2>2
    <2>8. written <= written' /\ Len(entries) <= Len(entries')
      BY <1>1, <2>2
    <2> QED BY <1>1, <2>2, <2>4, <2>5, <2>6, <2>7, <2>8 DEF NothingUndone, SomethingDone
  <1> QED BY <1>3, <1>4, <1>5 DEF Work

\* Every step of the dump, of its upload and of the job that waits for it does
\* something that no later step undoes.  All that can be done is bounded by the types,
\* so the dump takes finitely many steps, for any number of processes and chunks.
THEOREM GoesForward == Spec => [][NothingUndone /\ SomethingDone]_dumpOnly
  <1>1. ASSUME AnyTime, [Next]_vars PROVE [NothingUndone /\ SomethingDone]_dumpOnly
    <2>1. CASE Produce
      BY <1>1, <2>1, ProducerForward
    <2>2. CASE \E w \in Workers : Work(w)
      BY <1>1, <2>2, WorkerForward
    <2>3. CASE UploadFails \/ JobReturns
      <3>1. /\ producer' = producer /\ JobsUndisturbed
            /\ \/ upload = "reads" /\ upload' = "failed" /\ returned' = returned
               \/ ~returned /\ returned' = TRUE /\ upload' = upload
        BY <2>3 DEF UploadFails, JobReturns, Return, JobsUndisturbed, channels
      <3> QED BY <1>1, <3>1, Undisturbed DEF NothingUndone, SomethingDone
    <2>4. CASE Restore \/ UNCHANGED vars
      BY <2>4 DEF Restore, vars, dumpVars, plan, dumpOnly
    <2> QED BY <1>1, <2>1, <2>2, <2>3, <2>4 DEF Next, DumpNext
  <1> QED BY <1>1, AtAnyTime, PTL DEF Spec

StageAt == [none |-> 0, pre |-> 1, data |-> 2, post |-> 3, ok |-> 4, failed |-> 4]

\* The restore comes to a later stage, or at the same stage a file is taken or
\* restored, or a process leaves for good.
RestoreForward ==
    \/ StageAt[stage] < StageAt[stage']
    \/ /\ stage' = stage
       /\ Len(restored) <= Len(restored') /\ Len(todo') <= Len(todo)
       /\ \A s \in Sessions : psql[s] = Done => psql'[s] = Done
       /\ \/ Len(restored') # Len(restored) \/ Len(todo') # Len(todo)
          \/ \E s \in Sessions : psql[s] # Done /\ psql'[s] = Done

\* Every step of a restore brings it nearer to its end too: no file goes back to the
\* queue and no stage comes again, for any number of psql processes and failures.
THEOREM RestoreGoesForward == Spec => [][RestoreForward]_restoreVars
  <1>1. ASSUME RestoreTypes, [Next]_vars PROVE [RestoreForward]_restoreVars
    <2>0. Len(restored) \in Nat /\ Len(todo) \in Nat /\ psql \in [Sessions -> Named]
      BY <1>1 DEF RestoreTypes
    <2>1. CASE OpenArchive \/ RestorePre \/ EndDataFiles \/ RestorePost
      <3>1. <<stage, stage'>> \in {"none"} \X {"pre", "failed"} \cup {"pre"} \X {"data", "post", "failed"}
                                  \cup {"data"} \X {"post", "failed"} \cup {"post"} \X {"ok", "failed"}
        BY <2>1 DEF OpenArchive, RestorePre, StartData, EndDataFiles, RestorePost
      <3> QED BY <3>1 DEF RestoreForward, StageAt
    <2>2. ASSUME NEW s \in Sessions, TakeFile(s) PROVE RestoreForward
      <3>1. psql[s] = Idle /\ Idle # Done /\ stage' = stage /\ restored' = restored
        BY <2>2 DEF TakeFile, Idle, Done
      <3>2. psql' = [psql EXCEPT ![s] = psql'[s]]
        BY <2>0, <2>2 DEF TakeFile
      <3>3. \A r \in Sessions : psql[r] = Done => psql'[r] = Done
        BY <2>0, <3>1, <3>2
      <3>4. CASE todo = <<>>
        <4>1. todo' = todo /\ psql'[s] = Done
          BY <2>0, <2>2, <3>4 DEF TakeFile
        <4>2. Len(restored) <= Len(restored') /\ Len(todo') <= Len(todo)
          BY <2>0, <3>1, <4>1
        <4> QED BY <3>1, <3>3, <4>1, <4>2 DEF RestoreForward
      <3>5. CASE todo # <<>>
        <4>1. todo' = Tail(todo)
          BY <2>2, <3>5 DEF TakeFile
        <4>2. Len(todo') = Len(todo) - 1
          BY <1>1, <3>5, <4>1 DEF RestoreTypes
        <4>3. Len(restored) <= Len(restored') /\ Len(todo') <= Len(todo) /\ Len(todo') # Len(todo)
          BY <2>0, <3>1, <4>2
        <4> QED BY <3>1, <3>3, <4>3 DEF RestoreForward
      <3> QED BY <3>4, <3>5
    <2>3. ASSUME NEW s \in Sessions, FileRestored(s) PROVE RestoreForward
      <3>1. /\ psql[s] # Done /\ psql' = [psql EXCEPT ![s] = Idle] /\ stage' = stage /\ todo' = todo
            /\ restored' = Append(restored, psql[s])
        BY <2>3 DEF FileRestored
      <3>2. \A r \in Sessions : psql[r] = Done => psql'[r] = Done
        BY <2>0, <3>1
      <3>3. Len(restored') = Len(restored) + 1
        BY <1>1, <3>1 DEF RestoreTypes
      <3>4. Len(restored) <= Len(restored') /\ Len(restored') # Len(restored) /\ Len(todo') <= Len(todo)
        BY <2>0, <3>1, <3>3
      <3> QED BY <3>1, <3>2, <3>4 DEF RestoreForward
    <2>4. ASSUME NEW s \in Sessions, RestoreFails(s), UNCHANGED <<stage, todo, restored>>
          PROVE  RestoreForward
      <3>1. psql[s] # Done /\ psql' = [psql EXCEPT ![s] = Done]
        BY <2>4 DEF RestoreFails, FileFails
      <3>2. psql'[s] = Done /\ \A r \in Sessions : psql[r] = Done => psql'[r] = Done
        BY <2>0, <3>1
      <3>3. Len(restored) <= Len(restored') /\ Len(todo') <= Len(todo)
        BY <2>0, <2>4
      <3> QED BY <2>4, <3>1, <3>2, <3>3 DEF RestoreForward
    <2>5. \A s \in Sessions : RestoreFails(s) => UNCHANGED <<stage, todo, restored>>
      BY DEF RestoreFails
    <2>6. CASE Restore
      BY <2>1, <2>2, <2>3, <2>4, <2>5, <2>6 DEF Restore
    <2>7. CASE UNCHANGED restoreVars
      BY <2>7
    <2> QED BY <1>1, <2>6, <2>7 DEF Next, vars
  <1>2. RestoreInv => RestoreTypes
    BY DEF RestoreInv
  <1> QED BY <1>1, <1>2, RestoreInvariant, PTL DEF Spec
=============================================================================
