--------------------------- MODULE ProgressProofs ---------------------------
(***************************************************************************)
(* What a user sees of work under way: its cards in the lists of the       *)
(* dashboard (ListPages) and the tail of its log (LogTail).                *)
(*                                                                         *)
(* Lists.  What a page shows is, but for jobs that came to the front since *)
(* it was read, the list down to some row, and what is asked for next      *)
(* begins no lower.  A move to the front only pushes rows down, so it      *)
(* keeps this of what is shown and of what requests have found (Moved),    *)
(* and each statement of a request adds the rows of its page (ReadFinds).  *)
(*                                                                         *)
(* Tails.  Flushes are numbered in the order of the copies they carry, and *)
(* one that is dropped was overtaken by a newer one that is done.          *)
(***************************************************************************)
EXTENDS LogTail, ListPages, FiniteSetTheorems, TLAPS

\* No job is listed twice.
Distinct(o) == \A a, b \in DOMAIN o : o[a] = o[b] => a = b

\* Of the rows of a list o that are not new, S has those above each one it has ...
Before(o, S, new) ==
    \A a, b \in DOMAIN o :
        a < b /\ o[a] \notin new /\ o[b] \notin new /\ o[b] \in S => o[a] \in S

\* ... and those down to row d.
DownTo(o, S, new, d) == \A a \in DOMAIN o : a <= d /\ o[a] \notin new => o[a] \in S

\* Taking a job out of the list moves those below it one place up.
LEMMA WithoutIs ==
    ASSUME order \in Seq(Jobs), NEW j \in Jobs
    PROVE  /\ Without(j) \in Seq(Jobs)
           /\ \/ Without(j) = order /\ \A i \in DOMAIN order : order[i] # j
              \/ \E p \in 1..Len(order) :
                    /\ order[p] = j
                    /\ Without(j) \in [1..(Len(order) - 1) -> Jobs]
                    /\ \A i \in 1..(Len(order) - 1) :
                          Without(j)[i] = order[IF i < p THEN i ELSE i + 1]
  <1>1. CASE \E i \in DOMAIN order : order[i] = j
    <2>1. PICK p : p \in DOMAIN order /\ order[p] = j /\ Without(j) = RemoveAt(order, p)
      BY <1>1 DEF Without
    <2> DEFINE s == SubSeq(order, 1, p - 1)
               t == SubSeq(order, p + 1, Len(order))
    <2>2. p \in 1..Len(order) /\ Len(order) \in Nat
      BY <2>1
    <2>3. s \in Seq(Jobs) /\ Len(s) = p - 1 /\ \A i \in 1..(p - 1) : s[i] = order[i]
      BY <2>2
    <2>4. t \in Seq(Jobs) /\ Len(t) = Len(order) - p /\ \A i \in 1..(Len(order) - p) : t[i] = order[p + i]
      BY <2>2
    <2>5. Without(j) = s \o t
      BY <2>1 DEF RemoveAt
    <2> HIDE DEF s, t
    <2>6. Without(j) \in Seq(Jobs) /\ Len(Without(j)) = Len(order) - 1
      BY <2>2, <2>3, <2>4, <2>5
    <2>7. ASSUME NEW i \in 1..(Len(order) - 1)
          PROVE  Without(j)[i] = order[IF i < p THEN i ELSE i + 1]
      <3>1. CASE i < p
        <4>1. i \in 1..Len(s) /\ (s \o t)[i] = s[i]
          BY <2>2, <2>3, <2>4, <3>1
        <4> QED BY <2>3, <2>5, <3>1, <4>1
      <3>2. CASE ~(i < p)
        <4> DEFINE k == i - (p - 1)
        <4>1. k \in 1..(Len(order) - p) /\ p + k = i + 1
          BY <2>2, <3>2
        <4>2. (s \o t)[i] = t[k]
          BY <2>2, <2>3, <2>4, <3>2
        <4> HIDE DEF k
        <4>3. t[k] = order[i + 1]
          BY <2>4, <4>1
        <4> QED BY <2>5, <3>2, <4>2, <4>3
      <3> QED BY <3>1, <3>2
    <2> QED BY <2>1, <2>2, <2>6, <2>7
  <1>2. CASE ~ \E i \in DOMAIN order : order[i] = j
    BY <1>2 DEF Without
  <1> QED BY <1>1, <1>2

\* What comes to the front of the list is new: what is shown stays as complete as it was.
Moved(j) ==
    /\ order' \in Seq(Jobs)
    /\ \A S, new : Before(order, S, new) => Before(order', S, new \cup {j})
    /\ \A S, new : \A d \in Int :
          DownTo(order, S, new, d) => DownTo(order', S, new \cup {j}, d)

\* A job put before all others has come to the front, ...
LEMMA PrependMoves ==
    ASSUME order \in Seq(Jobs), NEW j \in Jobs, order' = <<j>> \o order
    PROVE  Moved(j)
  <1>1. order' \in Seq(Jobs) /\ DOMAIN order' = 1..(Len(order) + 1) /\ Len(order) \in Nat
        /\ DOMAIN order = 1..Len(order)
        /\ order'[1] = j /\ \A i \in 2..(Len(order) + 1) : order'[i] = order[i - 1]
    OBVIOUS
  <1>2. \A i \in DOMAIN order' : order'[i] # j => i - 1 \in DOMAIN order /\ order'[i] = order[i - 1]
    BY <1>1
  <1> QED BY <1>1, <1>2 DEF Moved, Before, DownTo

\* ... and so has one that is taken from its place for it.
LEMMA ToFrontMoves ==
    ASSUME order \in Seq(Jobs), NEW j \in Jobs, order' = <<j>> \o Without(j)
    PROVE  Moved(j)
  <1>1. CASE Without(j) = order
    BY <1>1, PrependMoves
  <1>2. ASSUME NEW p \in 1..Len(order),
               order[p] = j,
               Without(j) \in [1..(Len(order) - 1) -> Jobs],
               \A i \in 1..(Len(order) - 1) :
                   Without(j)[i] = order[IF i < p THEN i ELSE i + 1]
        PROVE  Moved(j)
    <2>1. Without(j) \in Seq(Jobs) /\ Len(order) \in Nat /\ Len(Without(j)) = Len(order) - 1
      BY WithoutIs, <1>2
    <2>2. order' \in Seq(Jobs) /\ DOMAIN order' = 1..Len(order) /\ DOMAIN order = 1..Len(order)
          /\ order'[1] = j /\ \A i \in 2..Len(order) : order'[i] = Without(j)[i - 1]
      BY <2>1
    <2> DEFINE from(i) == IF i - 1 < p THEN i - 1 ELSE i
    <2>3. \A i \in DOMAIN order' : order'[i] # j =>
             from(i) \in DOMAIN order /\ order'[i] = order[from(i)] /\ from(i) <= i
      BY <2>1, <2>2, <1>2
    <2>4. \A i, k \in DOMAIN order' : i < k /\ order'[i] # j /\ order'[k] # j => from(i) < from(k)
      BY <2>1, <2>2
    <2> HIDE DEF from
    <2>5. ASSUME NEW S, NEW new, Before(order, S, new) PROVE Before(order', S, new \cup {j})
      <3> SUFFICES ASSUME NEW a \in DOMAIN order', NEW b \in DOMAIN order', a < b,
                          order'[a] \notin new \cup {j}, order'[b] \notin new \cup {j}, order'[b] \in S
                   PROVE  order'[a] \in S
        BY DEF Before
      <3>1. from(a) \in DOMAIN order /\ from(b) \in DOMAIN order /\ from(a) < from(b)
            /\ order'[a] = order[from(a)] /\ order'[b] = order[from(b)]
        BY <2>3, <2>4
      <3> QED BY <2>5, <3>1 DEF Before
    <2>6. ASSUME NEW S, NEW new, NEW d \in Int, DownTo(order, S, new, d)
          PROVE  DownTo(order', S, new \cup {j}, d)
      <3> SUFFICES ASSUME NEW a \in DOMAIN order', a <= d, order'[a] \notin new \cup {j}
                   PROVE  order'[a] \in S
        BY DEF DownTo
      <3>1. from(a) \in DOMAIN order /\ from(a) <= a /\ order'[a] = order[from(a)]
        BY <2>3
      <3>2. from(a) \in Int /\ a \in Int
        BY <2>1, <2>2, <3>1
      <3>3. from(a) <= d
        BY <3>1, <3>2
      <3> QED BY <2>6, <3>1, <3>3 DEF DownTo
    <2> QED BY <2>2, <2>5, <2>6 DEF Moved
  <1> QED BY <1>1, <1>2, WithoutIs

\* What is left when a job is taken out has none twice, and not that one.
LEMMA WithoutDistinct ==
    ASSUME order \in Seq(Jobs), NEW j \in Jobs, Distinct(order)
    PROVE  /\ Without(j) \in Seq(Jobs) /\ Distinct(Without(j))
           /\ \A i \in DOMAIN Without(j) :
                  Without(j)[i] # j /\ \E k \in DOMAIN order : Without(j)[i] = order[k]
  <1>1. CASE Without(j) = order /\ \A i \in DOMAIN order : order[i] # j
    BY <1>1
  <1>2. ASSUME NEW p \in 1..Len(order),
               order[p] = j,
               Without(j) \in [1..(Len(order) - 1) -> Jobs],
               \A i \in 1..(Len(order) - 1) :
                   Without(j)[i] = order[IF i < p THEN i ELSE i + 1]
        PROVE  /\ Distinct(Without(j))
               /\ \A i \in DOMAIN Without(j) :
                      Without(j)[i] # j /\ \E k \in DOMAIN order : Without(j)[i] = order[k]
    <2> DEFINE from(i) == IF i < p THEN i ELSE i + 1
    <2>1. DOMAIN order = 1..Len(order) /\ Len(order) \in Nat /\ DOMAIN Without(j) = 1..(Len(order) - 1)
      BY <1>2
    <2>2. \A i \in DOMAIN Without(j) : from(i) \in DOMAIN order /\ from(i) # p /\ Without(j)[i] = order[from(i)]
      BY <1>2, <2>1
    <2>3. \A i, k \in DOMAIN Without(j) : from(i) = from(k) => i = k
      BY <2>1
    <2>4. p \in DOMAIN order
      BY <2>1
    <2> HIDE DEF from
    <2> QED BY <1>2, <2>2, <2>3, <2>4 DEF Distinct
  <1> QED BY <1>1, <1>2, WithoutIs

\* The n-th members of a finite set of numbers are all of its members.
LEMMA NthIs ==
    ASSUME NEW m \in Nat, NEW T \in SUBSET (1..m)
    PROVE  /\ IsFiniteSet(T) /\ Cardinality(T) \in Nat
           /\ \A n \in 1..Cardinality(T) : Nth(T, n) \in T
           /\ \A i \in T : \E n \in 1..Cardinality(T) : i = Nth(T, n)
  <1> DEFINE upto(i) == {k \in T : k <= i}
             rank == [i \in T |-> Cardinality(upto(i))]
             N == Cardinality(T)
             R == {rank[i] : i \in T}
  <1>1. IsFiniteSet(T) /\ N \in Nat
    <2>1. 1 \in Int /\ m \in Int
      OBVIOUS
    <2>2. IsFiniteSet(1..m)
      BY <2>1, FS_Interval
    <2> QED BY <2>2, FS_Subset, FS_CardinalityType
  <1>2. \A i \in T : IsFiniteSet(upto(i)) /\ Cardinality(upto(i)) \in Nat /\ Cardinality(upto(i)) <= N
    BY <1>1, FS_Subset, FS_CardinalityType
  <1>3. \A i \in T : Cardinality(upto(i)) # 0
    BY <1>2, FS_EmptySet
  <1>4. \A i, k \in T : i < k => Cardinality(upto(i)) < Cardinality(upto(k))
    <2> TAKE i, k \in T
    <2> HAVE i < k
    <2>0. i \in Int /\ k \in Int /\ \A x \in T : x \in Int
      OBVIOUS
    <2>1. upto(i) \subseteq upto(k) /\ k \notin upto(i) /\ k \in upto(k)
      <3>1. \A x \in T : x <= i => x <= k
        BY <2>0
      <3>2. ~(k <= i) /\ k <= k
        BY <2>0
      <3> QED BY <3>1, <3>2
    <2> HIDE DEF upto
    <2>2. IsFiniteSet(upto(k)) /\ upto(i) # upto(k)
      BY <1>2, <2>1
    <2>3. Cardinality(upto(i)) <= Cardinality(upto(k)) /\ Cardinality(upto(i)) # Cardinality(upto(k))
      BY <2>1, <2>2, FS_Subset
    <2> QED BY <1>2, <2>3
  <1>5. \A i, k \in T : rank[i] = rank[k] => i = k
    BY <1>2, <1>4
  <1>6. R \subseteq 1..N
    <2>1. \A i \in T : rank[i] \in 1..N
      <3> HIDE DEF upto, N
      <3> QED BY <1>1, <1>2, <1>3
    <2> QED BY <2>1
  <1>7. R = 1..N
    <2>1. rank \in Bijection(T, R)
      BY <1>5 DEF Bijection, Injection, Surjection, IsInjective
    <2>2. Cardinality(R) = N
      BY <2>1, <1>1, FS_Bijection DEF ExistsBijection
    <2>3. IsFiniteSet(1..N) /\ Cardinality(1..N) = N
      BY <1>1, FS_Interval
    <2> HIDE DEF R, N
    <2> QED BY <1>6, <2>2, <2>3, FS_Subset
  <1>8. \A i \in T : rank[i] = Cardinality({k \in T : k <= i})
    OBVIOUS
  <1> HIDE DEF rank, upto, N
  <1>9. \A n \in 1..N : Nth(T, n) \in T /\ rank[Nth(T, n)] = n
    BY <1>7, <1>8 DEF Nth
  <1> QED BY <1>1, <1>5, <1>7, <1>9 DEF N

\* The jobs of a row of cards.
JobsOf(rows) == {rows[i].job : i \in DOMAIN rows}

\* Reading rows yields a card of each job that still has one.
LEMMA RowsAre ==
    ASSUME NEW js \in Seq(Jobs),
           \A i \in DOMAIN js : status[js[i]] \in {"queued", "running", "ended", "gone"}
    PROVE  /\ ReadRows(js) \in Seq(Card)
           /\ JobsOf(ReadRows(js)) = {j \in Range(js) : status[j] # "gone"}
  <1> DEFINE there == {i \in DOMAIN js : status[js[i]] # "gone"}
             N == Cardinality(there)
             rows == [n \in 1..N |-> CardOf(js[Nth(there, n)])]
  <1>1. Len(js) \in Nat /\ DOMAIN js = 1..Len(js) /\ there \in SUBSET (1..Len(js))
    OBVIOUS
  <1>2. /\ N \in Nat /\ \A n \in 1..N : Nth(there, n) \in there
        /\ \A i \in there : \E n \in 1..N : i = Nth(there, n)
    <2> HIDE DEF there
    <2> QED BY <1>1, NthIs
  <1>3. ReadRows(js) = rows
    BY DEF ReadRows
  <1>4. \A i \in there : js[i] \in Jobs /\ status[js[i]] \in {"queued", "running", "ended"}
    BY <1>1
  <1>5. \A j : CardOf(j).job = j
    BY DEF CardOf
  <1>6. \A i \in there : CardOf(js[i]) \in Card
    BY <1>4 DEF CardOf, Card
  <1>7. rows \in Seq(Card) /\ DOMAIN rows = 1..N
    <2> HIDE DEF there
    <2>1. rows \in [1..N -> Card] /\ DOMAIN rows = 1..N
      BY <1>2, <1>6
    <2> HIDE DEF rows, N
    <2> QED BY <2>1, <1>2
  <1>8. JobsOf(rows) = {js[i] : i \in there}
    <2> HIDE DEF there
    <2>1. \A n \in 1..N : rows[n].job = js[Nth(there, n)]
      BY <1>5
    <2> HIDE DEF rows
    <2>2. \A j : j \in JobsOf(rows) <=> \E n \in 1..N : j = js[Nth(there, n)]
      BY <2>1, <1>7 DEF JobsOf
    <2>3. \A j : (\E n \in 1..N : j = js[Nth(there, n)]) <=> \E i \in there : j = js[i]
      BY <1>2
    <2> QED BY <2>2, <2>3
  <1>9. {js[i] : i \in there} = {j \in Range(js) : status[j] # "gone"}
    BY DEF Range
  <1> QED BY <1>3, <1>7, <1>8, <1>9

\* t has the rows of s after off, as far as row end.
IsPart(s, off, end, t) ==
    /\ t \in Seq(Jobs)
    /\ \A j \in Range(t) : \E k \in DOMAIN s : k <= end /\ s[k] = j
    /\ \A k \in DOMAIN s : off < k /\ k <= end => s[k] \in Range(t)

\* SubSeq, cut off at the end of s, yields that part.
LEMMA PartIs ==
    ASSUME NEW s \in Seq(Jobs), NEW off \in Nat, NEW end \in Nat, NEW to \in 0..Len(s),
           to <= end, \A k \in 1..Len(s) : k <= end => k <= to
    PROVE  IsPart(s, off, end, SubSeq(s, off + 1, to))
  <1> DEFINE t == SubSeq(s, off + 1, to)
  <1>1. Len(s) \in Nat /\ DOMAIN s = 1..Len(s) /\ to \in Nat /\ to <= Len(s)
    OBVIOUS
  <1>2. t \in Seq(Jobs) /\ DOMAIN t = 1..(to - off) /\ \A i \in 1..(to - off) : t[i] = s[off + i]
    <2>1. CASE off + 1 <= to
      BY <1>1, <2>1
    <2>2. CASE ~(off + 1 <= to)
      <3>1. t = <<>>
        BY <1>1, <2>2
      <3>2. 1..(to - off) = {}
        BY <1>1, <2>2
      <3>3. <<>> \in Seq(Jobs) /\ DOMAIN <<>> = {}
        OBVIOUS
      <3> HIDE DEF t
      <3> QED BY <3>1, <3>2, <3>3
    <2> QED BY <2>1, <2>2
  <1> HIDE DEF t
  <1>3. ASSUME NEW i \in DOMAIN t PROVE \E k \in DOMAIN s : k <= end /\ s[k] = t[i]
    <2>1. off + i \in DOMAIN s /\ off + i <= end /\ s[off + i] = t[i]
      BY <1>1, <1>2
    <2> QED BY <2>1
  <1>4. ASSUME NEW k \in DOMAIN s, off < k, k <= end PROVE \E i \in DOMAIN t : t[i] = s[k]
    <2>1. k - off \in 1..(to - off) /\ off + (k - off) = k
      BY <1>1, <1>4
    <2>2. t[k - off] = s[k]
      BY <1>2, <2>1
    <2> QED BY <1>2, <2>1, <2>2
  <1> QED BY <1>2, <1>3, <1>4 DEF Range, t, IsPart

\* What a page of the list is, in positions.
LEMMA ListedIs ==
    ASSUME order \in Seq(Jobs), NEW r, r.page \in Nat \ {0}, r.limit \in Nat
    PROVE  /\ Listed(r) \in Seq(Jobs)
           /\ \A j \in Range(Listed(r)) : \E k \in DOMAIN order : order[k] = j
           /\ r.limit <= ServiceMax =>
                 /\ \A k \in DOMAIN order :
                        (r.page - 1) * r.limit < k /\ k <= r.page * r.limit
                        => order[k] \in Range(Listed(r))
                 /\ \A j \in Range(Listed(r)) :
                        \E k \in DOMAIN order : k <= r.page * r.limit /\ order[k] = j
  <1> DEFINE off == Offset(r)
             lim == Clamped(r.limit)
             to == IF off + lim > Len(order) THEN Len(order) ELSE off + lim
  <1>1. lim \in Nat /\ (r.limit <= ServiceMax => lim = r.limit)
    BY ListPagesConstants DEF Clamped
  <1>2. off = (r.page - 1) * lim /\ off \in Nat /\ off + lim = r.page * lim
    <2> HIDE DEF lim
    <2>1. (r.page - 1) * lim \in Nat /\ (r.page - 1) * lim + lim = r.page * lim
      BY <1>1
    <2> QED BY <2>1 DEF Offset, lim
  <1>3. Listed(r) = SubSeq(order, off + 1, to)
    BY DEF Listed
  <1> HIDE DEF off, lim
  <1>4. /\ Listed(r) \in Seq(Jobs)
        /\ \A j \in Range(Listed(r)) : \E k \in DOMAIN order : k <= off + lim /\ order[k] = j
        /\ \A k \in DOMAIN order : off < k /\ k <= off + lim => order[k] \in Range(Listed(r))
    <2> DEFINE end == off + lim
    <2>1. end \in Nat /\ Len(order) \in Nat
      BY <1>1, <1>2
    <2>2. /\ end \in Nat /\ to \in 0..Len(order) /\ to <= end
          /\ \A k \in 1..Len(order) : k <= end => k <= to
      <3>1. to = IF end > Len(order) THEN Len(order) ELSE end
        OBVIOUS
      <3> HIDE DEF to, end
      <3> QED BY <2>1, <3>1
    <2> HIDE DEF to, end
    <2>3. IsPart(order, off, end, SubSeq(order, off + 1, to))
      BY <1>2, <2>2, PartIs
    <2> QED BY <1>3, <2>3 DEF end, IsPart
  <1>5. CASE r.limit <= ServiceMax
    BY <1>1, <1>2, <1>4, <1>5
  <1> QED BY <1>4, <1>5

-----------------------------------------------------------------------------
\* The list has each of its jobs once, and each of them has a row.
OrderInv ==
    /\ Distinct(order)
    /\ \A i \in DOMAIN order : status[order[i]] \notin {"none", "gone"}

\* The jobs a request has found exist, and those whose rows it has come for ...
Known(st, r) == r.at = "rows" => \A j \in Range(r.refs) : st[j] # "none"

\* ... still have them.
There(st, r) == r.at = "rows" => \A j \in Range(r.refs) : st[j] # "gone"

\* The jobs a request has found.
Has(r) == IF r.at = "rows" THEN Range(r.refs) ELSE JobsOf(r.rows)

\* With what it has found below S, it is complete down to the end of its page.
Found(o, st, r, S, new) ==
    HasIds(r) =>
        /\ There(st, r)
        /\ Before(o, S \cup Has(r), new)
        /\ DownTo(o, S \cup Has(r), new, r.page * r.limit)

\* What a statement of a request leaves.
LEMMA ReadStepIs ==
    ASSUME TypeOK, OrderInv, NEW r \in Request, Reading(r), Known(status, r), r.page # 0,
           NEW s, s = ReadStep(r)
    PROVE  /\ s \in Request /\ s.at \notin {"idle", "count"} /\ Known(status, s)
           /\ s.kind = r.kind /\ s.page = r.page /\ s.limit = r.limit /\ s.orphan = r.orphan
           /\ r.at = "count" => s.at = "ids"
           /\ r.at = "ids" =>
                 /\ s.at \in {"rows", "active"} /\ s.fresh = {} /\ s.shifted = (r.limit > ServiceMax)
                 /\ There(status, s) /\ Has(s) = Range(Listed(r))
           /\ r.at = "rows" =>
                 /\ s.at = "active" /\ s.fresh = r.fresh /\ s.shifted = r.shifted
                 /\ Has(s) = {j \in Range(r.refs) : status[j] # "gone"}
  <1> DEFINE cut == r.limit > ServiceMax
  <1>1. /\ r.page \in Nat \ {0} /\ r.limit \in Nat /\ r.refs \in Seq(Jobs) /\ cut \in BOOLEAN
        /\ order \in Seq(Jobs) /\ <<>> \in Seq(Jobs)
    BY ListPagesConstants DEF Request, TypeOK
  <1> HIDE DEF cut
  <1>2. Listed(r) \in Seq(Jobs) /\ \A j \in Range(Listed(r)) : status[j] \notin {"none", "gone"}
    BY <1>1, ListedIs DEF OrderInv
  <1>3. CASE r.at = "count"
    <2>1. s = [r EXCEPT !.at = "ids", !.count = Counted]
      BY <1>3 DEF ReadStep
    <2>2. Counted \in Nat
      BY <1>1 DEF Counted
    <2>3. /\ s \in Request /\ s.at = "ids"
          /\ s.kind = r.kind /\ s.page = r.page /\ s.limit = r.limit /\ s.orphan = r.orphan
      BY <1>1, <2>1, <2>2 DEF Request
    <2> QED BY <1>3, <2>3 DEF Known
  <1>4. CASE r.at = "ids" /\ view = "jobs"
    <2>1. s = [r EXCEPT !.at = "rows", !.refs = Listed(r), !.fresh = {}, !.shifted = cut]
      BY <1>4 DEF ReadStep, cut
    <2> DEFINE js == Listed(r)
    <2>0. js \in Seq(Jobs) /\ s = [r EXCEPT !.at = "rows", !.refs = js, !.fresh = {}, !.shifted = cut]
      BY <1>2, <2>1
    <2> HIDE DEF js
    <2>2a. /\ s.at = "rows" /\ s.refs = js /\ s.fresh = {} /\ s.shifted = cut
           /\ s.kind = r.kind /\ s.page = r.page /\ s.limit = r.limit /\ s.orphan = r.orphan
      BY <2>0 DEF Request
    <2>2b. s \in Request
      BY <1>1, <2>0 DEF Request
    <2>2. /\ s \in Request /\ s.at = "rows" /\ s.refs = Listed(r) /\ s.fresh = {} /\ s.shifted = cut
          /\ s.kind = r.kind /\ s.page = r.page /\ s.limit = r.limit /\ s.orphan = r.orphan
      BY <2>2a, <2>2b DEF js
    <2> QED BY <1>2, <1>4, <2>2 DEF Known, There, Has, cut
  <1>5. CASE r.at = "ids" /\ view = "runs"
    <2>1. s = [r EXCEPT !.at = "active", !.rows = ReadRows(Listed(r)), !.fresh = {}, !.shifted = cut]
      BY <1>5 DEF ReadStep, cut
    <2>2. \A i \in DOMAIN Listed(r) : status[Listed(r)[i]] \in {"queued", "running", "ended", "gone"}
      BY <1>2 DEF TypeOK, Range
    <2>3. ReadRows(Listed(r)) \in Seq(Card) /\ JobsOf(ReadRows(Listed(r))) = Range(Listed(r))
      <3>1. {j \in Range(Listed(r)) : status[j] # "gone"} = Range(Listed(r))
        BY <1>2
      <3> QED BY <1>2, <2>2, <3>1, RowsAre
    <2> DEFINE rs == ReadRows(Listed(r))
    <2>4. rs \in Seq(Card) /\ s = [r EXCEPT !.at = "active", !.rows = rs, !.fresh = {}, !.shifted = cut]
      BY <2>1, <2>3
    <2> HIDE DEF rs
    <2>5. s \in Request
      BY <1>1, <2>4 DEF Request
    <2>6. /\ s.at = "active" /\ s.rows = rs /\ s.fresh = {} /\ s.shifted = cut
          /\ s.kind = r.kind /\ s.page = r.page /\ s.limit = r.limit /\ s.orphan = r.orphan
      BY <2>4 DEF Request
    <2> QED BY <1>5, <2>3, <2>5, <2>6 DEF Known, There, Has, cut, rs
  <1>6. CASE r.at = "rows"
    <2>1. s = [r EXCEPT !.at = "active", !.refs = <<>>, !.rows = ReadRows(r.refs)]
      BY <1>6 DEF ReadStep
    <2>2. \A i \in DOMAIN r.refs : status[r.refs[i]] \in {"queued", "running", "ended", "gone"}
      BY <1>1, <1>6 DEF TypeOK, Range, Known
    <2>3. /\ ReadRows(r.refs) \in Seq(Card)
          /\ JobsOf(ReadRows(r.refs)) = {j \in Range(r.refs) : status[j] # "gone"}
      BY <1>1, <2>2, RowsAre
    <2>4. /\ s \in Request /\ s.at = "active" /\ s.rows = ReadRows(r.refs)
          /\ s.fresh = r.fresh /\ s.shifted = r.shifted
          /\ s.kind = r.kind /\ s.page = r.page /\ s.limit = r.limit /\ s.orphan = r.orphan
      BY <1>1, <2>1, <2>3 DEF Request
    <2> QED BY <1>6, <2>3, <2>4 DEF Known, Has
  <1> QED BY <1>3, <1>4, <1>5, <1>6 DEF Reading, TypeOK

\* What a request has found stays complete as it reads on.
LEMMA ReadFinds ==
    ASSUME TypeOK, OrderInv, NEW r \in Request, Reading(r), Known(status, r), r.page # 0,
           NEW s, s = ReadStep(r), NEW S, NEW new,
           r.at = "ids" => /\ r.limit <= ServiceMax
                           /\ Before(order, S, new)
                           /\ DownTo(order, S, new, (r.page - 1) * r.limit),
           Found(order, status, r, S, new)
    PROVE  Found(order, status, s, S, new)
  <1>1. CASE r.at = "count"
    <2>1. ~HasIds(s)
      BY <1>1, ReadStepIs DEF HasIds
    <2> QED BY <2>1 DEF Found
  <1>2. CASE r.at = "ids"
    <2> DEFINE T == Range(Listed(r))
               end == r.page * r.limit
               above == (r.page - 1) * r.limit
    <2>1. There(status, s) /\ Has(s) = T /\ s.page = r.page /\ s.limit = r.limit
      BY <1>2, ReadStepIs
    <2>2. r.page \in Nat \ {0} /\ r.limit \in Nat /\ order \in Seq(Jobs)
      BY DEF Request, TypeOK
    <2>3. end \in Int /\ above \in Int /\ DOMAIN order = 1..Len(order)
      BY <2>2
    <2>4. /\ \A k \in DOMAIN order : above < k /\ k <= end => order[k] \in T
          /\ \A j \in T : \E k \in DOMAIN order : k <= end /\ order[k] = j
      BY <1>2, <2>2, ListedIs
    <2>5. Before(order, S, new) /\ DownTo(order, S, new, above) /\ Distinct(order)
      BY <1>2 DEF OrderInv
    <2> HIDE DEF T, end, above
    <2>6. DownTo(order, S \cup T, new, end)
      BY <2>3, <2>4, <2>5 DEF DownTo
    <2>7. ASSUME NEW a \in DOMAIN order, NEW b \in DOMAIN order, a < b,
                 order[a] \notin new, order[b] \notin new, order[b] \in S \cup T
          PROVE  order[a] \in S \cup T
      <3>1. CASE order[b] \in S
        BY <2>5, <2>7, <3>1 DEF Before
      <3>2. CASE order[b] \in T
        <4>1. b <= end
          BY <2>4, <2>5, <3>2 DEF Distinct
        <4>2. a <= end
          BY <2>3, <2>7, <4>1
        <4> QED BY <2>6, <2>7, <4>2 DEF DownTo
      <3> QED BY <2>7, <3>1, <3>2
    <2>8. Before(order, S \cup T, new)
      BY <2>7 DEF Before
    <2> QED BY <2>1, <2>6, <2>8 DEF Found, end
  <1>3. CASE r.at = "rows"
    <2>1. HasIds(r) /\ There(status, r) /\ Has(r) = Range(r.refs)
      BY <1>3 DEF Found, HasIds, Has
    <2>2. s.at = "active" /\ s.page = r.page /\ s.limit = r.limit
          /\ Has(s) = {j \in Range(r.refs) : status[j] # "gone"}
      BY <1>3, ReadStepIs
    <2>3. Has(s) = Has(r)
      BY <1>3, <2>1, <2>2 DEF There
    <2>4. There(status, s)
      BY <2>2 DEF There
    <2> QED BY <2>1, <2>2, <2>3, <2>4 DEF Found
  <1> QED BY <1>1, <1>2, <1>3 DEF Reading

\* ... and as jobs move.
LEMMA MovedFinds ==
    ASSUME NEW j, Moved(j), NEW r, r.page * r.limit \in Int, NEW S, NEW new,
           \A k : status[k] # "gone" => status'[k] # "gone",
           NEW s, s.at = r.at, s.refs = r.refs, s.rows = r.rows, s.page = r.page, s.limit = r.limit,
           Found(order, status, r, S, new)
    PROVE  Found(order', status', s, S, new \cup {j})
  <1>1. Has(s) = Has(r) /\ (HasIds(s) <=> HasIds(r))
    BY DEF Has, HasIds
  <1> QED BY <1>1 DEF Found, Moved, There

-----------------------------------------------------------------------------
\* The jobs the page has a card of.
Shown == JobsOf(cards)

\* What the page shows is complete down to its last row, and the sentinel goes on there.
PageInv ==
    ~shifted =>
        /\ Before(order, Shown, fresh)
        /\ sentinel # 0 => DownTo(order, Shown, fresh, (sentinel - 1) * PageSize)

\* So is what will replace it, ...
ListInv ==
    /\ list.page = 1 /\ Known(status, list)
    /\ list.at # "idle" => list.kind # "scroll" /\ (list.kind # "poll" => list.limit = PageSize)
    /\ ~list.shifted => Found(order, status, list, {}, list.fresh)

\* ... and what will come below it.
ScrollInv ==
    /\ scroll.limit = PageSize /\ Known(status, scroll)
    /\ scroll.at # "idle" => scroll.page # 0
    /\ scroll.at # "idle" /\ ~scroll.orphan /\ ~shifted =>
           /\ DownTo(order, Shown, fresh, (scroll.page - 1) * PageSize)
           /\ Found(order, status, scroll, Shown, fresh)

\* The inductive invariant of the lists.
PagesInv == TypeOK /\ OrderInv /\ PageInv /\ ListInv /\ ScrollInv

\* The places where pages begin and end are numbers.
LEMMA Products ==
    ASSUME TypeOK
    PROVE  /\ PageSize \in Nat \ {0}
           /\ list.page * list.limit \in Int
           /\ scroll.page * scroll.limit \in Int
           /\ (scroll.page - 1) * PageSize \in Int
           /\ (sentinel - 1) * PageSize \in Int
  <1>1. /\ PageSize \in Nat \ {0} /\ list.page \in Nat /\ list.limit \in Nat
        /\ scroll.page \in Nat /\ scroll.limit \in Nat /\ sentinel \in Nat
    BY ListPagesConstants DEF TypeOK, Request
  <1> QED BY <1>1

\* The empty page skips nothing.
LEMMA InitPages == Init => PagesInv
  <1> SUFFICES ASSUME Init PROVE PagesInv
    OBVIOUS
  <1>0. /\ order = Earlier /\ order \in Seq(Jobs)
        /\ \A i \in DOMAIN order : order[i] \in Range(Earlier)
    BY ListPagesConstants DEF Init, Range
  <1>1. PageSize \in Nat /\ <<>> \in Seq(Jobs) /\ <<>> \in Seq(Card) /\ DOMAIN <<>> = {}
    BY ListPagesConstants
  <1>2. /\ list \in Request /\ list.page = 1 /\ list.at = "count" /\ list.kind = "load"
        /\ list.limit = PageSize
        /\ scroll \in Request /\ scroll.at = "idle" /\ scroll.limit = PageSize
    BY <1>1 DEF Init, EmptyPage, Idle, Request
  <1>3. TypeOK
    <2>1. status \in [Jobs -> {"none", "queued", "running", "ended", "gone"}]
      BY DEF Init
    <2> QED BY <1>0, <1>1, <1>2, <2>1 DEF Init, EmptyPage, TypeOK
  <1>4. OrderInv
    <2>1. \A i \in DOMAIN order : order[i] \in Jobs
      BY <1>0
    <2>2. \A i \in DOMAIN order : status[order[i]] \notin {"none", "gone"}
      BY <1>0, <2>1 DEF Init
    <2> QED BY <1>0, <2>2, ListPagesConstants DEF OrderInv, Distinct
  <1>5. PageInv
    <2>1. sentinel = 0 /\ cards = <<>>
      BY DEF Init, EmptyPage
    <2>2. Shown = {}
      BY <1>1, <2>1 DEF Shown, JobsOf
    <2> QED BY <2>1, <2>2 DEF PageInv, Before
  <1>6. ListInv /\ ScrollInv
    BY <1>2 DEF ListInv, ScrollInv, Known, Found, HasIds
  <1> QED BY <1>3, <1>4, <1>5, <1>6 DEF PagesInv

\* o has nothing but j and the rest.
Consists(o, j, rest) ==
    \A i \in DOMAIN o : o[i] = j \/ \E k \in DOMAIN rest : o[i] = rest[k]

\* Putting a job before the others keeps the list free of duplicates.
LEMMA PutFirst ==
    ASSUME NEW rest \in Seq(Jobs), NEW j \in Jobs, Distinct(rest), \A i \in DOMAIN rest : rest[i] # j
    PROVE  Distinct(<<j>> \o rest) /\ Consists(<<j>> \o rest, j, rest)
  <1> DEFINE o == <<j>> \o rest
  <1>1. /\ DOMAIN o = 1..(Len(rest) + 1) /\ Len(rest) \in Nat /\ DOMAIN rest = 1..Len(rest)
        /\ o[1] = j /\ \A i \in 2..(Len(rest) + 1) : o[i] = rest[i - 1]
    OBVIOUS
  <1> HIDE DEF o
  <1>2. ASSUME NEW a \in DOMAIN o, NEW b \in DOMAIN o, o[a] = o[b] PROVE a = b
    <2>1. a \in Int /\ b \in Int /\ (a = 1 \/ a - 1 \in DOMAIN rest) /\ (b = 1 \/ b - 1 \in DOMAIN rest)
      BY <1>1
    <2>2. /\ a # 1 => o[a] = rest[a - 1] /\ rest[a - 1] # j
          /\ b # 1 => o[b] = rest[b - 1] /\ rest[b - 1] # j
      BY <1>1, <2>1
    <2>3. a # 1 /\ b # 1 => a - 1 = b - 1
      BY <1>2, <2>1, <2>2 DEF Distinct
    <2> QED BY <1>1, <1>2, <2>1, <2>2, <2>3
  <1>3. \A i \in DOMAIN o : o[i] = j \/ \E k \in DOMAIN rest : o[i] = rest[k]
    BY <1>1
  <1> QED BY <1>2, <1>3 DEF Distinct, Consists, o

\* A job that comes to the front leaves what is shown as complete as it was.
LEMMA ShownMoves ==
    ASSUME PagesInv, NEW j, Moved(j), fresh' = fresh \cup {j},
           UNCHANGED <<cards, sentinel, scroll, shifted>>,
           \A k : status[k] # "gone" => status'[k] # "gone",
           \A k : status[k] # "none" => status'[k] # "none"
    PROVE  PageInv' /\ ScrollInv'
  <1>1. TypeOK /\ Shown' = Shown
    BY DEF PagesInv, Shown
  <1>2. PageInv'
    BY <1>1, Products DEF PagesInv, PageInv, Moved
  <1>3. Known(status', scroll)
    BY DEF PagesInv, ScrollInv, Known
  <1>4. ASSUME scroll.at # "idle", ~scroll.orphan, ~shifted
        PROVE  /\ DownTo(order', Shown, fresh \cup {j}, (scroll.page - 1) * PageSize)
               /\ Found(order', status', scroll, Shown, fresh \cup {j})
    <2>1. /\ DownTo(order, Shown, fresh, (scroll.page - 1) * PageSize)
          /\ Found(order, status, scroll, Shown, fresh)
      BY <1>4 DEF PagesInv, ScrollInv
    <2>2. Found(order', status', scroll, Shown, fresh \cup {j})
      BY <1>1, <2>1, MovedFinds, Products
    <2>3. DownTo(order', Shown, fresh \cup {j}, (scroll.page - 1) * PageSize)
      BY <1>1, <2>1, Products DEF Moved
    <2> QED BY <2>2, <2>3
  <1> QED BY <1>1, <1>2, <1>3, <1>4 DEF PagesInv, ScrollInv

\* A job comes to the front, with another status.
LEMMA FrontKeeps ==
    ASSUME PagesInv, NEW j \in Jobs, NEW x \in {"queued", "running", "ended"},
           status' = [status EXCEPT ![j] = x], ToFront(j),
           UNCHANGED <<view, page, scroll, dialog, shown, shifted, mishaps>>,
           raced' \subseteq Jobs
    PROVE  PagesInv'
  <1> USE DEF page
  <1>1. TypeOK /\ order \in Seq(Jobs) /\ list \in Request /\ scroll \in Request
    BY DEF PagesInv, TypeOK
  <1>2. Moved(j)
    BY <1>1, ToFrontMoves DEF ToFront
  <1>3. /\ \A k : status[k] # "gone" => status'[k] # "gone"
        /\ \A k : status[k] # "none" => status'[k] # "none"
        /\ status' \in [Jobs -> {"none", "queued", "running", "ended", "gone"}]
    BY <1>1 DEF TypeOK
  <1>4. /\ list' \in Request
        /\ list'.at = list.at /\ list'.kind = list.kind /\ list'.page = list.page
        /\ list'.limit = list.limit /\ list'.refs = list.refs /\ list'.rows = list.rows
        /\ list'.shifted = list.shifted
        /\ HasIds(list) => list'.fresh = list.fresh \cup {j}
    <2>1. list.fresh \cup {j} \in SUBSET Jobs
      BY <1>1 DEF Request
    <2> QED BY <1>1, <2>1 DEF ToFront, Request
  <1>5. TypeOK'
    <2>1. fresh' \in SUBSET Jobs
      BY <1>1 DEF TypeOK, ToFront
    <2> QED BY <1>1, <1>2, <1>3, <1>4, <2>1 DEF TypeOK, Moved
  <1>6. OrderInv'
    <2>1. /\ Without(j) \in Seq(Jobs) /\ Distinct(Without(j))
          /\ \A i \in DOMAIN Without(j) :
                 Without(j)[i] # j /\ \E k \in DOMAIN order : Without(j)[i] = order[k]
      BY <1>1, WithoutDistinct DEF PagesInv, OrderInv
    <2>2. Distinct(order') /\ Consists(order', j, Without(j))
      BY <2>1, PutFirst DEF ToFront
    <2>3. status'[j] = x /\ \A k \in Jobs : k # j => status'[k] = status[k]
      BY <1>1 DEF TypeOK
    <2>4. \A i \in DOMAIN order' : status'[order'[i]] \notin {"none", "gone"}
      BY <1>1, <2>1, <2>2, <2>3 DEF PagesInv, OrderInv, Consists
    <2> QED BY <2>2, <2>4 DEF OrderInv
  <1>7. PageInv' /\ ScrollInv'
    BY <1>2, <1>3, ShownMoves DEF ToFront
  <1>8. ListInv'
    <2>1. Known(status', list')
      BY <1>3, <1>4 DEF PagesInv, ListInv, Known
    <2>2. ASSUME ~list'.shifted, HasIds(list) PROVE Found(order', status', list', {}, list'.fresh)
      <3>1. Found(order, status, list, {}, list.fresh)
        BY <1>4, <2>2 DEF PagesInv, ListInv
      <3>2. Found(order', status', list', {}, list.fresh \cup {j})
        BY <1>1, <1>2, <1>3, <1>4, <3>1, MovedFinds, Products
      <3> QED BY <1>4, <2>2, <3>2
    <2>3. ~HasIds(list) => ~HasIds(list')
      BY <1>4 DEF HasIds
    <2> QED BY <1>4, <2>1, <2>2, <2>3 DEF PagesInv, ListInv, Found
  <1> QED BY <1>5, <1>6, <1>7, <1>8 DEF PagesInv

\* A job ends, and the list stays as it is.
LEMMA EndKeeps ==
    ASSUME PagesInv, NEW j \in Jobs, status[j] = "running",
           status' = [status EXCEPT ![j] = "ended"],
           UNCHANGED <<view, order, page, list, scroll, dialog, shown, fresh, shifted, mishaps>>,
           raced' \subseteq Jobs
    PROVE  PagesInv'
  <1> USE DEF page
  <1>1. /\ \A k : status[k] # "gone" => status'[k] # "gone"
        /\ \A k : status[k] # "none" => status'[k] # "none"
        /\ status' \in [Jobs -> {"none", "queued", "running", "ended", "gone"}]
    BY DEF PagesInv, TypeOK
  <1>2. TypeOK' /\ OrderInv'
    BY <1>1 DEF PagesInv, TypeOK, OrderInv, Distinct
  <1>3. \A S, new : /\ Found(order, status, list, S, new) => Found(order, status', list, S, new)
                    /\ Found(order, status, scroll, S, new) => Found(order, status', scroll, S, new)
    BY <1>1 DEF Found, There
  <1>4. Known(status', list) /\ Known(status', scroll)
    BY <1>1 DEF PagesInv, ListInv, ScrollInv, Known
  <1>5. PageInv' /\ ListInv' /\ ScrollInv'
    BY <1>3, <1>4 DEF PagesInv, PageInv, ListInv, ScrollInv, Shown
  <1> QED BY <1>2, <1>5 DEF PagesInv

\* A removal is an exception that every page and request notes.
LEMMA RemoveKeeps ==
    ASSUME PagesInv, NEW j \in Jobs, RemoveJob(j)
    PROVE  PagesInv'
  <1> USE DEF page
  <1>1. TypeOK /\ order \in Seq(Jobs) /\ list \in Request
    BY DEF PagesInv, TypeOK
  <1>2. /\ list' \in Request
        /\ list'.at = list.at /\ list'.kind = list.kind /\ list'.page = list.page
        /\ list'.limit = list.limit /\ list'.refs = list.refs
        /\ HasIds(list) => list'.shifted = TRUE
    BY <1>1 DEF RemoveJob, Request
  <1>3. /\ order' \in Seq(Jobs) /\ Distinct(order')
        /\ \A i \in DOMAIN order' : order'[i] # j /\ \E k \in DOMAIN order : order'[i] = order[k]
    BY <1>1, WithoutDistinct DEF PagesInv, OrderInv, RemoveJob
  <1>4. /\ status' \in [Jobs -> {"none", "queued", "running", "ended", "gone"}]
        /\ \A k : status[k] # "none" => status'[k] # "none"
        /\ \A k \in Jobs : k # j => status'[k] = status[k]
        /\ mishaps' \in Nat
    BY <1>1 DEF RemoveJob, TypeOK, Mishap
  <1>5. TypeOK'
    BY <1>1, <1>2, <1>3, <1>4 DEF TypeOK, RemoveJob
  <1>6. OrderInv'
    <2>1. \A i \in DOMAIN order' : order'[i] \in Jobs
      BY <1>3
    <2>2. \A i \in DOMAIN order' : status'[order'[i]] = status[order'[i]]
      BY <1>3, <1>4, <2>1
    <2> QED BY <1>3, <2>2 DEF PagesInv, OrderInv
  <1>7. PageInv' /\ ScrollInv'
    BY <1>4 DEF PagesInv, PageInv, ScrollInv, RemoveJob, Known
  <1>8. ListInv'
    <2>1. Known(status', list')
      BY <1>2, <1>4 DEF PagesInv, ListInv, Known
    <2>2. ~list'.shifted => ~HasIds(list')
      BY <1>2 DEF HasIds
    <2> QED BY <1>2, <2>1, <2>2 DEF PagesInv, ListInv, Found
  <1> QED BY <1>5, <1>6, <1>7, <1>8 DEF PagesInv

\* An idle request has found nothing.
LEMMA IdleIs ==
    /\ Idle \in Request /\ Idle.at = "idle" /\ Idle.page = 1 /\ Idle.limit = PageSize
    /\ Idle.kind = "poll" /\ ~HasIds(Idle) /\ \A st : Known(st, Idle)
  <1>1. PageSize \in Nat /\ <<>> \in Seq(Jobs) /\ <<>> \in Seq(Card)
    BY ListPagesConstants
  <1> QED BY <1>1 DEF Idle, Request, HasIds, Known

\* A run started on the page is at the front, and the list is read anew.
LEMMA ClickRunKeeps ==
    ASSUME PagesInv, NEW j \in Jobs, ClickRun(j)
    PROVE  PagesInv'
  <1> USE DEF page
  <1>1. TypeOK /\ order \in Seq(Jobs) /\ scroll \in Request
    BY DEF PagesInv, TypeOK
  <1>2. Moved(j)
    BY <1>1, PrependMoves DEF ClickRun
  <1>3. /\ \A k : status[k] # "gone" => status'[k] # "gone"
        /\ \A k : status[k] # "none" => status'[k] # "none"
        /\ status' \in [Jobs -> {"none", "queued", "running", "ended", "gone"}]
        /\ status[j] = "none" /\ status'[j] = "running"
        /\ \A k \in Jobs : k # j => status'[k] = status[k]
    BY <1>1 DEF TypeOK, ClickRun
  <1>4. /\ list' \in Request /\ list'.page = 1 /\ list'.limit = PageSize /\ list'.kind = "run"
        /\ ~HasIds(list') /\ \A st : Known(st, list')
    <2>1. PageSize \in Nat /\ <<>> \in Seq(Jobs) /\ <<>> \in Seq(Card)
      BY ListPagesConstants
    <2>2. list' = [Idle EXCEPT !.at = "count", !.kind = "run"]
      BY DEF ClickRun
    <2> QED BY <2>1, <2>2 DEF Idle, Request, HasIds, Known
  <1>5. TypeOK'
    <2>1. fresh' \in SUBSET Jobs
      BY <1>1 DEF TypeOK, ClickRun
    <2> QED BY <1>1, <1>2, <1>3, <1>4, <2>1 DEF TypeOK, Moved, ClickRun
  <1>6. OrderInv'
    <2>1. /\ Distinct(order) /\ \A i \in DOMAIN order : order[i] \in Jobs /\ order[i] # j
          /\ \A i \in DOMAIN order : status[order[i]] \notin {"none", "gone"}
      BY <1>1, <1>3 DEF PagesInv, OrderInv
    <2>2. Distinct(order') /\ Consists(order', j, order)
      BY <1>1, <2>1, PutFirst DEF ClickRun
    <2>3. \A i \in DOMAIN order' : status'[order'[i]] \notin {"none", "gone"}
      BY <1>3, <2>1, <2>2 DEF Consists
    <2> QED BY <2>2, <2>3 DEF OrderInv
  <1>7. PageInv' /\ ScrollInv'
    BY <1>2, <1>3, ShownMoves DEF ClickRun
  <1>8. ListInv'
    BY <1>4 DEF ListInv, Found
  <1> QED BY <1>5, <1>6, <1>7, <1>8 DEF PagesInv

\* A request of the list starts at the first row and finds all of its page.
LEMMA ReadListKeeps == ASSUME PagesInv, ReadList PROVE PagesInv'
  <1> USE DEF page, jobVars
  <1>1. /\ TypeOK /\ OrderInv /\ list \in Request /\ list.page = 1 /\ Known(status, list)
        /\ Reading(list) /\ list' = ReadStep(list)
        /\ UNCHANGED <<jobVars, page, scroll, dialog, shown, fresh, shifted, raced, mishaps>>
    BY DEF PagesInv, TypeOK, ListInv, ReadList
  <1>2. /\ list' \in Request /\ list'.at \notin {"idle", "count"} /\ Known(status, list')
        /\ list'.kind = list.kind /\ list'.page = list.page /\ list'.limit = list.limit
        /\ list.at = "count" => list'.at = "ids"
        /\ list.at = "ids" => list'.fresh = {} /\ list'.shifted = (list.limit > ServiceMax)
        /\ list.at = "rows" => list'.fresh = list.fresh /\ list'.shifted = list.shifted
    BY <1>1, ReadStepIs
  <1>3. TypeOK' /\ OrderInv'
    BY <1>1, <1>2 DEF TypeOK, OrderInv, Distinct
  <1>4. PageInv' /\ ScrollInv'
    BY <1>1 DEF PagesInv, PageInv, ScrollInv, Shown
  <1>5. ASSUME ~list'.shifted PROVE Found(order, status, list', {}, list'.fresh)
    <2>1. CASE list.at = "count"
      BY <1>2, <2>1 DEF Found, HasIds
    <2>2. CASE list.at = "ids"
      <3>1. list.limit \in Nat /\ list.limit <= ServiceMax /\ (list.page - 1) * list.limit = 0
        BY <1>1, <1>2, <1>5, <2>2, ListPagesConstants DEF Request
      <3>2. Before(order, {}, {}) /\ DownTo(order, {}, {}, (list.page - 1) * list.limit)
        BY <1>1, <3>1 DEF Before, DownTo, TypeOK
      <3>3. Found(order, status, list, {}, {})
        BY <2>2 DEF Found, HasIds
      <3>4. Found(order, status, list', {}, {})
        BY <1>1, <3>1, <3>2, <3>3, ReadFinds
      <3> QED BY <1>2, <2>2, <3>4
    <2>3. CASE list.at = "rows"
      <3>1. Found(order, status, list, {}, list.fresh)
        BY <1>2, <1>5, <2>3 DEF PagesInv, ListInv
      <3>2. Found(order, status, list', {}, list.fresh)
        BY <1>1, <2>3, <3>1, ReadFinds
      <3> QED BY <1>2, <2>3, <3>2
    <2> QED BY <1>1, <2>1, <2>2, <2>3 DEF Reading
  <1>6. ListInv'
    <2>1. list.at # "idle" => list.kind # "scroll" /\ (list.kind # "poll" => list.limit = PageSize)
      BY DEF PagesInv, ListInv
    <2> QED BY <1>1, <1>2, <1>5, <2>1 DEF ListInv, Reading
  <1> QED BY <1>3, <1>4, <1>6 DEF PagesInv

\* A request of the sentinel goes on where what is shown ends.
LEMMA ReadScrollKeeps == ASSUME PagesInv, ReadScroll PROVE PagesInv'
  <1> USE DEF page, jobVars
  <1>1. /\ TypeOK /\ OrderInv /\ scroll \in Request /\ scroll.page # 0 /\ Known(status, scroll)
        /\ scroll.limit = PageSize /\ PageSize <= ServiceMax
        /\ Reading(scroll) /\ scroll.at # "idle" /\ scroll' = ReadStep(scroll)
        /\ UNCHANGED <<jobVars, page, list, dialog, shown, fresh, shifted, raced, mishaps>>
    BY ListPagesConstants DEF PagesInv, TypeOK, ScrollInv, ReadScroll, Reading
  <1>2. /\ scroll' \in Request /\ Known(status, scroll')
        /\ scroll'.page = scroll.page /\ scroll'.limit = scroll.limit /\ scroll'.orphan = scroll.orphan
    BY <1>1, ReadStepIs
  <1>3. TypeOK' /\ OrderInv'
    BY <1>1, <1>2 DEF TypeOK, OrderInv, Distinct
  <1>4. PageInv' /\ ListInv'
    BY <1>1 DEF PagesInv, PageInv, ListInv, Shown
  <1>5. ASSUME ~scroll.orphan, ~shifted
        PROVE  /\ DownTo(order, Shown, fresh, (scroll.page - 1) * PageSize)
               /\ Found(order, status, scroll', Shown, fresh)
    <2>1. /\ Before(order, Shown, fresh)
          /\ DownTo(order, Shown, fresh, (scroll.page - 1) * PageSize)
          /\ Found(order, status, scroll, Shown, fresh)
      BY <1>1, <1>5 DEF PagesInv, PageInv, ScrollInv
    <2>2. Found(order, status, scroll', Shown, fresh)
      BY <1>1, <2>1, ReadFinds
    <2> QED BY <2>1, <2>2
  <1>6. ScrollInv'
    BY <1>1, <1>2, <1>5 DEF ScrollInv, Shown
  <1> QED BY <1>3, <1>4, <1>6 DEF PagesInv

\* A poll asks for a number of rows and has found none yet.
LEMMA StartPollKeeps == ASSUME PagesInv, StartPoll PROVE PagesInv'
  <1> USE DEF page, jobVars
  <1>1. PollLimit(Len(cards)) \in Nat
    <2>1. Len(cards) \in Nat /\ PageSize \in Nat \ {0} /\ PollMax \in Nat
      BY ListPagesConstants DEF PagesInv, TypeOK
    <2> DEFINE wanted == IF Len(cards) > PollMax THEN PollMax ELSE Len(cards)
    <2>2. wanted \in Nat
      BY <2>1
    <2> HIDE DEF wanted
    <2>3. (wanted + PageSize - 1) \div PageSize \in Nat
      BY <2>1, <2>2
    <2>4. ((wanted + PageSize - 1) \div PageSize) * PageSize \in Nat
      BY <2>1, <2>3
    <2> QED BY <2>1, <2>4 DEF PollLimit, wanted
  <1>2. /\ list' \in Request /\ list'.page = 1 /\ list'.kind = "poll" /\ ~HasIds(list')
        /\ \A st : Known(st, list')
    <2>1. PageSize \in Nat /\ <<>> \in Seq(Jobs) /\ <<>> \in Seq(Card)
      BY ListPagesConstants
    <2>2. list' = [Idle EXCEPT !.at = "count", !.limit = PollLimit(Len(cards))]
      BY DEF StartPoll
    <2> QED BY <1>1, <2>1, <2>2 DEF Idle, Request, HasIds, Known
  <1>3. TypeOK' /\ OrderInv'
    BY <1>2 DEF PagesInv, TypeOK, OrderInv, Distinct, StartPoll
  <1>4. ListInv'
    BY <1>2 DEF ListInv, Found
  <1>5. PageInv' /\ ScrollInv'
    BY DEF PagesInv, PageInv, ScrollInv, Shown, StartPoll
  <1> QED BY <1>3, <1>4, <1>5 DEF PagesInv

\* The sentinel asks for the page at which what is shown is known to end.
LEMMA StartScrollKeeps == ASSUME PagesInv, StartScroll PROVE PagesInv'
  <1> USE DEF page, jobVars
  <1>1. sentinel \in Nat /\ sentinel # 0
    BY DEF PagesInv, TypeOK, StartScroll
  <1>2. /\ scroll' \in Request /\ scroll'.page = sentinel /\ scroll'.limit = PageSize
        /\ ~HasIds(scroll') /\ \A st : Known(st, scroll')
    <2>1. PageSize \in Nat /\ <<>> \in Seq(Jobs) /\ <<>> \in Seq(Card)
      BY ListPagesConstants
    <2>2. scroll' = [Idle EXCEPT !.at = "count", !.kind = "scroll", !.page = sentinel]
      BY DEF StartScroll
    <2> QED BY <1>1, <2>1, <2>2 DEF Idle, Request, HasIds, Known
  <1>3. TypeOK' /\ OrderInv'
    BY <1>2 DEF PagesInv, TypeOK, OrderInv, Distinct, StartScroll
  <1>4. PageInv' /\ ListInv'
    BY DEF PagesInv, PageInv, ListInv, Shown, StartScroll
  <1>5. ScrollInv'
    BY <1>1, <1>2 DEF PagesInv, PageInv, ScrollInv, Found, Shown, StartScroll
  <1> QED BY <1>3, <1>4, <1>5 DEF PagesInv

\* A request that fails changes nothing that is shown.
LEMMA FailsKeep == ASSUME PagesInv, ListFails \/ ScrollFails PROVE PagesInv'
  <1> USE DEF page, jobVars
  <1>1. /\ mishaps' \in Nat
        /\ UNCHANGED <<jobVars, page, dialog, shown, fresh, shifted, raced>>
        /\ \/ list' = Idle /\ scroll' = scroll
           \/ list' = list /\ scroll' = Idle
    BY DEF PagesInv, TypeOK, ListFails, ScrollFails, Mishap
  <1>2. TypeOK' /\ OrderInv'
    BY <1>1, IdleIs DEF PagesInv, TypeOK, OrderInv, Distinct
  <1>3. PageInv' /\ ListInv'
    BY <1>1, IdleIs DEF PagesInv, PageInv, ListInv, Found, Shown
  <1>4. ScrollInv'
    BY <1>1, IdleIs DEF PagesInv, ScrollInv, Shown
  <1> QED BY <1>2, <1>3, <1>4 DEF PagesInv

\* Dialogs do not touch the cards.
LEMMA DialogsKeep ==
    ASSUME PagesInv, NEW j \in Jobs, OpenLog(j) \/ PollDialog(j) PROVE PagesInv'
  <1> USE DEF page, jobVars
  <1>1. UNCHANGED <<jobVars, page, list, scroll, fresh, shifted, raced, mishaps>>
    BY DEF OpenLog, PollDialog
  <1>2. TypeOK'
    BY <1>1 DEF PagesInv, TypeOK, OpenLog, PollDialog
  <1>3. OrderInv' /\ PageInv' /\ ListInv' /\ ScrollInv'
    BY <1>1 DEF PagesInv, OrderInv, Distinct, PageInv, ListInv, ScrollInv, Shown
  <1> QED BY <1>2, <1>3 DEF PagesInv

\* New dialogs show the status of one of the rows.
LEMMA DialogsTyped ==
    ASSUME TypeOK, NEW rows \in Seq(Card), AddDialogs(rows)
    PROVE  /\ dialog' \in [Jobs -> {"none", "closed", "still", "polls"}]
           /\ shown' \in [Jobs -> {"none", "queued", "running", "ended"}]
  <1> DEFINE new == {i \in DOMAIN rows : rows[i].job \in Watched /\ dialog[rows[i].job] = "none"}
             of(j) == {i \in new : rows[i].job = j}
             some(j) == CHOOSE i \in of(j) : TRUE
  <1>1. \A i \in DOMAIN rows : rows[i] \in Card
    OBVIOUS
  <1>2. \A j : of(j) # {} => some(j) \in DOMAIN rows
    OBVIOUS
  <1>3. /\ dialog' = [j \in Jobs |-> IF of(j) = {} THEN dialog[j] ELSE NewDialog(rows[some(j)])]
        /\ shown' = [j \in Jobs |-> IF of(j) = {} \/ view = "runs" THEN shown[j]
                                    ELSE rows[some(j)].status]
    BY DEF AddDialogs
  <1> HIDE DEF of, some
  <1>4. \A c \in Card : /\ NewDialog(c) \in {"none", "closed", "still", "polls"}
                        /\ c.status \in {"none", "queued", "running", "ended"}
    BY DEF Card, NewDialog, ClosedLog
  <1>5. \A j \in Jobs : /\ dialog[j] \in {"none", "closed", "still", "polls"}
                        /\ shown[j] \in {"none", "queued", "running", "ended"}
    BY DEF TypeOK
  <1> QED BY <1>1, <1>2, <1>3, <1>4, <1>5

\* A request whose sentinel is gone will show nothing.
LEMMA OrphanedIs ==
    ASSUME NEW r \in Request
    PROVE  /\ Orphaned(r) \in Request /\ Orphaned(r).at = r.at /\ Orphaned(r).limit = r.limit
           /\ Orphaned(r).page = r.page /\ Orphaned(r).refs = r.refs
           /\ r.at # "idle" => Orphaned(r).orphan = TRUE
  BY DEF Orphaned, Request

\* The rows that a request has read replace those that were shown.
LEMMA ShowsKeep ==
    ASSUME PagesInv, list.at = "active", NEW next \in Nat, (next - 1) * PageSize <= list.limit,
           ShowCards(list, next), polling' \in BOOLEAN, scroll' = Orphaned(scroll),
           fresh' = list.fresh, shifted' = list.shifted, list' = Idle,
           AddDialogs(list.rows) \/ UNCHANGED <<dialog, shown>>,
           UNCHANGED <<jobVars, raced>>, mishaps' \in Nat
    PROVE  PagesInv'
  <1> USE DEF jobVars
  <1>1. TypeOK /\ list \in Request /\ scroll \in Request /\ PageSize \in Nat /\ order \in Seq(Jobs)
    BY ListPagesConstants DEF PagesInv, TypeOK
  <1>2. /\ cards' = list.rows /\ sentinel' \in {0, next} /\ list.rows \in Seq(Card)
        /\ list.fresh \in SUBSET Jobs /\ list.shifted \in BOOLEAN /\ list.limit \in Nat
    BY <1>1 DEF ShowCards, Below, Request
  <1>3. TypeOK'
    <2>1. /\ dialog' \in [Jobs -> {"none", "closed", "still", "polls"}]
          /\ shown' \in [Jobs -> {"none", "queued", "running", "ended"}]
      BY <1>1, <1>2, DialogsTyped DEF TypeOK
    <2>2. cards' \in Seq(Card) /\ sentinel' \in Nat /\ fresh' \subseteq Jobs /\ shifted' \in BOOLEAN
      BY <1>2
    <2>3. list' \in Request /\ scroll' \in Request
      BY <1>1, IdleIs, OrphanedIs
    <2> QED BY <1>1, <2>1, <2>2, <2>3 DEF TypeOK
  <1>4. OrderInv'
    BY DEF PagesInv, OrderInv, Distinct
  <1>5. PageInv'
    <2> DEFINE T == JobsOf(list.rows)
    <2>1. Shown' = T
      BY <1>2 DEF Shown, JobsOf
    <2>2. ASSUME ~list.shifted
          PROVE  /\ Before(order, T, list.fresh)
                 /\ DownTo(order, T, list.fresh, list.limit)
      <3>1. Found(order, status, list, {}, list.fresh) /\ list.page = 1
        BY <2>2 DEF PagesInv, ListInv
      <3>2. Has(list) = T /\ HasIds(list) /\ {} \cup T = T /\ list.page * list.limit = list.limit
        BY <1>2, <3>1 DEF Has, HasIds
      <3> HIDE DEF T
      <3> QED BY <3>1, <3>2 DEF Found
    <2> HIDE DEF T
    <2>3. ASSUME ~list.shifted PROVE DownTo(order, T, list.fresh, (next - 1) * PageSize)
      <3>1. (next - 1) * PageSize \in Int
        BY <1>1
      <3> QED BY <1>1, <1>2, <2>2, <2>3, <3>1 DEF DownTo
    <2> QED BY <1>2, <2>1, <2>2, <2>3 DEF PageInv
  <1>6. ListInv'
    BY IdleIs DEF ListInv, Found
  <1>7. ScrollInv'
    BY <1>1, OrphanedIs DEF PagesInv, ScrollInv, Known
  <1> QED BY <1>3, <1>4, <1>5, <1>6, <1>7 DEF PagesInv

\* The page after a first load is the second, after a poll the one its rows end at.
LEMMA AnswerListKeeps == ASSUME PagesInv, AnswerList PROVE PagesInv'
  <1>1. PageSize \in Nat \ {0} /\ list.limit \in Nat /\ HasActive \in BOOLEAN
    BY ListPagesConstants DEF PagesInv, TypeOK, Request, HasActive
  <1>2. mishaps' \in Nat
    <2>1. mishaps \in Nat
      BY DEF PagesInv, TypeOK
    <2>2. mishaps' = mishaps \/ mishaps' = mishaps + 1
      BY DEF AnswerList, Mishap
    <2> QED BY <2>1, <2>2
  <1>3. ASSUME NEW active \in BOOLEAN, AnswerLoad(active) PROVE PagesInv'
    <2>1. list.limit = PageSize /\ (2 - 1) * PageSize <= list.limit
      BY <1>1, <1>3 DEF PagesInv, ListInv, AnswerLoad
    <2>2. polling' \in BOOLEAN
      BY <1>3 DEF AnswerLoad
    <2> QED BY <1>1, <1>2, <1>3, <2>1, <2>2, ShowsKeep DEF AnswerLoad
  <1>4. ASSUME NEW active \in BOOLEAN, AnswerPoll(active) PROVE PagesInv'
    <2> DEFINE n == list.limit \div PageSize
    <2>1. n \in Nat /\ n * PageSize <= list.limit
      BY <1>1
    <2>2. NextPage(list.limit) = n + 1
      BY DEF NextPage
    <2> HIDE DEF n
    <2>3. NextPage(list.limit) \in Nat /\ (NextPage(list.limit) - 1) * PageSize <= list.limit
      BY <1>1, <2>1, <2>2
    <2> QED BY <1>1, <1>2, <1>4, <2>3, ShowsKeep DEF AnswerPoll
  <1> QED BY <1>1, <1>3, <1>4 DEF AnswerList

\* Cards that come below the others carry on where these end.
LEMMA AnswerScrollKeeps == ASSUME PagesInv, AnswerScroll PROVE PagesInv'
  <1> USE DEF jobVars
  <1>1. /\ TypeOK /\ list \in Request /\ scroll \in Request /\ PageSize \in Nat \ {0}
        /\ scroll.rows \in Seq(Card) /\ cards \in Seq(Card) /\ scroll.page \in Nat
        /\ scroll.at = "active" /\ scroll.limit = PageSize /\ scroll' = Idle /\ AddDialogs(scroll.rows)
        /\ UNCHANGED <<jobVars, polling, list, fresh, shifted, raced, mishaps>>
    BY ListPagesConstants DEF PagesInv, TypeOK, ScrollInv, Request, AnswerScroll
  <1>2. /\ dialog' \in [Jobs -> {"none", "closed", "still", "polls"}]
        /\ shown' \in [Jobs -> {"none", "queued", "running", "ended"}]
    BY <1>1, DialogsTyped
  <1>3. OrderInv' /\ ScrollInv'
    BY <1>1, IdleIs DEF PagesInv, OrderInv, Distinct, ScrollInv
  <1>4. ListInv'
    BY <1>1 DEF PagesInv, ListInv
  <1>5. CASE scroll.orphan
    <2>1. UNCHANGED <<cards, sentinel>>
      BY <1>5 DEF AnswerScroll
    <2>2. TypeOK'
      BY <1>1, <1>2, <2>1, IdleIs DEF TypeOK
    <2>3. PageInv'
      BY <1>1, <2>1 DEF PagesInv, PageInv, Shown
    <2> QED BY <1>3, <1>4, <2>2, <2>3 DEF PagesInv
  <1>6. CASE ~scroll.orphan
    <2>1. cards' = cards \o scroll.rows /\ sentinel' \in {0, scroll.page + 1}
      BY <1>6 DEF AnswerScroll, Below
    <2>2. TypeOK'
      BY <1>1, <1>2, <2>1, IdleIs DEF TypeOK
    <2>3. Shown' = Shown \cup JobsOf(scroll.rows)
      <3>1. /\ Len(cards) \in Nat /\ Len(scroll.rows) \in Nat
            /\ DOMAIN cards = 1..Len(cards) /\ DOMAIN scroll.rows = 1..Len(scroll.rows)
            /\ DOMAIN cards' = 1..(Len(cards) + Len(scroll.rows))
            /\ \A i \in DOMAIN cards' :
                  cards'[i] = IF i <= Len(cards) THEN cards[i] ELSE scroll.rows[i - Len(cards)]
        BY <1>1, <2>1
      <3>2. \A i \in DOMAIN cards' : (i \in DOMAIN cards /\ cards'[i] = cards[i]) \/
               (i - Len(cards) \in DOMAIN scroll.rows /\ cards'[i] = scroll.rows[i - Len(cards)])
        BY <3>1
      <3>3. \A i \in DOMAIN cards : i \in DOMAIN cards' /\ cards'[i] = cards[i]
        BY <3>1
      <3>4. \A i \in DOMAIN scroll.rows :
               Len(cards) + i \in DOMAIN cards' /\ cards'[Len(cards) + i] = scroll.rows[i]
        BY <3>1
      <3> QED BY <3>2, <3>3, <3>4 DEF Shown, JobsOf
    <2>4. ASSUME ~shifted
          PROVE  /\ Before(order, Shown', fresh)
                 /\ DownTo(order, Shown', fresh, scroll.page * PageSize)
      <3>1. Found(order, status, scroll, Shown, fresh)
        BY <1>1, <1>6, <2>4 DEF PagesInv, ScrollInv
      <3>2. HasIds(scroll) /\ Shown \cup Has(scroll) = Shown'
        BY <1>1, <2>3 DEF HasIds, Has
      <3> QED BY <1>1, <3>1, <3>2 DEF Found
    <2>5. (scroll.page + 1) - 1 = scroll.page
      BY <1>1
    <2>6. PageInv'
      BY <1>1, <2>1, <2>4, <2>5 DEF PageInv
    <2> QED BY <1>3, <1>4, <2>2, <2>6 DEF PagesInv
  <1> QED BY <1>5, <1>6

\* PagesInv is inductive.
LEMMA NextPages == PagesInv /\ [Next]_vars => PagesInv'
  <1> SUFFICES ASSUME PagesInv, [Next]_vars PROVE PagesInv'
    OBVIOUS
  <1>1. ASSUME NEW j \in Jobs, Enqueue(j) \/ ClaimJob(j) PROVE PagesInv'
    <2>1. raced' \subseteq Jobs
      BY <1>1 DEF PagesInv, TypeOK, Enqueue, ClaimJob
    <2> QED BY <1>1, <2>1, FrontKeeps DEF Enqueue, ClaimJob
  <1>2. ASSUME NEW j \in Jobs, EndJob(j) PROVE PagesInv'
    <2>1. raced' \subseteq Jobs
      BY <1>2 DEF PagesInv, TypeOK, EndJob
    <2>2. CASE ToFront(j)
      BY <1>2, <2>1, <2>2, FrontKeeps DEF EndJob
    <2>3. CASE ~ToFront(j)
      BY <1>2, <2>1, <2>3, EndKeeps DEF EndJob
    <2> QED BY <2>2, <2>3
  <1>3. ASSUME NEW j \in Jobs, LogRun(j) PROVE PagesInv'
    <2>1. raced' \subseteq Jobs
      BY <1>3 DEF PagesInv, TypeOK, LogRun
    <2>2. status' = [status EXCEPT ![j] = "running"]
      BY <1>3 DEF PagesInv, TypeOK, LogRun
    <2> QED BY <1>3, <2>1, <2>2, FrontKeeps DEF LogRun
  <1>4. ASSUME NEW j \in Jobs, RemoveJob(j) \/ ClickRun(j) \/ OpenLog(j) \/ PollDialog(j)
        PROVE  PagesInv'
    BY <1>4, RemoveKeeps, ClickRunKeeps, DialogsKeep
  <1>5. CASE ListStep
    BY <1>5, ReadListKeeps, AnswerListKeeps DEF ListStep
  <1>6. CASE ListFails \/ ScrollFails
    BY <1>6, FailsKeep
  <1>7. CASE StartPoll \/ StartScroll \/ ReadScroll \/ AnswerScroll
    BY <1>7, StartPollKeeps, StartScrollKeeps, ReadScrollKeeps, AnswerScrollKeeps
  <1>8. CASE UNCHANGED vars
    BY <1>8 DEF vars, jobVars, page, PagesInv, TypeOK, OrderInv, Distinct, PageInv, ListInv, ScrollInv, Shown
  <1> QED BY <1>1, <1>2, <1>3, <1>4, <1>5, <1>6, <1>7, <1>8 DEF Next

\* PagesInv holds in every reachable state of the two pages.
THEOREM PagesInvariant == Spec => []PagesInv
  BY InitPages, NextPages, PTL DEF Spec

\* The variables of the pages and of their requests keep their types.
THEOREM PageTypes == Spec => []TypeOK
  <1>1. PagesInv => TypeOK
    BY DEF PagesInv
  <1> QED BY <1>1, PagesInvariant, PTL

\* Scrolling and polling a list while jobs come to its front skips no row: a
\* job listed above one that is shown is shown itself, or is new.
THEOREM NothingSkipped == Spec => []NoGap
  <1>1. PagesInv => NoGap
    BY DEF PagesInv, PageInv, NoGap, Before, IsShown, Shown, JobsOf
  <1> QED BY <1>1, PagesInvariant, PTL

-----------------------------------------------------------------------------
(* the tail of a log *)

\* Flushes are numbered in the order their copies were taken.
Numbering ==
    /\ \A i \in async : i <= seq
    /\ \A c \in Callers : waits[c] # None => waits[c] <= seq
    /\ flushedSeq <= seq
    /\ \A i \in Flushes : i <= seq => snap[i] <= last
    /\ \A i, j \in Flushes : i <= j /\ j <= seq => snap[i] <= snap[j]

\* The row shows the newest flush begun, or an older one while that one is
\* still running or has failed.
Row ==
    /\ holder # None => flushedSeq = holder
    /\ flushedSeq = 0 => persisted = 0
    /\ flushedSeq > 0 => persisted <= snap[flushedSeq]
    /\ flushedSeq > 0 /\ holder = None /\ ~FlushFails => persisted = snap[flushedSeq]

\* The inductive invariant of the tail.
TailInv == TailTypeOK /\ Numbering /\ Row

USE TailConstants DEF Flushes

\* An empty tail.
LEMMA InitTail == TailInit => TailInv
  BY DEF TailInit, TailInv, TailTypeOK, Numbering, Row

\* TailInv is inductive.
LEMMA NextTail == TailInv /\ [TailNext]_tailVars => TailInv'
<1> SUFFICES ASSUME TailInv, [TailNext]_tailVars PROVE TailInv'
  OBVIOUS
<1> USE DEF TailInv, TailTypeOK, Numbering, Row
<1>1. ASSUME NEW k \in 0..2, Write(k) PROVE TailInv'
  <2>0. last' \in Nat /\ last <= last'
    BY <1>1 DEF Write
  <2>1. CASE last' > 0 /\ gap
    <3>1. /\ Number(last') /\ async' = async \cup {seq + 1} /\ gap' = FALSE
          /\ UNCHANGED <<waits, flushedSeq, holder, persisted>>
      BY <1>1, <2>1 DEF Write
    <3>2. TailTypeOK'
      <4>1. seq + 1 \in Flushes /\ seq' \in 0..MaxFlushes
        BY <3>1 DEF Number
      <4>2. snap' \in [Flushes -> Nat]
        BY <3>1, <2>0 DEF Number
      <4>3. async' \in SUBSET Flushes
        BY <3>1, <4>1
      <4>4. gap' \in BOOLEAN
        BY <3>1
      <4> QED BY <3>1, <2>0, <4>1, <4>2, <4>3, <4>4
    <3>3. Numbering'
      BY <3>1, <2>0 DEF Number
    <3>4. Row'
      BY <3>1 DEF Number
    <3> QED BY <3>2, <3>3, <3>4
  <2>2. CASE ~(last' > 0 /\ gap)
    <3>1. UNCHANGED <<seq, snap, async, gap, waits, flushedSeq, holder, persisted>>
      BY <1>1, <2>2 DEF Write
    <3>2. \A i \in Flushes : i <= seq => snap[i] <= last'
      BY <2>0
    <3> QED BY <3>1, <2>0, <3>2
  <2> QED BY <2>1, <2>2
<1>2. CASE GapPasses
  BY <1>2 DEF GapPasses
<1>3. ASSUME NEW c \in Callers, FlushNow(c) PROVE TailInv'
  <2>1. /\ seq < MaxFlushes /\ seq' = seq + 1 /\ snap' = [snap EXCEPT ![seq + 1] = last]
        /\ waits' = [waits EXCEPT ![c] = seq + 1]
        /\ UNCHANGED <<last, gap, async, flushedSeq, holder, persisted>>
    BY <1>3 DEF FlushNow, Number
  <2>2. TailTypeOK'
    BY <2>1
  <2>3. Numbering'
    <3>1. \A i \in Flushes : i <= seq => snap'[i] = snap[i]
      BY <2>1
    <3>2. snap'[seq + 1] = last /\ \A i \in Flushes : i <= seq' => i <= seq \/ i = seq + 1
      BY <2>1
    <3>3. \A i \in Flushes : i <= seq' => snap'[i] <= last'
      BY <2>1, <3>1, <3>2
    <3>4. \A i, j \in Flushes : i <= j /\ j <= seq' => snap'[i] <= snap'[j]
      BY <2>1, <3>1, <3>2, <3>3
    <3>5. \A i \in async' : i <= seq'
      BY <2>1
    <3>6. \A d \in Callers : waits'[d] # None => waits'[d] <= seq'
      BY <2>1
    <3> QED BY <2>1, <3>3, <3>4, <3>5, <3>6
  <2>4. Row'
    BY <2>1
  <2> QED BY <2>2, <2>3, <2>4
<1>4. ASSUME NEW i \in Flushes, BeginFlush(i) PROVE TailInv'
  <2>1. /\ holder = None /\ holder' = i /\ flushedSeq' = i /\ i <= seq /\ flushedSeq < i
        /\ UNCHANGED <<last, gap, seq, snap, async, waits, persisted>>
    BY <1>4 DEF BeginFlush, Superseded
  <2>2. TailTypeOK' /\ Numbering'
    BY <2>1
  <2>3. persisted <= snap[i]
    <3>1. CASE flushedSeq = 0
      BY <3>1
    <3>2. CASE flushedSeq > 0
      BY <2>1, <3>2
    <3> QED BY <3>1, <3>2
  <2>4. Row'
    BY <2>1, <2>3
  <2> QED BY <2>2, <2>4
<1>5. ASSUME NEW i \in Flushes, SkipFlush(i) PROVE TailInv'
  BY <1>5 DEF SkipFlush, Return
<1>6. CASE EndFlush
  BY <1>6 DEF EndFlush, Return, Release
<1>7. CASE UNCHANGED tailVars
  BY <1>7 DEF tailVars
<1> QED BY <1>1, <1>2, <1>3, <1>4, <1>5, <1>6, <1>7 DEF TailNext, Flush

\* TailInv holds in every reachable state.
THEOREM TailInvariant == TailSpec => []TailInv
  BY InitTail, NextTail, PTL DEF TailSpec

\* The variables of the tail keep their types.
THEOREM TailTypes == TailSpec => []TailTypeOK
<1>1. TailInv => TailTypeOK
  BY DEF TailInv
<1> QED BY <1>1, TailInvariant, PTL

\* No step makes the persisted tail older, whatever order the goroutines of
\* the flushes get the lock in and whichever updates fail.
THEOREM TailNeverOlder == TailSpec => NeverOlder
<1>1. TailInv /\ [TailNext]_tailVars => [persisted' >= persisted]_tailVars
  <2> SUFFICES ASSUME TailInv, [TailNext]_tailVars PROVE persisted' >= persisted
    OBVIOUS
  <2> USE DEF TailInv, TailTypeOK, Numbering, Row
  <2>1. CASE EndFlush
    BY <2>1 DEF EndFlush
  <2>2. CASE ~EndFlush
    BY <2>2 DEF TailNext, Write, GapPasses, FlushNow, Flush, BeginFlush, SkipFlush, tailVars
  <2> QED BY <2>1, <2>2
<1> QED BY <1>1, TailInvariant, PTL DEF NeverOlder, TailSpec

\* A FlushNow call that ends leaves its lines persisted: a flush it skipped was
\* overtaken by one that is done.
THEOREM FlushIsDurable == TailSpec => FlushNowDurable
<1> DEFINE Durable ==
      \A c \in Callers :
          waits[c] # None /\ waits'[c] = None /\ ~FlushFails => persisted' >= snap[waits[c]]
<1>1. TailInv /\ [TailNext]_tailVars => [Durable]_tailVars
  <2> SUFFICES ASSUME TailInv, [TailNext]_tailVars,
                      NEW c \in Callers, waits[c] # None, waits'[c] = None, ~FlushFails
               PROVE persisted' >= snap[waits[c]]
    OBVIOUS
  <2> USE DEF TailInv, TailTypeOK, Numbering, Row
  <2>1. ASSUME NEW i \in Flushes, SkipFlush(i) PROVE persisted' >= snap[waits[c]]
    <3>1. waits[c] = i /\ i <= flushedSeq /\ holder = None
      BY <2>1 DEF SkipFlush, Return, Superseded, Blocked
    <3>2. persisted = snap[flushedSeq] /\ snap[i] <= snap[flushedSeq]
      BY <3>1
    <3> QED BY <2>1, <3>1, <3>2 DEF SkipFlush
  <2>2. CASE EndFlush
    <3>1. waits[c] = holder
      BY <2>2 DEF EndFlush, Return
    <3> QED BY <2>2, <3>1 DEF EndFlush
  <2>3. CASE UNCHANGED waits
    BY <2>3
  <2>4. ASSUME NEW d \in Callers, FlushNow(d) PROVE FALSE
    BY <2>4 DEF FlushNow, Number
  <2> QED BY <2>1, <2>2, <2>3, <2>4
         DEF TailNext, Write, GapPasses, Flush, BeginFlush, tailVars
<1> QED BY <1>1, TailInvariant, PTL DEF FlushNowDurable, TailSpec
=============================================================================
