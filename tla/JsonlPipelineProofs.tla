-------------------------- MODULE JsonlPipelineProofs --------------------------
(***************************************************************************)
(* The files keep what was appended to them, and the checkpoint covers     *)
(* what it says, for any number of records, partitions and writers.  Runs  *)
(* add up the lines of partitions that grow meanwhile: first come sums.    *)
(***************************************************************************)
EXTENDS JsonlPipeline, SequenceTheorems, WellFoundedInduction, TLAPS

Numbers == [Partitions -> Nat]

\* A set of naturals that is not empty has a smallest element.
LEMMA LeastExists ==
    ASSUME NEW U \in SUBSET Nat, U # {}
    PROVE  \E x \in U : \A y \in U : x <= y
<1>. DEFINE R == OpToRel(<, Nat)
<1>1. IsWellFoundedOn(R, Nat)
  BY NatLessThanWellFounded
<1>2. \A x, y \in Nat : y < x => <<y, x>> \in R
  BY DEF OpToRel
<1>. HIDE DEF R
<1>3. PICK x \in U : \A y \in U : <<y, x>> \notin R
  BY <1>1, WFMin
<1>4. ASSUME NEW y \in U PROVE x <= y
  <2>1. x \in Nat /\ y \in Nat /\ ~(y < x)
    BY <1>2, <1>3
  <2>. QED
    BY <2>1
<1>. QED
  BY <1>4

\* What holds of m, and of k + 1 when it holds of k, holds from m up to n.
LEMMA Upwards ==
    ASSUME NEW m \in Nat, NEW n \in Nat, NEW U, m \in U,
           \A k \in m..(n - 1) : k \in U => k + 1 \in U
    PROVE  \A k \in m..n : k \in U
<1>. DEFINE B == {k \in m..n : k \notin U}
<1>. SUFFICES ASSUME B # {} PROVE FALSE
  OBVIOUS
<1>0. B \in SUBSET Nat
  OBVIOUS
<1>1. PICK k \in B : \A l \in B : k <= l
  <2>. HIDE DEF B
  <2>. QED
    BY <1>0, LeastExists
<1>2. k # m /\ k - 1 \in m..(n - 1) /\ k - 1 \in m..n /\ ~(k <= k - 1)
  BY <1>1
<1>3. k - 1 \in U
  BY <1>1, <1>2
<1>4. (k - 1) + 1 \in U
  BY <1>2, <1>3
<1>. QED
  BY <1>1, <1>4

IsSum(f, g) == g = [q \in {0} \cup Partitions |-> IF q = 0 THEN 0 ELSE g[q - 1] + f[q]]

\* The sums of the first numbers exist.
LEMMA SumsExist == ASSUME NEW f \in Numbers PROVE \E g : IsSum(f, g)
<1>0. LastPartition \in Nat \ {0} /\ Partitions = 1..LastPartition
  BY PipelineAssumption DEF Partitions
<1>. DEFINE Sums(n) == {g \in [0..n -> Nat] : \A q \in 0..n : g[q] = IF q = 0 THEN 0 ELSE g[q - 1] + f[q]}
            U == {n \in Nat : Sums(n) # {}}
<1>1. 0 \in U
  <2>. DEFINE g == [q \in 0..0 |-> 0]
  <2>1. g \in [0..0 -> Nat] /\ \A q \in 0..0 : g[q] = IF q = 0 THEN 0 ELSE g[q - 1] + f[q]
    OBVIOUS
  <2>2. g \in Sums(0)
    BY <2>1
  <2>. QED
    BY <2>2
<1>2. ASSUME NEW n \in 0..(LastPartition - 1), n \in U PROVE n + 1 \in U
  <2>1. PICK g \in Sums(n) : TRUE
    BY <1>2
  <2>2. n \in Nat /\ n + 1 \in Partitions /\ f[n + 1] \in Nat /\ g[n] \in Nat
    BY <1>0, <1>2, <2>1 DEF Numbers
  <2>. DEFINE h == [q \in 0..(n + 1) |-> IF q <= n THEN g[q] ELSE g[n] + f[n + 1]]
  <2>3. h \in [0..(n + 1) -> Nat]
    BY <2>1, <2>2
  <2>4. ASSUME NEW q \in 0..(n + 1) PROVE h[q] = IF q = 0 THEN 0 ELSE h[q - 1] + f[q]
    <3>1. CASE q = n + 1
      <4>1. h[q] = g[n] + f[n + 1] /\ h[q - 1] = g[n] /\ q # 0
        BY <2>2, <3>1
      <4>. QED
        BY <3>1, <4>1
    <3>2. CASE q # n + 1
      <4>1. q \in 0..n /\ h[q] = g[q] /\ (q # 0 => h[q - 1] = g[q - 1])
        BY <2>2, <3>2
      <4>. QED
        BY <2>1, <4>1
    <3>. QED
      BY <3>1, <3>2
  <2>. HIDE DEF h
  <2>5. h \in Sums(n + 1)
    BY <2>3, <2>4
  <2>. HIDE DEF Sums
  <2>6. Sums(n + 1) # {} /\ n + 1 \in Nat
    BY <2>2, <2>5
  <2>. QED
    BY <2>6
<1>. HIDE DEF U
<1>3. LastPartition \in U
  <2>1. \A k \in 0..(LastPartition - 1) : k \in U => k + 1 \in U
    BY <1>2
  <2>2. \A k \in 0..LastPartition : k \in U
    BY <1>0, <1>1, <2>1, Upwards
  <2>. QED
    BY <1>0, <2>2
<1>4. PICK g \in Sums(LastPartition) : TRUE
  BY <1>3 DEF U
<1>5. {0} \cup Partitions = 0..LastPartition
  BY <1>0
<1>6. IsSum(f, g)
  BY <1>4, <1>5 DEF IsSum
<1>. QED
  BY <1>6

\* The sum of no numbers is 0, and each number adds to it.
LEMMA SumIs ==
    ASSUME NEW f \in Numbers
    PROVE  /\ SumUpto(f, 0) = 0
           /\ \A p \in Partitions : SumUpto(f, p) = SumUpto(f, p - 1) + f[p]
           /\ \A p \in 0..LastPartition : SumUpto(f, p) \in Nat
<1>0. LastPartition \in Nat \ {0} /\ Partitions = 1..LastPartition
  BY PipelineAssumption DEF Partitions
<1>. DEFINE g == CHOOSE g : IsSum(f, g)
<1>1. IsSum(f, g)
  BY SumsExist
<1>2. ASSUME NEW p PROVE SumUpto(f, p) = g[p]
  BY DEF SumUpto, IsSum
<1>. HIDE DEF g
<1>3. g[0] = 0 /\ \A p \in Partitions : g[p] = g[p - 1] + f[p]
  <2>1. 0 \in {0} \cup Partitions /\ \A p \in Partitions : p \in {0} \cup Partitions /\ p # 0
    BY <1>0
  <2>. QED
    BY <1>1, <2>1 DEF IsSum
<1>. DEFINE U == {p \in 0..LastPartition : g[p] \in Nat}
<1>4. 0 \in U
  BY <1>0, <1>3
<1>5. \A k \in 0..(LastPartition - 1) : k \in U => k + 1 \in U
  <2>1. ASSUME NEW k \in 0..(LastPartition - 1), k \in U PROVE k + 1 \in U
    <3>1. k + 1 \in Partitions /\ (k + 1) - 1 = k /\ f[k + 1] \in Nat
      BY <1>0 DEF Numbers
    <3>2. g[k + 1] = g[k] + f[k + 1]
      BY <1>3, <3>1
    <3>. QED
      BY <1>0, <2>1, <3>1, <3>2
  <2>. QED
    BY <2>1
<1>. HIDE DEF U
<1>6. \A k \in 0..LastPartition : k \in U
  BY <1>0, <1>4, <1>5, Upwards
<1>. QED
  BY <1>2, <1>3, <1>6 DEF U

\* Numbers that are not greater have sums that are not greater.
LEMMA SumsLeq ==
    ASSUME NEW f \in Numbers, NEW g \in Numbers, NEW n \in 0..LastPartition,
           \A q \in 1..n : f[q] <= g[q]
    PROVE  SumUpto(f, n) <= SumUpto(g, n)
<1>0. LastPartition \in Nat \ {0} /\ Partitions = 1..LastPartition
  BY PipelineAssumption DEF Partitions
<1>. DEFINE U == {k \in 0..n : SumUpto(f, k) <= SumUpto(g, k)}
<1>1. 0 \in U
  BY SumIs
<1>2. \A k \in 0..(n - 1) : k \in U => k + 1 \in U
  <2>1. ASSUME NEW k \in 0..(n - 1), k \in U PROVE k + 1 \in U
    <3>1. k + 1 \in Partitions /\ (k + 1) - 1 = k /\ k \in 0..LastPartition /\ k + 1 \in 0..LastPartition
      BY <1>0
    <3>2. f[k + 1] <= g[k + 1] /\ f[k + 1] \in Nat /\ g[k + 1] \in Nat
      BY <3>1 DEF Numbers
    <3>3. SumUpto(f, k + 1) = SumUpto(f, k) + f[k + 1] /\ SumUpto(g, k + 1) = SumUpto(g, k) + g[k + 1]
      BY <3>1, SumIs
    <3>4. SumUpto(f, k) \in Nat /\ SumUpto(g, k) \in Nat
      BY <3>1, SumIs
    <3>. QED
      BY <2>1, <3>2, <3>3, <3>4
  <2>. QED
    BY <2>1
<1>. HIDE DEF U
<1>3. \A k \in 0..n : k \in U
  BY <1>0, <1>1, <1>2, Upwards
<1>4. n \in U
  BY <1>0, <1>3
<1>. QED
  BY <1>4 DEF U

\* A longer sum is not smaller, and the same when only zeros are added.
LEMMA SumGrows ==
    ASSUME NEW f \in Numbers, NEW m \in 0..LastPartition, NEW n \in m..LastPartition
    PROVE  /\ SumUpto(f, m) <= SumUpto(f, n)
           /\ (\A q \in (m + 1)..n : f[q] = 0) => SumUpto(f, n) = SumUpto(f, m)
<1>0. /\ LastPartition \in Nat \ {0} /\ Partitions = 1..LastPartition
      /\ m \in Nat /\ n \in Nat /\ m <= n
  BY PipelineAssumption DEF Partitions
<1>. DEFINE flat == \A q \in (m + 1)..n : f[q] = 0
            U == {k \in m..n : SumUpto(f, m) <= SumUpto(f, k) /\ (flat => SumUpto(f, k) = SumUpto(f, m))}
<1>a. flat => \A q \in (m + 1)..n : f[q] = 0
  OBVIOUS
<1>. HIDE DEF flat
<1>1. m \in U
  <2>1. SumUpto(f, m) \in Nat
    BY SumIs
  <2>. QED
    BY <1>0, <2>1
<1>2. \A k \in m..(n - 1) : k \in U => k + 1 \in U
  <2>1. ASSUME NEW k \in m..(n - 1), k \in U PROVE k + 1 \in U
    <3>1. /\ k + 1 \in Partitions /\ (k + 1) - 1 = k /\ k \in 0..LastPartition
          /\ k + 1 \in (m + 1)..n /\ k + 1 \in m..n
      BY <1>0
    <3>2. SumUpto(f, k + 1) = SumUpto(f, k) + f[k + 1] /\ f[k + 1] \in Nat
      BY <3>1, SumIs DEF Numbers
    <3>3. SumUpto(f, k) \in Nat /\ SumUpto(f, m) \in Nat
      BY <3>1, SumIs
    <3>. QED
      BY <1>a, <2>1, <3>1, <3>2, <3>3
  <2>. QED
    BY <2>1
<1>. HIDE DEF U
<1>3. \A k \in m..n : k \in U
  BY <1>0, <1>1, <1>2, Upwards
<1>4. n \in U
  BY <1>0, <1>3
<1>5. SumUpto(f, m) <= SumUpto(f, n) /\ (flat => SumUpto(f, n) = SumUpto(f, m))
  BY <1>4 DEF U
<1>. QED
  BY <1>5 DEF flat

\* Numbers that differ at p only have sums that differ by as much from p on.
LEMMA SumDiffers ==
    ASSUME NEW f \in Numbers, NEW g \in Numbers, NEW p \in Partitions,
           \A q \in Partitions \ {p} : g[q] = f[q]
    PROVE  \A n \in 0..LastPartition :
              SumUpto(g, n) = IF n < p THEN SumUpto(f, n) ELSE SumUpto(f, n) + (g[p] - f[p])
<1>0. /\ LastPartition \in Nat \ {0} /\ Partitions = 1..LastPartition /\ p \in Nat
      /\ f[p] \in Nat /\ g[p] \in Nat
  BY PipelineAssumption DEF Partitions, Numbers
<1>. DEFINE U == {n \in 0..LastPartition :
                    SumUpto(g, n) = IF n < p THEN SumUpto(f, n) ELSE SumUpto(f, n) + (g[p] - f[p])}
<1>1. 0 \in U
  <2>1. 0 < p
    BY <1>0
  <2>. QED
    BY <1>0, <2>1, SumIs
<1>2. \A k \in 0..(LastPartition - 1) : k \in U => k + 1 \in U
  <2>1. ASSUME NEW k \in 0..(LastPartition - 1), k \in U PROVE k + 1 \in U
    <3>1. /\ k + 1 \in Partitions /\ (k + 1) - 1 = k /\ k \in 0..LastPartition
          /\ k + 1 \in 0..LastPartition
      BY <1>0
    <3>2. /\ SumUpto(f, k + 1) = SumUpto(f, k) + f[k + 1] /\ f[k + 1] \in Nat
          /\ SumUpto(g, k + 1) = SumUpto(g, k) + g[k + 1] /\ g[k + 1] \in Nat
      BY <3>1, SumIs DEF Numbers
    <3>3. SumUpto(f, k) \in Nat /\ SumUpto(g, k) \in Nat
      BY <3>1, SumIs
    <3>4. CASE k + 1 = p
      <4>1. SumUpto(g, k) = SumUpto(f, k) /\ ~(k + 1 < p)
        BY <1>0, <2>1, <3>4
      <4>a. g[k + 1] = g[p] /\ f[k + 1] = f[p]
        BY <3>4
      <4>2. SumUpto(g, k + 1) = SumUpto(f, k + 1) + (g[p] - f[p])
        BY ONLY <1>0, <3>2, <3>3, <4>1, <4>a
      <4>. QED
        BY <3>1, <4>1, <4>2
    <3>5. CASE k + 1 # p
      <4>1. g[k + 1] = f[k + 1]
        BY <3>1, <3>5
      <4>2. k + 1 < p <=> k < p
        BY <1>0, <3>1, <3>5
      <4>3. SumUpto(g, k) = IF k < p THEN SumUpto(f, k) ELSE SumUpto(f, k) + (g[p] - f[p])
        BY <2>1
      <4>4. SumUpto(g, k + 1) = IF k + 1 < p THEN SumUpto(f, k + 1) ELSE SumUpto(f, k + 1) + (g[p] - f[p])
        <5>1. CASE k < p
          <6>1. SumUpto(g, k) = SumUpto(f, k)
            BY <4>3, <5>1
          <6>2. SumUpto(g, k + 1) = SumUpto(f, k + 1)
            BY <3>2, <4>1, <6>1
          <6>. QED
            BY <4>2, <5>1, <6>2
        <5>2. CASE ~(k < p)
          <6>1. SumUpto(g, k) = SumUpto(f, k) + (g[p] - f[p])
            BY <4>3, <5>2
          <6>2. SumUpto(g, k + 1) = SumUpto(f, k + 1) + (g[p] - f[p])
            <7>1. SumUpto(g, k + 1) = (SumUpto(f, k) + (g[p] - f[p])) + f[k + 1]
              BY <3>2, <4>1, <6>1
            <7>. QED
              BY ONLY <1>0, <3>2, <3>3, <7>1
          <6>. QED
            BY <4>2, <5>2, <6>2
        <5>. QED
          BY <5>1, <5>2
      <4>. QED
        BY <3>1, <4>4
    <3>. QED
      BY <3>4, <3>5
  <2>. QED
    BY <2>1
<1>. HIDE DEF U
<1>3. \A n \in 0..LastPartition : n \in U
  BY <1>0, <1>1, <1>2, Upwards
<1>. QED
  BY <1>3 DEF U

-----------------------------------------------------------------------------
(* Reading.  The partitions have lines 1..sizes[q]; items[q][i] is what line i is and what *)
(* a writer will make of it; a line is known when that is in the set known.                *)

\* There are k lines, and the first k are known.
Covers(sizes, items, known, k) ==
    /\ k <= SumUpto(sizes, LastPartition)
    /\ \A q \in Partitions : \A i \in 1..sizes[q] :
          SumUpto(sizes, q - 1) + i <= k => items[q][i] \subseteq known

\* The sizes of the partitions still to be read, and of the others.
Ahead(sizes, todo) == [q \in Partitions |-> IF q \in todo THEN sizes[q] ELSE 0]
Passed(sizes, todo) == [q \in Partitions |-> IF q \in todo THEN 0 ELSE sizes[q]]

\* Half way through the partitions, with the set lines read: known are the lines that the
\* run will pass over because their number, as it counts, is not behind its start; there
\* will be as many as that; known, or read, are the partitions that lie before one it has
\* to read; and it has not counted more than there is in these.
Reads(sizes, items, known, lines, todo, count, start) ==
    /\ \A q \in todo : \A i \in 1..sizes[q] :
          count + SumUpto(Ahead(sizes, todo), q - 1) + i <= start => items[q][i] \subseteq known
    /\ start <= count + SumUpto(Ahead(sizes, todo), LastPartition)
    /\ \A t \in todo, q \in Partitions \ todo :
          q < t => \A i \in 1..sizes[q] : items[q][i] \subseteq known \cup lines
    /\ \A n \in Partitions : (\A t \in todo : t <= n) /\ todo # {} => count <= SumUpto(Passed(sizes, todo), n)
    /\ todo = {} => Covers(sizes, items, known \cup lines, count)

\* Lines become no less known, and files grow: what is appended before a line that has
\* its number is known.
Grown(sizes, items, known, sizes2, items2, known2) ==
    /\ known \subseteq known2
    /\ \A q \in Partitions : sizes[q] <= sizes2[q]
    /\ \A q \in Partitions : \A i \in 1..sizes[q] : items2[q][i] \subseteq items[q][i] \cup known2
    /\ \A q \in Partitions : \A i \in 1..sizes2[q] :
          i > sizes[q] /\ (\E r \in Partitions : r > q /\ sizes[r] > 0) => items2[q][i] \subseteq known2

LEMMA CoversGrow ==
    ASSUME NEW sizes \in Numbers, NEW items, NEW known, NEW sizes2 \in Numbers, NEW items2, NEW known2,
           NEW more, NEW more2, NEW k \in Nat,
           Grown(sizes, items, known, sizes2, items2, known2), more \subseteq known2 \cup more2,
           Covers(sizes, items, known \cup more, k)
    PROVE  Covers(sizes2, items2, known2 \cup more2, k)
<1>0. LastPartition \in Nat \ {0} /\ Partitions = 1..LastPartition
  BY PipelineAssumption DEF Partitions
<1>1. \A q \in Partitions : sizes[q] <= sizes2[q] /\ sizes[q] \in Nat /\ sizes2[q] \in Nat
  BY DEF Grown, Numbers
<1>2. ASSUME NEW n \in 0..LastPartition
      PROVE  /\ SumUpto(sizes, n) \in Nat /\ SumUpto(sizes2, n) \in Nat
             /\ SumUpto(sizes, n) <= SumUpto(sizes2, n)
  <2>1. \A q \in 1..n : sizes[q] <= sizes2[q]
    BY <1>0, <1>1
  <2>. QED
    BY <2>1, SumIs, SumsLeq
<1>3. k <= SumUpto(sizes2, LastPartition)
  <2>1. LastPartition \in 0..LastPartition
    BY <1>0
  <2>2. k <= SumUpto(sizes, LastPartition)
    BY DEF Covers
  <2>. QED
    BY <1>2, <2>1, <2>2
<1>4. ASSUME NEW q \in Partitions, NEW i \in 1..sizes2[q], SumUpto(sizes2, q - 1) + i <= k
      PROVE  items2[q][i] \subseteq known2 \cup more2
  <2>1. /\ q \in 0..LastPartition /\ q - 1 \in 0..LastPartition /\ i \in Nat
        /\ LastPartition \in q..LastPartition
    BY <1>0, <1>1
  <2>2. SumUpto(sizes, q - 1) + i <= k
    BY <1>2, <1>4, <2>1
  <2>3. CASE i <= sizes[q]
    <3>1. i \in 1..sizes[q]
      BY <1>1, <2>1, <2>3
    <3>2. items[q][i] \subseteq known \cup more
      BY <2>2, <3>1 DEF Covers
    <3>3. items2[q][i] \subseteq items[q][i] \cup known2 /\ known \subseteq known2
      BY <3>1 DEF Grown
    <3>. QED
      BY <3>2, <3>3
  <2>4. CASE i > sizes[q]
    <3>1. \E r \in Partitions : r > q /\ sizes[r] > 0
      <4>. SUFFICES ASSUME \A r \in Partitions : r > q => ~(sizes[r] > 0) PROVE FALSE
        OBVIOUS
      <4>1. \A r \in (q + 1)..LastPartition : sizes[r] = 0
        BY <1>0, <1>1
      <4>2. SumUpto(sizes, LastPartition) = SumUpto(sizes, q)
        BY <2>1, <4>1, SumGrows
      <4>3. SumUpto(sizes, q) = SumUpto(sizes, q - 1) + sizes[q]
        BY SumIs
      <4>4. k <= SumUpto(sizes, LastPartition)
        BY DEF Covers
      <4>. QED
        BY <1>1, <1>2, <2>1, <2>2, <2>4, <4>2, <4>3, <4>4
    <3>. QED
      BY <2>4, <3>1 DEF Grown
  <2>. QED
    BY <1>1, <2>1, <2>3, <2>4
<1>. QED
  BY <1>3, <1>4 DEF Covers

\* The numbers that are summed.
LEMMA AheadIs ==
    ASSUME NEW sizes \in Numbers, NEW todo \in SUBSET Partitions
    PROVE  /\ Ahead(sizes, todo) \in Numbers /\ Passed(sizes, todo) \in Numbers
           /\ \A q \in Partitions : /\ sizes[q] \in Nat
                                    /\ Ahead(sizes, todo)[q] = IF q \in todo THEN sizes[q] ELSE 0
                                    /\ Passed(sizes, todo)[q] = IF q \in todo THEN 0 ELSE sizes[q]
           /\ \A n \in 0..LastPartition : /\ SumUpto(Ahead(sizes, todo), n) \in Nat
                                          /\ SumUpto(Passed(sizes, todo), n) \in Nat
<1>1. Ahead(sizes, todo) \in Numbers /\ Passed(sizes, todo) \in Numbers
  BY DEF Numbers, Ahead, Passed
<1>. QED
  BY <1>1, SumIs DEF Numbers, Ahead, Passed

\* Files grow while a run is half way: known is also what is appended to a partition that
\* it has passed.
LEMMA ReadsGrow ==
    ASSUME NEW sizes \in Numbers, NEW items, NEW known, NEW sizes2 \in Numbers, NEW items2, NEW known2,
           NEW lines, NEW todo \in SUBSET Partitions, NEW count \in Nat, NEW start \in Nat,
           Grown(sizes, items, known, sizes2, items2, known2),
           \A t \in todo, q \in Partitions \ todo : q < t =>
              \A i \in 1..sizes2[q] : i > sizes[q] => items2[q][i] \subseteq known2,
           Reads(sizes, items, known, lines, todo, count, start)
    PROVE  Reads(sizes2, items2, known2, lines, todo, count, start)
<1>0. LastPartition \in Nat \ {0} /\ Partitions = 1..LastPartition
  BY PipelineAssumption DEF Partitions
<1>. DEFINE ahead == Ahead(sizes, todo)
            ahead2 == Ahead(sizes2, todo)
            passed == Passed(sizes, todo)
            passed2 == Passed(sizes2, todo)
<1>1. /\ ahead \in Numbers /\ ahead2 \in Numbers /\ passed \in Numbers /\ passed2 \in Numbers
      /\ \A q \in Partitions :
            /\ sizes[q] \in Nat /\ sizes2[q] \in Nat /\ sizes[q] <= sizes2[q]
            /\ ahead[q] = IF q \in todo THEN sizes[q] ELSE 0
            /\ ahead2[q] = IF q \in todo THEN sizes2[q] ELSE 0
            /\ passed[q] = IF q \in todo THEN 0 ELSE sizes[q]
            /\ passed2[q] = IF q \in todo THEN 0 ELSE sizes2[q]
  BY AheadIs DEF Grown
<1>2. /\ known \subseteq known2
      /\ \A q \in Partitions : \A i \in 1..sizes[q] : items2[q][i] \subseteq items[q][i] \cup known2
      /\ \A q \in Partitions : \A i \in 1..sizes2[q] :
            i > sizes[q] /\ (\E r \in Partitions : r > q /\ sizes[r] > 0) => items2[q][i] \subseteq known2
  BY DEF Grown
<1>3. /\ \A q \in todo : \A i \in 1..sizes[q] :
            count + SumUpto(ahead, q - 1) + i <= start => items[q][i] \subseteq known
      /\ start <= count + SumUpto(ahead, LastPartition)
      /\ \A t \in todo, q \in Partitions \ todo :
            q < t => \A i \in 1..sizes[q] : items[q][i] \subseteq known \cup lines
      /\ \A n \in Partitions : (\A t \in todo : t <= n) /\ todo # {} => count <= SumUpto(passed, n)
      /\ todo = {} => Covers(sizes, items, known \cup lines, count)
  BY DEF Reads
<1>. HIDE DEF ahead, ahead2, passed, passed2
<1>4. ASSUME NEW n \in 0..LastPartition
      PROVE  /\ SumUpto(ahead, n) \in Nat /\ SumUpto(ahead2, n) \in Nat
             /\ SumUpto(passed, n) \in Nat /\ SumUpto(passed2, n) \in Nat
             /\ SumUpto(ahead, n) <= SumUpto(ahead2, n) /\ SumUpto(passed, n) <= SumUpto(passed2, n)
  <2>1. \A q \in 1..n : ahead[q] <= ahead2[q] /\ passed[q] <= passed2[q]
    <3>1. ASSUME NEW q \in 1..n PROVE ahead[q] <= ahead2[q] /\ passed[q] <= passed2[q]
      <4>1. q \in Partitions
        BY <1>0
      <4>. QED
        BY <1>1, <4>1
    <3>. QED
      BY <3>1
  <2>. QED
    BY <1>1, <2>1, SumIs, SumsLeq
<1>5. ASSUME NEW q \in todo, NEW i \in 1..sizes2[q], count + SumUpto(ahead2, q - 1) + i <= start
      PROVE  items2[q][i] \subseteq known2
  <2>1. /\ q \in Partitions /\ q \in 0..LastPartition /\ q - 1 \in 0..LastPartition /\ i \in Nat
        /\ LastPartition \in q..LastPartition /\ LastPartition \in 0..LastPartition
    BY <1>0, <1>1
  <2>2. count + SumUpto(ahead, q - 1) + i <= start
    BY <1>4, <1>5, <2>1
  <2>3. CASE i <= sizes[q]
    <3>1. i \in 1..sizes[q]
      BY <1>1, <2>1, <2>3
    <3>2. items[q][i] \subseteq known /\ items2[q][i] \subseteq items[q][i] \cup known2
      BY <1>2, <1>3, <2>1, <2>2, <3>1
    <3>. QED
      BY <1>2, <3>2
  <2>4. CASE i > sizes[q]
    <3>1. \E r \in Partitions : r > q /\ sizes[r] > 0
      <4>. SUFFICES ASSUME \A r \in Partitions : r > q => ~(sizes[r] > 0) PROVE FALSE
        OBVIOUS
      <4>1. ASSUME NEW r \in (q + 1)..LastPartition PROVE ahead[r] = 0
        <5>1. r \in Partitions /\ r > q
          BY <1>0, <2>1
        <5>. QED
          BY <1>1, <5>1
      <4>2. SumUpto(ahead, LastPartition) = SumUpto(ahead, q)
        BY <1>1, <2>1, <4>1, SumGrows
      <4>3. SumUpto(ahead, q) = SumUpto(ahead, q - 1) + sizes[q]
        BY <1>1, <2>1, SumIs
      <4>. QED
        BY <1>1, <1>3, <1>4, <2>1, <2>2, <2>4, <4>2, <4>3
    <3>. QED
      BY <1>2, <2>1, <2>4, <3>1
  <2>. QED
    BY <1>1, <2>1, <2>3, <2>4
<1>6. start <= count + SumUpto(ahead2, LastPartition)
  <2>1. LastPartition \in 0..LastPartition
    BY <1>0
  <2>. QED
    BY <1>3, <1>4, <2>1
<1>7. ASSUME NEW t \in todo, NEW q \in Partitions \ todo, q < t, NEW i \in 1..sizes2[q]
      PROVE  items2[q][i] \subseteq known2 \cup lines
  <2>1. i \in Nat /\ (i > sizes[q] \/ i \in 1..sizes[q])
    BY <1>1
  <2>2. CASE i \in 1..sizes[q]
    <3>1. items[q][i] \subseteq known \cup lines /\ items2[q][i] \subseteq items[q][i] \cup known2
      BY <1>2, <1>3, <1>7, <2>2
    <3>. QED
      BY <1>2, <3>1
  <2>3. CASE i > sizes[q]
    BY <1>7, <2>3
  <2>. QED
    BY <2>1, <2>2, <2>3
<1>8. ASSUME NEW n \in Partitions, \A t \in todo : t <= n, todo # {}
      PROVE  count <= SumUpto(passed2, n)
  <2>1. n \in 0..LastPartition /\ count <= SumUpto(passed, n)
    BY <1>0, <1>3, <1>8
  <2>. QED
    BY <1>4, <2>1
<1>9. ASSUME todo = {} PROVE Covers(sizes2, items2, known2 \cup lines, count)
  <2>1. lines \subseteq known2 \cup lines
    OBVIOUS
  <2>2. Covers(sizes, items, known \cup lines, count)
    BY <1>3, <1>9
  <2>3. /\ sizes \in Numbers /\ sizes2 \in Numbers /\ count \in Nat
        /\ Grown(sizes, items, known, sizes2, items2, known2)
    OBVIOUS
  <2>. QED
    BY ONLY <2>1, <2>2, <2>3, CoversGrow
<1>. QED
  BY <1>5, <1>6, <1>7, <1>8, <1>9 DEF Reads, ahead2, passed2

\* A run begins with all partitions that have lines.
LEMMA ReadsBegin ==
    ASSUME NEW sizes \in Numbers, NEW items, NEW known, NEW todo \in SUBSET Partitions,
           NEW start \in Nat, Covers(sizes, items, known, start),
           \A q \in Partitions \ todo : sizes[q] = 0
    PROVE  Reads(sizes, items, known, {}, todo, 0, start)
<1>0. LastPartition \in Nat \ {0} /\ Partitions = 1..LastPartition
  BY PipelineAssumption DEF Partitions
<1>1. Ahead(sizes, todo) = sizes
  <2>1. \A q \in Partitions : Ahead(sizes, todo)[q] = sizes[q]
    BY AheadIs
  <2>. QED
    BY <2>1, AheadIs DEF Numbers
<1>2. /\ start <= SumUpto(sizes, LastPartition)
      /\ \A q \in Partitions : \A i \in 1..sizes[q] : SumUpto(sizes, q - 1) + i <= start => items[q][i] \subseteq known
  BY DEF Covers
<1>3. \A n \in 0..LastPartition : SumUpto(sizes, n) \in Nat /\ SumUpto(Passed(sizes, todo), n) \in Nat
  BY SumIs, AheadIs
<1>4. ASSUME NEW q \in todo, NEW i \in 1..sizes[q], 0 + SumUpto(Ahead(sizes, todo), q - 1) + i <= start
      PROVE  items[q][i] \subseteq known
  <2>1. q \in Partitions /\ q - 1 \in 0..LastPartition
    BY <1>0
  <2>2. SumUpto(sizes, q - 1) + i <= start
    BY <1>1, <1>3, <1>4, <2>1
  <2>. QED
    BY <1>2, <2>1, <2>2
<1>5. start <= 0 + SumUpto(Ahead(sizes, todo), LastPartition)
  <2>1. LastPartition \in 0..LastPartition
    BY <1>0
  <2>. QED
    BY <1>1, <1>2, <1>3, <2>1
<1>6. \A t \in todo, q \in Partitions \ todo : q < t => \A i \in 1..sizes[q] : items[q][i] \subseteq known \cup {}
  <2>1. ASSUME NEW q \in Partitions \ todo PROVE 1..sizes[q] = {}
    BY <2>1
  <2>. QED
    BY <2>1
<1>7. ASSUME NEW n \in Partitions PROVE 0 <= SumUpto(Passed(sizes, todo), n)
  <2>1. n \in 0..LastPartition
    BY <1>0
  <2>. QED
    BY <1>3, <2>1
<1>8. ASSUME todo = {} PROVE Covers(sizes, items, known \cup {}, 0)
  <2>1. \A q \in Partitions : 1..sizes[q] = {}
    <3>1. ASSUME NEW q \in Partitions PROVE 1..sizes[q] = {}
      <4>1. sizes[q] = 0
        BY <1>8
      <4>. QED
        BY <4>1
    <3>. QED
      BY <3>1
  <2>2. LastPartition \in 0..LastPartition
    BY <1>0
  <2>3. 0 <= SumUpto(sizes, LastPartition)
    BY <1>3, <2>2
  <2>. QED
    BY <2>1, <2>3 DEF Covers
<1>. QED
  BY <1>4, <1>5, <1>6, <1>7, <1>8 DEF Reads

\* The next partition: its lines behind the start are read, or known.
LEMMA ReadsOn ==
    ASSUME NEW sizes \in Numbers, NEW items, NEW known, NEW known2, NEW lines, NEW lines2,
           NEW todo \in SUBSET Partitions, NEW count \in Nat, NEW start \in Nat,
           NEW p \in todo, \A q \in todo : p <= q, known \subseteq known2, lines \subseteq lines2,
           \A i \in 1..sizes[p] : count + i > start => items[p][i] \subseteq known2 \cup lines2,
           Reads(sizes, items, known, lines, todo, count, start)
    PROVE  Reads(sizes, items, known2, lines2, todo \ {p}, count + sizes[p], start)
<1>0. /\ LastPartition \in Nat \ {0} /\ Partitions = 1..LastPartition
      /\ LastPartition \in 0..LastPartition /\ LastPartition \in Partitions
  BY PipelineAssumption DEF Partitions
<1>. DEFINE rest == todo \ {p}
            ahead == Ahead(sizes, todo)
            ahead2 == Ahead(sizes, rest)
            passed == Passed(sizes, todo)
            passed2 == Passed(sizes, rest)
<1>1. /\ ahead \in Numbers /\ ahead2 \in Numbers /\ passed \in Numbers /\ passed2 \in Numbers
      /\ \A q \in Partitions :
            /\ sizes[q] \in Nat
            /\ ahead[q] = IF q \in todo THEN sizes[q] ELSE 0
            /\ ahead2[q] = IF q \in rest THEN sizes[q] ELSE 0
            /\ passed[q] = IF q \in todo THEN 0 ELSE sizes[q]
            /\ passed2[q] = IF q \in rest THEN 0 ELSE sizes[q]
  BY AheadIs
<1>2. /\ \A q \in todo : \A i \in 1..sizes[q] :
            count + SumUpto(ahead, q - 1) + i <= start => items[q][i] \subseteq known
      /\ start <= count + SumUpto(ahead, LastPartition)
      /\ \A t \in todo, q \in Partitions \ todo :
            q < t => \A i \in 1..sizes[q] : items[q][i] \subseteq known \cup lines
      /\ \A n \in Partitions : (\A t \in todo : t <= n) /\ todo # {} => count <= SumUpto(passed, n)
  BY DEF Reads
<1>3. p \in Partitions /\ p \in Nat /\ sizes[p] \in Nat /\ count + sizes[p] \in Nat
  BY <1>0, <1>1
<1>. HIDE DEF ahead, ahead2, passed, passed2
<1>4. /\ \A q \in Partitions \ {p} : ahead2[q] = ahead[q] /\ passed2[q] = passed[q]
      /\ ahead[p] = sizes[p] /\ ahead2[p] = 0 /\ passed[p] = 0 /\ passed2[p] = sizes[p]
  BY <1>1, <1>3
<1>5. ASSUME NEW n \in 0..LastPartition
      PROVE  /\ SumUpto(ahead, n) \in Nat /\ SumUpto(passed, n) \in Nat
             /\ n < p => SumUpto(ahead2, n) = SumUpto(ahead, n)
             /\ n >= p => /\ SumUpto(ahead2, n) = SumUpto(ahead, n) - sizes[p]
                          /\ SumUpto(passed2, n) = SumUpto(passed, n) + sizes[p]
  <2>1. SumUpto(ahead2, n) = IF n < p THEN SumUpto(ahead, n) ELSE SumUpto(ahead, n) + (ahead2[p] - ahead[p])
    BY <1>1, <1>3, <1>4, SumDiffers
  <2>2. SumUpto(passed2, n) = IF n < p THEN SumUpto(passed, n) ELSE SumUpto(passed, n) + (passed2[p] - passed[p])
    BY <1>1, <1>3, <1>4, SumDiffers
  <2>3. SumUpto(ahead, n) \in Nat /\ SumUpto(passed, n) \in Nat
    BY <1>1, SumIs
  <2>. QED
    BY <1>0, <1>3, <1>4, <2>1, <2>2, <2>3
<1>6. ASSUME NEW q \in rest, NEW i \in 1..sizes[q],
             count + sizes[p] + SumUpto(ahead2, q - 1) + i <= start
      PROVE  items[q][i] \subseteq known2
  <2>1. q \in Partitions /\ q - 1 \in 0..LastPartition /\ q - 1 >= p /\ i \in Nat
    BY <1>0, <1>1, <1>3
  <2>2. count + SumUpto(ahead, q - 1) + i <= start
    BY <1>3, <1>5, <1>6, <2>1
  <2>. QED
    BY <1>2, <2>2
<1>7. start <= count + sizes[p] + SumUpto(ahead2, LastPartition)
  <2>1. LastPartition >= p
    BY <1>0, <1>3
  <2>2. /\ SumUpto(ahead2, LastPartition) = SumUpto(ahead, LastPartition) - sizes[p]
        /\ SumUpto(ahead, LastPartition) \in Nat
    BY <1>0, <1>5, <2>1
  <2>3. start <= count + SumUpto(ahead, LastPartition)
    BY <1>2
  <2>. QED
    BY <1>3, <2>2, <2>3
<1>8. ASSUME NEW i \in 1..sizes[p] PROVE items[p][i] \subseteq known2 \cup lines2
  <2>1. CASE count + i > start
    BY <2>1
  <2>2. CASE ~(count + i > start)
    <3>1. p - 1 \in 0..LastPartition /\ p - 1 < p /\ i \in Nat
      BY <1>0, <1>3
    <3>2. SumUpto(ahead, p - 1) = 0
      <4>1. \A q \in (0 + 1)..(p - 1) : ahead[q] = 0
        <5>1. ASSUME NEW q \in (0 + 1)..(p - 1) PROVE ahead[q] = 0
          <6>1. q \in Partitions /\ q \notin todo
            BY <1>0, <1>3
          <6>. QED
            BY <1>1, <6>1
        <5>. QED
          BY <5>1
      <4>2. 0 \in 0..LastPartition /\ p - 1 \in 0..LastPartition
        BY <1>0, <3>1
      <4>3. SumUpto(ahead, p - 1) = SumUpto(ahead, 0)
        BY <1>1, <4>1, <4>2, SumGrows
      <4>. QED
        BY <1>1, <4>3, SumIs
    <3>3. count + SumUpto(ahead, p - 1) + i <= start
      BY <2>2, <3>1, <3>2
    <3>. QED
      BY <1>2, <3>3
  <2>. QED
    BY <2>1, <2>2
<1>9. ASSUME NEW t \in rest, NEW q \in Partitions \ rest, q < t, NEW i \in 1..sizes[q]
      PROVE  items[q][i] \subseteq known2 \cup lines2
  <2>1. CASE q = p
    BY <1>8, <2>1
  <2>2. CASE q # p
    <3>1. q \in Partitions \ todo /\ t \in todo
      BY <2>2
    <3>2. items[q][i] \subseteq known \cup lines
      BY <1>2, <1>9, <3>1
    <3>. QED
      BY <3>2
  <2>. QED
    BY <2>1, <2>2
<1>10. ASSUME NEW n \in Partitions, \A t \in rest : t <= n, rest # {}
       PROVE  count + sizes[p] <= SumUpto(passed2, n)
  <2>1. PICK t \in rest : TRUE
    BY <1>10
  <2>2. t \in Partitions /\ p <= t /\ t <= n
    BY <1>10, <2>1
  <2>3. p <= n /\ n \in 0..LastPartition /\ \A u \in todo : u <= n
    BY <1>0, <1>3, <1>10, <2>2
  <2>4. count <= SumUpto(passed, n)
    BY <1>2, <2>3
  <2>5. SumUpto(passed2, n) = SumUpto(passed, n) + sizes[p] /\ SumUpto(passed, n) \in Nat
    BY <1>3, <1>5, <2>3
  <2>. QED
    BY <1>3, <2>4, <2>5
<1>11. ASSUME rest = {} PROVE Covers(sizes, items, known2 \cup lines2, count + sizes[p])
  <2>a. todo = {p}
    BY <1>11
  <2>1. todo = {p} /\ p \in 0..LastPartition
    BY <1>0, <1>3, <2>a
  <2>2. count <= SumUpto(passed, p)
    BY <1>2, <1>3, <2>1
  <2>3. passed2 = sizes
    <3>1. \A q \in Partitions : passed2[q] = sizes[q]
      BY <1>1, <1>11
    <3>. QED
      BY <1>1, <3>1 DEF Numbers
  <2>4. count + sizes[p] <= SumUpto(sizes, p)
    BY <1>3, <1>5, <2>1, <2>2, <2>3
  <2>5. \A n \in 0..LastPartition : SumUpto(sizes, n) \in Nat
    BY SumIs
  <2>6. ASSUME NEW n \in p..LastPartition PROVE SumUpto(sizes, p) <= SumUpto(sizes, n)
    BY <2>1, SumGrows
  <2>7. count + sizes[p] <= SumUpto(sizes, LastPartition)
    <3>1. LastPartition \in p..LastPartition
      BY <1>0, <1>3
    <3>. QED
      BY <1>0, <1>3, <2>1, <2>4, <2>5, <2>6, <3>1
  <2>8. ASSUME NEW q \in Partitions, NEW i \in 1..sizes[q], SumUpto(sizes, q - 1) + i <= count + sizes[p]
        PROVE  items[q][i] \subseteq known2 \cup lines2
    <3>1. q - 1 \in 0..LastPartition /\ i \in Nat /\ i >= 1 /\ q \in Nat
      BY <1>0, <1>1
    <3>2. q <= p
      <4>1. SUFFICES ASSUME q > p PROVE FALSE
        BY <1>3, <3>1
      <4>2. q - 1 \in p..LastPartition
        BY <1>0, <1>3, <3>1, <4>1
      <4>3. SumUpto(sizes, p) <= SumUpto(sizes, q - 1)
        BY <2>6, <4>2
      <4>. QED
        BY <1>3, <2>1, <2>4, <2>5, <2>8, <3>1, <4>3
    <3>3. CASE q = p
      BY <1>8, <3>3
    <3>4. CASE q # p
      <4>1. q < p /\ q \in Partitions \ todo
        BY <1>3, <2>1, <3>1, <3>2, <3>4
      <4>2. items[q][i] \subseteq known \cup lines
        BY <1>2, <2>1, <4>1
      <4>. QED
        BY <4>2
    <3>. QED
      BY <3>3, <3>4
  <2>. QED
    BY <2>7, <2>8 DEF Covers
<1>. QED
  BY <1>6, <1>7, <1>9, <1>10, <1>11 DEF Reads, ahead2, passed2

\* After the last one: the run has counted what there is, from its start at least.
LEMMA ReadsEnd ==
    ASSUME NEW sizes \in Numbers, NEW items, NEW known, NEW lines, NEW count \in Nat, NEW start \in Nat,
           Reads(sizes, items, known, lines, {}, count, start)
    PROVE  start <= count /\ Covers(sizes, items, known \cup lines, count)
<1>0. LastPartition \in Nat \ {0} /\ Partitions = 1..LastPartition
  BY PipelineAssumption DEF Partitions
<1>1. /\ start <= count + SumUpto(Ahead(sizes, {}), LastPartition)
      /\ Covers(sizes, items, known \cup lines, count)
  BY DEF Reads
<1>2. Ahead(sizes, {}) \in Numbers /\ \A q \in (0 + 1)..LastPartition : Ahead(sizes, {})[q] = 0
  BY <1>0, AheadIs
<1>3. 0 \in 0..LastPartition /\ LastPartition \in 0..LastPartition
  BY <1>0
<1>4. SumUpto(Ahead(sizes, {}), LastPartition) = SumUpto(Ahead(sizes, {}), 0)
  BY <1>2, <1>3, SumGrows
<1>5. SumUpto(Ahead(sizes, {}), 0) = 0
  BY <1>2, SumIs
<1>. QED
  BY <1>1, <1>4, <1>5

-----------------------------------------------------------------------------
(* The invariant. *)

FileLines == Records \cup {"torn"}

HandStates ==
    [partition : Partitions, line : Records, content : Seq(FileLines),
     phase : {"open", "half", "read", "deleted"}, clean : BOOLEAN]

JobStates ==
    [phase : {"off", "requested", "reading", "read", "created"}, start : Nat,
     todo : SUBSET Partitions, count : Nat, lines : SUBSET Records]

PipelineTyped ==
    /\ PipelineTypeOK
    /\ hand \in [Writers -> HandStates \cup {NoHand}]
    /\ job \in [Jobs -> JobStates]

\* Where a writer can be in append() depends on the storage.  A local file exists as
\* soon as one has opened it.
HandInv ==
    \A w \in Writers :
        /\ hand[w].phase \in {"open", "half"} => backend = "local"
        /\ hand[w].phase \in {"read", "deleted"} =>
              backend = "storage" /\ hand[w].line \in ToSet(hand[w].content)

\* The file of a writer within a line: it ends with the line's part.
HalfWritten(w) ==
    LET p == hand[w].partition IN
    /\ p \in partial
    /\ file[p] # <<>>
    /\ Last(file[p]) \in IF hand[w].clean THEN {"torn", hand[w].line} ELSE {"torn"}
    /\ \A v \in Writers \ {w} : hand[v].phase = "half" => hand[v].partition # p

\* A local file is there when it has lines; a part is the last of them.  A line that was
\* written is in a file, and no part that another one would continue.
LocalInv ==
    backend = "local" =>
        /\ \A w \in Writers : hand[w].phase = "half" => HalfWritten(w)
        /\ \A p \in Partitions : file[p] # <<>> => p \in created
        /\ \A w \in Writers : hand[w].phase # "off" => hand[w].partition \in created
        /\ \A p \in partial : file[p] # <<>>
        /\ \A x \in written \ joined : \E p \in Partitions : \E i \in DOMAIN file[p] :
              file[p][i] = x /\ (p \in partial => i < Len(file[p]))

\* With a storage, as long as no two writers overlapped and none was killed with a file
\* deleted, the content each has read is still there, the file it deleted is missing, and
\* a line that was written is in a file or in the hand of the writer that will save it.
StoreInv ==
    backend = "storage" /\ ~raced =>
        /\ \A w \in Writers : hand[w].phase # "off" =>
              /\ \A v \in Writers \ {w} : hand[v].partition # hand[w].partition
              /\ hand[w].phase = "read" => hand[w].content = Append(file[hand[w].partition], hand[w].line)
              /\ hand[w].phase = "deleted" => file[hand[w].partition] = <<>>
        /\ \A x \in written :
              \/ \E p \in Partitions : x \in ToSet(file[p])
              \/ \E w \in Writers : hand[w].phase = "deleted" /\ x \in ToSet(hand[w].content)

\* The lines of each partition: what is there, and what a writer will complete at the end.
Sizes == [q \in Partitions |-> Len(file[q])]
Items == [q \in Partitions |-> [i \in 1..Len(file[q]) |-> {file[q][i]} \cup {x \in Half(q) : i = Len(file[q])}]]

\* Lines that need no row, have one, or have slipped.
Done == {"torn"} \cup hashless \cup extrinsics \cup slipped

\* What a run that has got as far as state knows.
RunCovers(state) ==
    /\ state.phase = "reading" =>
          Reads(Sizes, Items, Done, state.lines, state.todo, state.count, state.start)
    /\ state.phase = "read" => Covers(Sizes, Items, Done \cup state.lines, state.count)
    /\ state.phase = "created" => Covers(Sizes, Items, Done, state.count)

\* The checkpoint covers what it says, and so will those that runs are going to save.
CoverInv ==
    ~removed /\ backend = "local" =>
        Covers(Sizes, Items, Done, checkpoint) /\ \A j \in Jobs : RunCovers(job[j])

PipelineInv == PipelineTyped /\ HandInv /\ LocalInv /\ StoreInv /\ CoverInv

\* The types, as the steps use them.
LEMMA PipelineTypes ==
    ASSUME PipelineTyped
    PROVE  /\ LastPartition \in Nat \ {0} /\ Partitions = 1..LastPartition
           /\ file \in [Partitions -> Seq(FileLines)]
           /\ created \subseteq Partitions /\ partial \subseteq Partitions /\ bytes \in [Partitions -> Nat]
           /\ written \subseteq Records /\ joined \subseteq Records
           /\ slipped \subseteq Records /\ extrinsics \subseteq Records
           /\ checkpoint \in Nat /\ cursor \in Nat /\ keys \subseteq Nat
           /\ hand \in [Writers -> HandStates \cup {NoHand}]
           /\ job \in [Jobs -> JobStates]
           /\ Sizes \in Numbers
           /\ \A q \in Partitions : /\ Sizes[q] = Len(file[q]) /\ Len(file[q]) \in Nat
                                    /\ file[q] \in Seq(FileLines) /\ DOMAIN file[q] = 1..Len(file[q])
<1>1. file \in [Partitions -> Seq(FileLines)]
  BY DEF PipelineTyped, PipelineTypeOK, FileLines
<1>2. Sizes \in Numbers
  BY <1>1 DEF Sizes, Numbers
<1>3. \A q \in Partitions : /\ Sizes[q] = Len(file[q]) /\ Len(file[q]) \in Nat
                            /\ file[q] \in Seq(FileLines) /\ DOMAIN file[q] = 1..Len(file[q])
  BY <1>1 DEF Sizes
<1>4. LastPartition \in Nat \ {0} /\ Partitions = 1..LastPartition
  BY PipelineAssumption DEF Partitions
<1>. QED
  BY <1>1, <1>2, <1>3, <1>4 DEF PipelineTyped, PipelineTypeOK

\* Nobody, and no run.
LEMMA NothingIs ==
    /\ NoHand.phase = "off" /\ NoHand.partition = 0 /\ NoHand \notin HandStates
    /\ NoJob \in JobStates /\ NoJob.phase = "off"
<1>1. NoHand.partition = 0 /\ NoHand.phase = "off"
  BY DEF NoHand
<1>2. 0 \notin Partitions
  BY PipelineAssumption DEF Partitions
<1>. QED
  BY <1>1, <1>2 DEF HandStates, NoJob, JobStates

\* A writer in append() has a partition and a line.
LEMMA HandIs ==
    ASSUME PipelineTyped, NEW w \in Writers
    PROVE  /\ hand[w].phase \in {"off", "open", "half", "read", "deleted"}
           /\ hand[w].phase # "off" =>
                 /\ hand[w] \in HandStates /\ hand[w].partition \in Partitions
                 /\ hand[w].line \in Records /\ hand[w].content \in Seq(FileLines)
                 /\ hand[w].clean \in BOOLEAN
           /\ hand[w].phase = "off" => hand[w] = NoHand
           /\ hand[w].partition # 0 => hand[w].phase # "off"
<1>1. hand[w] \in HandStates \cup {NoHand}
  BY PipelineTypes
<1>. QED
  BY <1>1, NothingIs DEF HandStates

\* What the new types come down to when one writer moves.
LEMMA HandMoves ==
    ASSUME PipelineTyped, NEW w \in Writers, NEW state \in HandStates \cup {NoHand},
           hand' = [hand EXCEPT ![w] = state],
           file' \in [Partitions -> Seq(FileLines)], bytes' \in [Partitions -> Nat],
           created' \subseteq Partitions, partial' \subseteq Partitions,
           written' \subseteq Records, joined' \subseteq Records, slipped' \subseteq Records,
           UNCHANGED dagster
    PROVE  PipelineTyped' /\ hand'[w] = state /\ \A v \in Writers \ {w} : hand'[v] = hand[v]
<1>1. /\ hand' \in [Writers -> HandStates \cup {NoHand}]
      /\ hand'[w] = state /\ \A v \in Writers \ {w} : hand'[v] = hand[v]
  BY PipelineTypes
<1>2. \A v \in Writers : hand'[v].phase \in {"off", "open", "half", "read", "deleted"}
  <2>1. \A v \in Writers : hand'[v] \in HandStates \cup {NoHand}
    BY <1>1
  <2>. QED
    BY <2>1, NothingIs DEF HandStates
<1>3. \A j \in Jobs : job[j].phase \in {"off", "requested", "reading", "read", "created"}
  BY DEF PipelineTyped, PipelineTypeOK
<1>. QED
  BY <1>1, <1>2, <1>3 DEF PipelineTyped, PipelineTypeOK, dagster, FileLines

\* At the start there are no lines, no writers and no runs.
LEMMA PipelineInitially == Init => PipelineInv
<1>. SUFFICES ASSUME NEW kind \in {"local", "storage"}, NEW blank \in SUBSET Records, InitWith(kind, blank)
              PROVE  PipelineInv
  BY DEF Init
<1>1. PipelineTyped
  BY NothingIs DEF InitWith, PipelineTyped, PipelineTypeOK
<1>2. HandInv /\ LocalInv /\ StoreInv
  BY NothingIs DEF InitWith, HandInv, LocalInv, StoreInv
<1>3. Covers(Sizes, Items, Done, checkpoint)
  <2>1. \A q \in Partitions : Sizes[q] = 0
    BY DEF InitWith, Sizes
  <2>2. \A q \in Partitions : 1..Sizes[q] = {}
    <3>1. ASSUME NEW q \in Partitions PROVE 1..Sizes[q] = {}
      <4>1. Sizes[q] = 0
        BY <2>1
      <4>. QED
        BY <4>1
    <3>. QED
      BY <3>1
  <2>3. checkpoint <= SumUpto(Sizes, LastPartition)
    <3>1. LastPartition \in 0..LastPartition /\ checkpoint = 0
      BY PipelineAssumption DEF InitWith
    <3>2. SumUpto(Sizes, LastPartition) \in Nat
      BY <1>1, <3>1, PipelineTypes, SumIs
    <3>. QED
      BY <3>1, <3>2
  <2>. QED
    BY <2>2, <2>3 DEF Covers
<1>4. \A j \in Jobs : RunCovers(job[j])
  BY NothingIs DEF InitWith, RunCovers
<1>. QED
  BY <1>1, <1>2, <1>3, <1>4 DEF PipelineInv, CoverInv

-----------------------------------------------------------------------------
(* Runs and ticks leave the disk alone. *)

\* More lines are known than before, and one run, if any, has got on.
LEMMA RunKeeps ==
    ASSUME PipelineInv, NEW j \in Jobs, NEW state \in JobStates, job' = [job EXCEPT ![j] = state],
           UNCHANGED <<disk, removed>>, Done \subseteq Done',
           extrinsics' \subseteq Records, slipped' \subseteq Records,
           checkpoint' \in Nat, cursor' \in Nat, keys' \subseteq Nat,
           ~removed /\ backend = "local" =>
              /\ Covers(Sizes, Items, Done', checkpoint')
              /\ state.phase = "reading" =>
                    Reads(Sizes, Items, Done', state.lines, state.todo, state.count, state.start)
              /\ state.phase = "read" => Covers(Sizes, Items, Done' \cup state.lines, state.count)
              /\ state.phase = "created" => Covers(Sizes, Items, Done', state.count)
    PROVE  PipelineInv'
<1>1. PipelineTyped /\ HandInv /\ LocalInv /\ StoreInv /\ CoverInv
  BY DEF PipelineInv
<1>2. UNCHANGED <<hashless, backend, file, created, partial, bytes, written, hand, raced, joined, removed>>
  BY DEF disk
<1>3. job' \in [Jobs -> JobStates] /\ job'[j] = state /\ \A i \in Jobs \ {j} : job'[i] = job[i]
  BY <1>1, PipelineTypes
<1>4. PipelineTyped'
  <2>1. \A i \in Jobs : job'[i].phase \in {"off", "requested", "reading", "read", "created"}
    BY <1>3 DEF JobStates
  <2>. QED
    BY <1>1, <1>2, <1>3, <2>1 DEF PipelineTyped, PipelineTypeOK
<1>5. HandInv' /\ LocalInv' /\ StoreInv'
  BY <1>1, <1>2 DEF HandInv, LocalInv, StoreInv, HalfWritten
<1>6. Sizes' = Sizes /\ Items' = Items
  BY <1>2 DEF Sizes, Items, Half
<1>7. ASSUME ~removed, backend = "local", NEW i \in Jobs PROVE RunCovers(job[i])'
  <2>1. CASE i = j
    BY <1>3, <1>6, <1>7, <2>1 DEF RunCovers
  <2>2. CASE i # j
    <3>1. job'[i] = job[i] /\ RunCovers(job[i])
      BY <1>1, <1>3, <1>7, <2>2 DEF CoverInv
    <3>2. /\ job[i].count \in Nat /\ job[i].start \in Nat /\ job[i].todo \in SUBSET Partitions
          /\ Sizes \in Numbers /\ \A q \in Partitions : Sizes[q] \in Nat
      BY <1>1, PipelineTypes DEF JobStates
    <3>3. Grown(Sizes, Items, Done, Sizes, Items, Done')
      BY <3>2 DEF Grown
    <3>4. \A q \in Partitions : \A k \in 1..Sizes[q] : ~(k > Sizes[q])
      BY <3>2
    <3>5. job[i].phase = "reading" =>
             Reads(Sizes, Items, Done', job[i].lines, job[i].todo, job[i].count, job[i].start)
      BY <3>1, <3>2, <3>3, <3>4, ReadsGrow DEF RunCovers
    <3>6. ASSUME job[i].phase = "read" PROVE Covers(Sizes, Items, Done' \cup job[i].lines, job[i].count)
      <4>1. Covers(Sizes, Items, Done \cup job[i].lines, job[i].count)
        BY <3>1, <3>6 DEF RunCovers
      <4>2. job[i].lines \subseteq Done' \cup job[i].lines
        OBVIOUS
      <4>. QED
        BY <3>2, <3>3, <4>1, <4>2, CoversGrow
    <3>7. ASSUME job[i].phase = "created" PROVE Covers(Sizes, Items, Done', job[i].count)
      <4>1. Covers(Sizes, Items, Done \cup {}, job[i].count)
        <5>1. Done \cup {} = Done
          OBVIOUS
        <5>. QED
          BY <3>1, <3>7, <5>1 DEF RunCovers
      <4>2. {} \subseteq Done' \cup {} /\ Done' \cup {} = Done'
        OBVIOUS
      <4>3. Covers(Sizes, Items, Done' \cup {}, job[i].count)
        BY <3>2, <3>3, <4>1, <4>2, CoversGrow
      <4>. QED
        BY <4>2, <4>3
    <3>. QED
      BY <1>6, <3>1, <3>5, <3>6, <3>7 DEF RunCovers
  <2>. QED
    BY <2>1, <2>2
<1>8. CoverInv'
  BY <1>2, <1>6, <1>7 DEF CoverInv
<1>. QED
  BY <1>4, <1>5, <1>8 DEF PipelineInv

\* What the steps of a run have in common.
LEMMA RunIs ==
    ASSUME PipelineInv, NEW j \in Jobs
    PROVE  /\ PipelineTyped /\ Sizes \in Numbers
           /\ job[j] \in JobStates
           /\ job[j].todo \in SUBSET Partitions /\ job[j].count \in Nat /\ job[j].start \in Nat
           /\ job[j].lines \in SUBSET Records
           /\ checkpoint \in Nat /\ cursor \in Nat /\ keys \subseteq Nat
           /\ extrinsics \subseteq Records /\ slipped \subseteq Records
           /\ ~removed /\ backend = "local" => Covers(Sizes, Items, Done, checkpoint) /\ RunCovers(job[j])
           /\ NoJob \in JobStates /\ NoJob.phase = "off"
           /\ [NoJob EXCEPT !.phase = "requested"] \in JobStates
           /\ [NoJob EXCEPT !.phase = "requested"].phase = "requested"
<1>1. PipelineTyped /\ CoverInv
  BY DEF PipelineInv
<1>2. job[j] \in JobStates
  BY <1>1, PipelineTypes
<1>3. [NoJob EXCEPT !.phase = "requested"] \in JobStates /\ [NoJob EXCEPT !.phase = "requested"].phase = "requested"
  BY DEF NoJob, JobStates
<1>. QED
  BY <1>1, <1>2, <1>3, PipelineTypes, NothingIs DEF JobStates, CoverInv

\* A run is requested, killed, or stays where it is.
LEMMA TurnsKeep ==
    ASSUME PipelineInv, NEW j \in Jobs,
           NEW state \in {job[j], NoJob, [NoJob EXCEPT !.phase = "requested"]},
           job' = [job EXCEPT ![j] = state],
           UNCHANGED <<disk, slipped, removed, checkpoint, extrinsics>>, cursor' \in Nat, keys' \subseteq Nat
    PROVE  PipelineInv'
<1>1. Done' = Done
  BY DEF Done, disk
<1>2. state \in JobStates
  BY RunIs
<1>3. ~removed /\ backend = "local" =>
         /\ Covers(Sizes, Items, Done', checkpoint')
         /\ state.phase = "reading" =>
               Reads(Sizes, Items, Done', state.lines, state.todo, state.count, state.start)
         /\ state.phase = "read" => Covers(Sizes, Items, Done' \cup state.lines, state.count)
         /\ state.phase = "created" => Covers(Sizes, Items, Done', state.count)
  BY <1>1, RunIs DEF RunCovers
<1>4. /\ Done \subseteq Done' /\ extrinsics' \subseteq Records /\ slipped' \subseteq Records /\ checkpoint' \in Nat
      /\ UNCHANGED <<disk, removed>>
  BY <1>1, RunIs
<1>. QED
  BY <1>2, <1>3, <1>4, RunKeeps

LEMMA TicksKeep == ASSUME PipelineInv, SensorTick \/ HourlyTick PROVE PipelineInv'
<1>1. "sensor" \in Jobs /\ "hourly" \in Jobs
  BY DEF Jobs
<1>2. job \in [Jobs -> JobStates] /\ job = [job EXCEPT !["sensor"] = job["sensor"]]
  BY PipelineTypes DEF PipelineInv
<1>3. ASSUME HourlyTick PROVE PipelineInv'
  <2>1. /\ job' = [job EXCEPT !["hourly"] = [NoJob EXCEPT !.phase = "requested"]]
        /\ UNCHANGED <<disk, slipped, removed, checkpoint, extrinsics>> /\ cursor' = cursor /\ keys' = keys
    BY <1>3 DEF HourlyTick, SetJob
  <2>. QED
    BY <1>1, <2>1, RunIs, TurnsKeep
<1>4. ASSUME SensorTick PROVE PipelineInv'
  <2>1. Size \in Nat
    <3>1. bytes \in Numbers /\ LastPartition \in 0..LastPartition
      BY PipelineTypes DEF PipelineInv, Numbers
    <3>. QED
      BY <3>1, SumIs DEF Size
  <2>2. /\ UNCHANGED <<disk, slipped, removed, checkpoint, extrinsics>>
        /\ cursor' = Size /\ keys' \in {keys, keys \cup {Size}}
        /\ \/ job' = job
           \/ job' = [job EXCEPT !["sensor"] = [NoJob EXCEPT !.phase = "requested"]]
    BY <1>4 DEF SensorTick, SetJob
  <2>3. cursor' \in Nat /\ keys' \subseteq Nat
    BY <1>1, <2>1, <2>2, RunIs
  <2>4. CASE job' = job
    <3>1. job' = [job EXCEPT !["sensor"] = job["sensor"]]
      BY <1>2, <2>4
    <3>. QED
      BY <1>1, <2>2, <2>3, <3>1, TurnsKeep
  <2>5. CASE job' = [job EXCEPT !["sensor"] = [NoJob EXCEPT !.phase = "requested"]]
    BY <1>1, <2>2, <2>3, <2>5, TurnsKeep
  <2>. QED
    BY <2>2, <2>4, <2>5
<1>. QED
  BY <1>3, <1>4

LEMMA KillJobKeeps == ASSUME PipelineInv, NEW j \in Jobs, KillJob(j) PROVE PipelineInv'
<1>1. /\ job' = [job EXCEPT ![j] = NoJob]
      /\ UNCHANGED <<disk, slipped, removed, checkpoint, extrinsics>> /\ cursor' = cursor /\ keys' = keys
  BY DEF KillJob, SetJob
<1>. QED
  BY <1>1, RunIs, TurnsKeep

\* A run from line start on, with the files there are.
LEMMA ReadingIs ==
    ASSUME PipelineInv, NEW start \in Nat, ~removed /\ backend = "local" => Covers(Sizes, Items, Done, start)
    PROVE  /\ Reading(start) \in JobStates /\ Reading(start).phase = "reading"
           /\ ~removed /\ backend = "local" =>
                 Reads(Sizes, Items, Done, Reading(start).lines, Reading(start).todo,
                       Reading(start).count, Reading(start).start)
<1>1. PipelineTyped /\ LocalInv
  BY DEF PipelineInv
<1>2. created \in SUBSET Partitions
  BY <1>1, PipelineTypes
<1>3. /\ Reading(start) \in JobStates /\ Reading(start).phase = "reading"
      /\ Reading(start).lines = {} /\ Reading(start).todo = created
      /\ Reading(start).count = 0 /\ Reading(start).start = start
  BY <1>2 DEF Reading, NoJob, JobStates
<1>4. ASSUME ~removed, backend = "local" PROVE Reads(Sizes, Items, Done, {}, created, 0, start)
  <2>1. \A q \in Partitions \ created : Sizes[q] = 0
    BY <1>1, <1>4, PipelineTypes DEF LocalInv
  <2>. QED
    BY <1>1, <1>2, <1>4, <2>1, PipelineTypes, ReadsBegin
<1>. QED
  BY <1>3, <1>4

LEMMA BeginReadKeeps == ASSUME PipelineInv, NEW j \in Jobs, BeginRead(j) PROVE PipelineInv'
<1>1. /\ job' = [job EXCEPT ![j] = Reading(checkpoint)]
      /\ UNCHANGED <<disk, slipped, removed, checkpoint, extrinsics, cursor, keys>>
  BY DEF BeginRead, SetJob
<1>2. Done' = Done
  BY <1>1 DEF Done, disk
<1>3. /\ Reading(checkpoint) \in JobStates /\ Reading(checkpoint).phase = "reading"
      /\ ~removed /\ backend = "local" =>
            Reads(Sizes, Items, Done, Reading(checkpoint).lines, Reading(checkpoint).todo,
                  Reading(checkpoint).count, Reading(checkpoint).start)
  BY RunIs, ReadingIs
<1>. QED
  BY <1>1, <1>2, <1>3, RunIs, RunKeeps

\* What a run reads of a partition, and what it meets half written.
LEMMA ReadPartitionKeeps ==
    ASSUME PipelineInv, NEW j \in Jobs, NEW p \in Partitions, ReadPartition(j, p)
    PROVE  PipelineInv'
<1>. DEFINE unread == {i \in DOMAIN file[p] : job[j].count + i > job[j].start}
            got == {file[p][i] : i \in unread} \ {"torn"}
            state == [job[j] EXCEPT !.todo = job[j].todo \ {p}, !.count = job[j].count + Len(file[p]),
                                    !.lines = job[j].lines \cup got]
<1>1. /\ job[j].phase = "reading" /\ p \in job[j].todo /\ \A q \in job[j].todo : p <= q
      /\ job' = [job EXCEPT ![j] = IF p \in created THEN state ELSE NoJob]
      /\ slipped' = slipped \cup (IF Len(file[p]) \in unread THEN Half(p) ELSE {})
      /\ UNCHANGED <<disk, removed, checkpoint, extrinsics, cursor, keys>>
  BY DEF ReadPartition, SetJob
<1>2. /\ PipelineTyped /\ file[p] \in Seq(FileLines) /\ DOMAIN file[p] = 1..Len(file[p]) /\ Len(file[p]) \in Nat
      /\ Sizes[p] = Len(file[p])
  BY PipelineTypes DEF PipelineInv
<1>3. Half(p) \subseteq Records
  BY <1>2, HandIs DEF Half
<1>4. got \subseteq Records /\ \A i \in unread : file[p][i] \in {"torn"} \cup got
  BY <1>2 DEF FileLines
<1>. HIDE DEF got
<1>5. /\ state \in JobStates /\ state.phase = "reading" /\ state.start = job[j].start
      /\ state.todo = job[j].todo \ {p} /\ state.count = job[j].count + Sizes[p]
      /\ state.lines = job[j].lines \cup got
  <2>1. /\ job[j] \in JobStates /\ job[j].todo \ {p} \in SUBSET Partitions
        /\ job[j].count + Len(file[p]) \in Nat /\ job[j].lines \cup got \in SUBSET Records
    BY <1>2, <1>4, RunIs
  <2>. QED
    BY <1>1, <1>2, <2>1 DEF JobStates
<1>6. /\ slipped' \subseteq Records /\ Done \subseteq Done' /\ {"torn"} \cup slipped' \subseteq Done'
      /\ slipped \subseteq slipped'
  BY <1>1, <1>3, RunIs DEF Done, disk
<1>. HIDE DEF state
<1>7. ASSUME ~removed, backend = "local"
      PROVE  /\ Covers(Sizes, Items, Done', checkpoint)
             /\ Reads(Sizes, Items, Done', state.lines, state.todo, state.count, state.start)
  <2>1. /\ Covers(Sizes, Items, Done, checkpoint)
        /\ Reads(Sizes, Items, Done, job[j].lines, job[j].todo, job[j].count, job[j].start)
    BY <1>1, <1>7, RunIs DEF RunCovers
  <2>2. ASSUME NEW i \in 1..Sizes[p], job[j].count + i > job[j].start
        PROVE  Items[p][i] \subseteq Done' \cup state.lines
    <3>1. i \in unread
      BY <1>2, <2>2
    <3>2. file[p][i] \in {"torn"} \cup state.lines
      BY <1>4, <1>5, <3>1
    <3>3. i = Len(file[p]) => Half(p) \subseteq slipped'
      BY <1>1, <3>1
    <3>4. Items[p][i] = {file[p][i]} \cup {x \in Half(p) : i = Len(file[p])}
      BY <1>2, <2>2 DEF Items
    <3>. QED
      BY <1>6, <3>2, <3>3, <3>4
  <2>3. job[j].lines \subseteq state.lines
    BY <1>5
  <2>4. Reads(Sizes, Items, Done', state.lines, job[j].todo \ {p}, job[j].count + Sizes[p], job[j].start)
    BY <1>1, <1>6, <2>1, <2>2, <2>3, RunIs, ReadsOn
  <2>5. Covers(Sizes, Items, Done', checkpoint)
    BY <1>6, <2>1 DEF Covers
  <2>. QED
    BY <1>5, <2>4, <2>5
<1>8. CASE p \in created
  BY <1>1, <1>5, <1>6, <1>7, <1>8, RunIs, RunKeeps
<1>9. CASE p \notin created
  BY <1>1, <1>6, <1>7, <1>9, RunIs, RunKeeps
<1>. QED
  BY <1>8, <1>9

\* The run that has read everything has read what is before its count.
LEMMA EndReadKeeps == ASSUME PipelineInv, NEW j \in Jobs, EndRead(j) PROVE PipelineInv'
<1>1. /\ job[j].phase = "reading" /\ job[j].todo = {}
      /\ UNCHANGED <<disk, slipped, removed, extrinsics, cursor, keys>>
  BY DEF EndRead
<1>2. Done' = Done
  BY <1>1 DEF Done, disk
<1>3. ASSUME ~removed, backend = "local"
      PROVE  job[j].start <= job[j].count /\ Covers(Sizes, Items, Done \cup job[j].lines, job[j].count)
  <2>1. Reads(Sizes, Items, Done, job[j].lines, {}, job[j].count, job[j].start)
    BY <1>1, <1>3, RunIs DEF RunCovers
  <2>. QED
    BY <2>1, RunIs, ReadsEnd
<1>4. CASE job[j].count < job[j].start /\ checkpoint' = 0 /\ SetJob(j, Reading(0))
  <2>1. ~(~removed /\ backend = "local")
    BY <1>3, <1>4, RunIs
  <2>2. Reading(0) \in JobStates
    BY <2>1, ReadingIs
  <2>3. job' = [job EXCEPT ![j] = Reading(0)] /\ checkpoint' \in Nat
    BY <1>4 DEF SetJob
  <2>. QED
    BY <1>1, <1>2, <2>1, <2>2, <2>3, RunIs, RunKeeps
<1>5. CASE /\ job[j].lines = {} /\ SetJob(j, NoJob)
           /\ checkpoint' = IF job[j].start = job[j].count THEN checkpoint ELSE job[j].count
  <2>1. ~removed /\ backend = "local" => Covers(Sizes, Items, Done, checkpoint')
    <3>1. Done \cup job[j].lines = Done
      BY <1>5
    <3>. QED
      BY <1>3, <1>5, <3>1, RunIs
  <2>2. job' = [job EXCEPT ![j] = NoJob] /\ checkpoint' \in Nat
    BY <1>5, RunIs DEF SetJob
  <2>. QED
    BY <1>1, <1>2, <2>1, <2>2, RunIs, RunKeeps
<1>6. CASE SetJob(j, NoJob) /\ UNCHANGED checkpoint
  <2>1. job' = [job EXCEPT ![j] = NoJob]
    BY <1>6 DEF SetJob
  <2>. QED
    BY <1>1, <1>2, <1>6, <2>1, RunIs, RunKeeps
<1>7. CASE SetJob(j, [job[j] EXCEPT !.phase = "read"]) /\ UNCHANGED checkpoint
  <2>. DEFINE state == [job[j] EXCEPT !.phase = "read"]
  <2>1. state \in JobStates /\ state.phase = "read" /\ state.count = job[j].count /\ state.lines = job[j].lines
    BY RunIs DEF JobStates
  <2>2. job' = [job EXCEPT ![j] = state]
    BY <1>7 DEF SetJob
  <2>. HIDE DEF state
  <2>. QED
    BY <1>1, <1>2, <1>3, <1>7, <2>1, <2>2, RunIs, RunKeeps
<1>. QED
  BY <1>4, <1>5, <1>6, <1>7 DEF EndRead

\* The rows: what the run has read is done.
LEMMA CreateRowsKeeps == ASSUME PipelineInv, NEW j \in Jobs, CreateRows(j) PROVE PipelineInv'
<1>. DEFINE state == [job[j] EXCEPT !.phase = "created"]
<1>1. /\ job[j].phase = "read" /\ extrinsics' = extrinsics \cup (job[j].lines \ hashless)
      /\ job' = [job EXCEPT ![j] = state]
      /\ UNCHANGED <<disk, slipped, removed, checkpoint, cursor, keys>>
  BY DEF CreateRows, SetJob
<1>2. Done' = Done \cup job[j].lines
  BY <1>1 DEF Done, disk
<1>3. state \in JobStates /\ state.phase = "created" /\ state.count = job[j].count
  BY RunIs DEF JobStates
<1>. HIDE DEF state
<1>4. ~removed /\ backend = "local" =>
         Covers(Sizes, Items, Done', checkpoint) /\ Covers(Sizes, Items, Done', state.count)
  <2>1. Covers(Sizes, Items, Done, checkpoint) => Covers(Sizes, Items, Done', checkpoint)
    BY <1>2 DEF Covers
  <2>. QED
    BY <1>1, <1>2, <1>3, <2>1, RunIs DEF RunCovers
<1>5. Done \subseteq Done' /\ extrinsics' \subseteq Records
  BY <1>1, <1>2, RunIs
<1>. QED
  BY <1>1, <1>3, <1>4, <1>5, RunIs, RunKeeps

\* The count becomes the checkpoint, whatever has been appended or saved meanwhile.
LEMMA SaveCheckpointKeeps == ASSUME PipelineInv, NEW j \in Jobs, SaveCheckpoint(j) PROVE PipelineInv'
<1>1. /\ job[j].phase = "created" /\ checkpoint' = job[j].count /\ job' = [job EXCEPT ![j] = NoJob]
      /\ UNCHANGED <<disk, slipped, removed, extrinsics, cursor, keys>>
  BY DEF SaveCheckpoint, NextCheckpoint, SetJob
<1>2. Done' = Done
  BY <1>1 DEF Done, disk
<1>3. ~removed /\ backend = "local" => Covers(Sizes, Items, Done', checkpoint')
  BY <1>1, <1>2, RunIs DEF RunCovers
<1>. QED
  BY <1>1, <1>2, <1>3, RunIs, RunKeeps

-----------------------------------------------------------------------------
(* append() to a local file. *)

\* The last line is replaced.
LEMMA LastReplaced ==
    ASSUME NEW s \in Seq(FileLines), s # <<>>, NEW x \in FileLines
    PROVE  /\ Append(Front(s), x) \in Seq(FileLines) /\ Append(Front(s), x) # <<>>
           /\ Len(Append(Front(s), x)) = Len(s)
           /\ Last(Append(Front(s), x)) = x
           /\ \A i \in 1..Len(s) : Append(Front(s), x)[i] = IF i = Len(s) THEN x ELSE s[i]
<1>. DEFINE f == Front(s)
<1>1. Len(s) \in Nat \ {0}
  BY EmptySeq, LenProperties
<1>2. f \in Seq(FileLines) /\ Len(f) = Len(s) - 1 /\ \A i \in 1..(Len(s) - 1) : f[i] = s[i]
  <2>. DEFINE n == Len(s) - 1
  <2>1. 1 \in Int /\ n \in Int /\ \A i \in 1..n : s[i] \in FileLines
    BY <1>1
  <2>a. /\ SubSeq(s, 1, n) \in Seq(FileLines)
        /\ Len(SubSeq(s, 1, n)) = IF 1 <= n THEN n - 1 + 1 ELSE 0
        /\ \A i \in 1..(n - 1 + 1) : SubSeq(s, 1, n)[i] = s[1 + i - 1]
    <3>. HIDE DEF n
    <3>. QED
      BY <2>1, SubSeqProperties
  <2>2. /\ SubSeq(s, 1, Len(s) - 1) \in Seq(FileLines)
        /\ Len(SubSeq(s, 1, Len(s) - 1)) = Len(s) - 1
        /\ \A i \in 1..(Len(s) - 1) : SubSeq(s, 1, Len(s) - 1)[i] = s[i]
    <3>1. n = Len(s) - 1 /\ n \in Nat /\ n - 1 + 1 = n /\ (~(1 <= n) => n = 0)
      BY <1>1
    <3>2. Len(SubSeq(s, 1, n)) = n
      BY <2>a, <3>1
    <3>3. \A i \in 1..n : SubSeq(s, 1, n)[i] = s[i]
      <4>1. ASSUME NEW i \in 1..n PROVE 1 + i - 1 = i /\ i \in 1..(n - 1 + 1)
        BY <3>1
      <4>. HIDE DEF n
      <4>. QED
        BY <2>a, <4>1
    <3>. QED
      BY <2>a, <3>2, <3>3
  <2>. QED
    BY <2>2 DEF Front
<1>. HIDE DEF f
<1>3. /\ Append(f, x) \in Seq(FileLines) /\ Len(Append(f, x)) = Len(s)
      /\ \A i \in 1..Len(s) : Append(f, x)[i] = IF i = Len(s) THEN x ELSE s[i]
  BY <1>1, <1>2, AppendProperties
<1>4. Append(f, x) # <<>> /\ Last(Append(f, x)) = x
  BY <1>1, <1>3 DEF Last
<1>. QED
  BY <1>3, <1>4 DEF f

\* The lines of a partition.
LEMMA ItemsAre ==
    \A q \in Partitions : \A i \in 1..Len(file[q]) :
        Items[q][i] = {file[q][i]} \cup {x \in Half(q) : i = Len(file[q])}
<1>. QED
  BY DEF Items

\* What the checkpoint and the runs cover they still do, when files grow at their ends.
LEMMA DiskGrows ==
    ASSUME PipelineTyped, PipelineTyped', CoverInv, UNCHANGED <<backend, removed, checkpoint, job>>,
           ~removed /\ backend = "local" =>
              /\ Grown(Sizes, Items, Done, Sizes', Items', Done')
              /\ \A j \in Jobs : \A t \in job[j].todo, q \in Partitions \ job[j].todo : q < t =>
                    \A i \in 1..Sizes'[q] : i > Sizes[q] => Items'[q][i] \subseteq Done'
    PROVE  CoverInv'
<1>. SUFFICES ASSUME ~removed, backend = "local"
              PROVE  Covers(Sizes', Items', Done', checkpoint) /\ \A j \in Jobs : RunCovers(job[j])'
  BY DEF CoverInv
<1>1. Sizes \in Numbers /\ Sizes' \in Numbers /\ checkpoint \in Nat
  <2>1. file' \in [Partitions -> Seq(FileLines)]
    BY DEF PipelineTyped, PipelineTypeOK, FileLines
  <2>2. Sizes' \in Numbers
    BY <2>1 DEF Sizes, Numbers
  <2>. QED
    BY <2>2, PipelineTypes
<1>2. ASSUME NEW more, NEW k \in Nat, Covers(Sizes, Items, Done \cup more, k)
      PROVE  Covers(Sizes', Items', Done' \cup more, k)
  <2>1. more \subseteq Done' \cup more
    OBVIOUS
  <2>. QED
    BY <1>1, <1>2, <2>1, CoversGrow
<1>3. Done \cup {} = Done /\ Done' \cup {} = Done'
  OBVIOUS
<1>4. ASSUME NEW k \in Nat, Covers(Sizes, Items, Done, k) PROVE Covers(Sizes', Items', Done', k)
  <2>1. Covers(Sizes, Items, Done \cup {}, k)
    BY <1>3, <1>4
  <2>2. Covers(Sizes', Items', Done' \cup {}, k)
    BY <1>2, <2>1
  <2>. QED
    BY <1>3, <2>2
<1>5. Covers(Sizes', Items', Done', checkpoint)
  BY <1>1, <1>4 DEF CoverInv
<1>6. ASSUME NEW j \in Jobs PROVE RunCovers(job[j])'
  <2>1. RunCovers(job[j])
    BY DEF CoverInv
  <2>2. job[j].count \in Nat /\ job[j].start \in Nat /\ job[j].todo \in SUBSET Partitions
    BY PipelineTypes DEF JobStates
  <2>3. job[j].phase = "reading" =>
           Reads(Sizes', Items', Done', job[j].lines, job[j].todo, job[j].count, job[j].start)
    BY <1>1, <2>1, <2>2, ReadsGrow DEF RunCovers
  <2>4. ASSUME job[j].phase = "read" PROVE Covers(Sizes', Items', Done' \cup job[j].lines, job[j].count)
    <3>1. Covers(Sizes, Items, Done \cup job[j].lines, job[j].count)
      BY <2>1, <2>4 DEF RunCovers
    <3>. QED
      BY <1>2, <2>2, <3>1
  <2>5. job[j].phase = "created" => Covers(Sizes', Items', Done', job[j].count)
    BY <1>4, <2>1, <2>2 DEF RunCovers
  <2>. QED
    BY <2>3, <2>4, <2>5 DEF RunCovers
<1>. QED
  BY <1>5, <1>6

\* The files are as before, and nobody has begun a line.
LEMMA FilesStay ==
    ASSUME PipelineTyped, PipelineTyped', CoverInv, UNCHANGED <<hashless, backend, file, slipped, removed, dagster>>,
           NEW w \in Writers, hand'[w].phase # "half", \A v \in Writers \ {w} : hand'[v] = hand[v]
    PROVE  CoverInv'
<1>1. ASSUME NEW q PROVE Half(q)' \subseteq Half(q)
  BY DEF Half
<1>2. Sizes' = Sizes /\ Done' = Done
  BY DEF Sizes, Done, dagster
<1>3. \A q \in Partitions : Sizes[q] \in Nat /\ Sizes[q] = Len(file[q])
  BY PipelineTypes
<1>4. ASSUME NEW q \in Partitions, NEW i \in 1..Sizes[q] PROVE Items'[q][i] \subseteq Items[q][i]
  <2>1. Items[q][i] = {file[q][i]} \cup {x \in Half(q) : i = Len(file[q])}
    BY <1>3, ItemsAre
  <2>2. Items'[q][i] = {file[q][i]} \cup {x \in Half(q)' : i = Len(file[q])}
    BY <1>3 DEF Items
  <2>. QED
    BY <1>1, <2>1, <2>2
<1>5. \A q \in Partitions : \A i \in 1..Sizes[q] : ~(i > Sizes[q])
  BY <1>3
<1>6. Grown(Sizes, Items, Done, Sizes', Items', Done')
  BY <1>2, <1>3, <1>4, <1>5 DEF Grown
<1>. QED
  BY <1>2, <1>5, <1>6, DiskGrows DEF dagster

LEMMA OpenFileKeeps ==
    ASSUME PipelineInv, NEW w \in Writers, NEW p \in Partitions, NEW x \in Records, OpenFile(w, p, x)
    PROVE  PipelineInv'
<1>0. PipelineTyped /\ HandInv /\ LocalInv /\ CoverInv
  BY DEF PipelineInv
<1>. DEFINE state == [partition |-> p, line |-> x, content |-> <<>>, phase |-> "open", clean |-> TRUE]
<1>1. /\ backend = "local" /\ hand[w].phase = "off" /\ hand' = [hand EXCEPT ![w] = state]
      /\ created' = created \cup {p}
      /\ UNCHANGED <<hashless, backend, file, partial, bytes, written, raced, joined, slipped, removed, dagster>>
  BY DEF OpenFile, Hold
<1>2. state \in HandStates /\ state.phase = "open" /\ state.partition = p
  <2>1. <<>> \in Seq(FileLines)
    BY EmptySeq
  <2>. QED
    BY <2>1 DEF HandStates
<1>. HIDE DEF state
<1>3. PipelineTyped' /\ hand'[w] = state /\ \A v \in Writers \ {w} : hand'[v] = hand[v]
  <2>1. created' \subseteq Partitions
    BY <1>0, <1>1, PipelineTypes
  <2>. QED
    BY <1>0, <1>1, <1>2, <2>1, PipelineTypes, HandMoves
<1>4. HandInv' /\ StoreInv'
  BY <1>0, <1>1, <1>2, <1>3 DEF HandInv, StoreInv
<1>5. LocalInv'
  <2>1. ASSUME NEW v \in Writers, hand'[v].phase = "half" PROVE HalfWritten(v)'
    <3>1. v # w /\ hand'[v] = hand[v] /\ HalfWritten(v)
      BY <1>0, <1>1, <1>2, <1>3, <2>1 DEF LocalInv
    <3>2. \A u \in Writers : hand'[u].phase = "half" => hand'[u] = hand[u]
      BY <1>2, <1>3
    <3>. QED
      BY <1>1, <3>1, <3>2 DEF HalfWritten
  <2>. QED
    BY <1>0, <1>1, <1>2, <1>3, <2>1 DEF LocalInv
<1>6. CoverInv'
  BY <1>0, <1>1, <1>2, <1>3, FilesStay
<1>. QED
  BY <1>3, <1>4, <1>5, <1>6 DEF PipelineInv

\* A killed writer: with a storage, one that had only read the file leaves it alone.
LEMMA KillWriterKeeps == ASSUME PipelineInv, NEW w \in Writers, KillWriter(w) PROVE PipelineInv'
<1>0. PipelineTyped /\ HandInv /\ LocalInv /\ StoreInv /\ CoverInv
  BY DEF PipelineInv
<1>1. /\ hand[w].phase # "off" /\ hand' = [hand EXCEPT ![w] = NoHand]
      /\ raced' = (raced \/ hand[w].phase = "deleted")
      /\ UNCHANGED <<hashless, backend, file, created, partial, bytes, written, joined, slipped, removed, dagster>>
  BY DEF KillWriter
<1>2. PipelineTyped' /\ hand'[w] = NoHand /\ \A v \in Writers \ {w} : hand'[v] = hand[v]
  BY <1>0, <1>1, PipelineTypes, HandMoves
<1>3. HandInv'
  BY <1>0, <1>1, <1>2, NothingIs DEF HandInv
<1>4. LocalInv'
  <2>1. ASSUME NEW v \in Writers, hand'[v].phase = "half", backend = "local" PROVE HalfWritten(v)'
    <3>1. v # w /\ hand'[v] = hand[v] /\ HalfWritten(v)
      BY <1>0, <1>2, <2>1, NothingIs DEF LocalInv
    <3>2. \A u \in Writers : hand'[u].phase = "half" => hand'[u] = hand[u]
      BY <1>2, NothingIs
    <3>. QED
      BY <1>1, <3>1, <3>2 DEF HalfWritten
  <2>. QED
    BY <1>0, <1>1, <1>2, <2>1, NothingIs DEF LocalInv
<1>5. StoreInv'
  <2>. SUFFICES ASSUME backend = "storage", ~raced'
                PROVE  StoreInv'
    BY <1>1 DEF StoreInv
  <2>1. ~raced /\ hand[w].phase # "deleted"
    BY <1>1
  <2>2. ASSUME NEW v \in Writers, hand'[v].phase # "off"
        PROVE  /\ \A u \in Writers \ {v} : hand'[u].partition # hand'[v].partition
               /\ hand'[v].phase = "read" => hand'[v].content = Append(file[hand'[v].partition], hand'[v].line)
               /\ hand'[v].phase = "deleted" => file[hand'[v].partition] = <<>>
    <3>1. v # w /\ hand'[v] = hand[v] /\ hand[v].phase # "off"
      BY <1>2, <2>2, NothingIs
    <3>2. hand[v].partition # 0
      BY <1>0, <3>1, HandIs, PipelineTypes
    <3>. QED
      BY <1>0, <1>2, <2>1, <3>1, <3>2, NothingIs DEF StoreInv
  <2>3. ASSUME NEW x \in written
        PROVE  \/ \E p \in Partitions : x \in ToSet(file[p])
               \/ \E v \in Writers : hand'[v].phase = "deleted" /\ x \in ToSet(hand'[v].content)
    BY <1>0, <1>2, <2>1 DEF StoreInv
  <2>. QED
    BY <1>1, <2>2, <2>3 DEF StoreInv
<1>6. CoverInv'
  BY <1>0, <1>1, <1>2, NothingIs, FilesStay
<1>. QED
  BY <1>2, <1>3, <1>4, <1>5, <1>6 DEF PipelineInv

\* With a removed partition its lines are gone from what was written.
LEMMA RemovePartitionKeeps ==
    ASSUME PipelineInv, NEW p \in Partitions, RemovePartition(p)
    PROVE  PipelineInv'
<1>0. PipelineTyped /\ HandInv /\ LocalInv /\ CoverInv
  BY DEF PipelineInv
<1>1. /\ backend = "local" /\ \A w \in Writers : hand[w].partition # p
      /\ file' = [file EXCEPT ![p] = <<>>] /\ created' = created \ {p} /\ partial' = partial \ {p}
      /\ bytes' = [bytes EXCEPT ![p] = 0] /\ written' = written \ ToSet(file[p]) /\ removed' = TRUE
      /\ UNCHANGED <<hashless, backend, hand, raced, joined, slipped, dagster>>
  BY DEF RemovePartition
<1>2. /\ file' \in [Partitions -> Seq(FileLines)] /\ bytes' \in [Partitions -> Nat] /\ file'[p] = <<>>
      /\ \A q \in Partitions \ {p} : file'[q] = file[q]
  BY <1>0, <1>1, PipelineTypes
<1>3. PipelineTyped'
  BY <1>0, <1>1, <1>2, PipelineTypes DEF PipelineTyped, PipelineTypeOK, dagster, FileLines
<1>4. HandInv' /\ StoreInv'
  BY <1>0, <1>1 DEF HandInv, StoreInv
<1>5. LocalInv'
  <2>1. ASSUME NEW w \in Writers, hand[w].phase = "half" PROVE HalfWritten(w)'
    <3>1. HalfWritten(w) /\ hand[w].partition \in Partitions \ {p}
      BY <1>0, <1>1, <2>1, HandIs DEF LocalInv
    <3>. QED
      BY <1>1, <1>2, <3>1 DEF HalfWritten
  <2>2. ASSUME NEW x \in written' \ joined'
        PROVE  \E q \in Partitions : \E i \in DOMAIN file'[q] :
                  file'[q][i] = x /\ (q \in partial' => i < Len(file'[q]))
    <3>1. x \in written \ joined /\ x \notin ToSet(file[p])
      BY <1>1
    <3>2. PICK q \in Partitions : \E i \in DOMAIN file[q] : file[q][i] = x /\ (q \in partial => i < Len(file[q]))
      BY <1>0, <1>1, <3>1 DEF LocalInv
    <3>3. q # p
      BY <3>1, <3>2 DEF ToSet
    <3>. QED
      BY <1>1, <1>2, <3>2, <3>3
  <2>3. /\ \A q \in Partitions : file'[q] # <<>> => q \in created'
        /\ \A w \in Writers : hand'[w].phase # "off" => hand'[w].partition \in created'
        /\ \A q \in partial' : file'[q] # <<>>
    BY <1>0, <1>1, <1>2, PipelineTypes DEF LocalInv
  <2>. QED
    BY <1>1, <2>1, <2>2, <2>3 DEF LocalInv
<1>6. CoverInv'
  BY <1>1 DEF CoverInv
<1>. QED
  BY <1>3, <1>4, <1>5, <1>6 DEF PipelineInv

\* The line is completed: what readers could expect of it is what it is now.
LEMMA EndLineKeeps == ASSUME PipelineInv, NEW w \in Writers, EndLine(w) PROVE PipelineInv'
<1>0. PipelineTyped /\ HandInv /\ LocalInv /\ CoverInv
  BY DEF PipelineInv
<1>i. hand[w].partition \in Partitions /\ hand[w].line \in Records
  BY <1>0, HandIs DEF EndLine
<1>p. PICK p \in Partitions, x \in Records : p = hand[w].partition /\ x = hand[w].line
  BY <1>i
<1>n. PICK n \in Nat : n = Len(file[p])
  BY <1>0, PipelineTypes
<1>. DEFINE line == IF hand[w].clean THEN x ELSE "torn"
<1>1. /\ hand[w].phase = "half" /\ hand' = [hand EXCEPT ![w] = NoHand]
      /\ file' = [file EXCEPT ![p] = Append(Front(file[p]), line)]
      /\ partial' = partial \ {p} /\ bytes' = [bytes EXCEPT ![p] = bytes[p] + 1]
      /\ written' = written \cup {x} /\ joined' = IF hand[w].clean THEN joined ELSE joined \cup {x}
      /\ UNCHANGED <<hashless, backend, fresh, created, raced, slipped, removed, dagster>>
  BY <1>p DEF EndLine
<1>2. /\ backend = "local" /\ p \in Partitions /\ x \in Records /\ hand[w].clean \in BOOLEAN
      /\ p \in partial /\ file[p] # <<>> /\ line \in FileLines
      /\ file[p][n] \in IF hand[w].clean THEN {"torn", x} ELSE {"torn"}
      /\ \A v \in Writers \ {w} : hand[v].phase = "half" => hand[v].partition # p
  <2>1. backend = "local" /\ p \in Partitions /\ x \in Records /\ hand[w].clean \in BOOLEAN /\ HalfWritten(w)
    BY <1>0, <1>1, HandIs DEF HandInv, LocalInv
  <2>. QED
    BY <1>p, <1>n, <2>1 DEF HalfWritten, Last, FileLines
<1>3. /\ file[p] \in Seq(FileLines) /\ file[p] # <<>> /\ n \in Nat /\ n >= 1 /\ DOMAIN file[p] = 1..n
      /\ bytes[p] \in Nat
  <2>1. file[p] \in Seq(FileLines) /\ file[p] # <<>> /\ n \in Nat /\ DOMAIN file[p] = 1..n
    BY <1>0, <1>2, <1>n, PipelineTypes
  <2>2. n # 0
    BY <1>n, <2>1, EmptySeq
  <2>. QED
    BY <1>0, <1>2, <2>1, <2>2, PipelineTypes
<1>a. /\ p = hand[w].partition /\ x = hand[w].line /\ n = Len(file[p])
      /\ line = IF hand[w].clean THEN x ELSE "torn"
  BY <1>p, <1>n
<1>. HIDE DEF line
<1>4. /\ file' \in [Partitions -> Seq(FileLines)] /\ bytes' \in [Partitions -> Nat]
      /\ file'[p] \in Seq(FileLines) /\ file'[p] # <<>> /\ Len(file'[p]) = n /\ DOMAIN file'[p] = 1..n
      /\ \A i \in 1..n : file'[p][i] = IF i = n THEN line ELSE file[p][i]
      /\ \A q \in Partitions \ {p} : file'[q] = file[q]
  <2>1. /\ file'[p] = Append(Front(file[p]), line)
        /\ \A q \in Partitions \ {p} : file'[q] = file[q]
    BY <1>0, <1>1, <1>2, PipelineTypes
  <2>2. /\ file'[p] \in Seq(FileLines) /\ file'[p] # <<>> /\ Len(file'[p]) = n
        /\ \A i \in 1..n : file'[p][i] = IF i = n THEN line ELSE file[p][i]
    BY <1>2, <1>3, <1>n, <2>1, LastReplaced
  <2>3. DOMAIN file'[p] = 1..n
    BY <2>2, LenProperties
  <2>4. Append(Front(file[p]), line) \in Seq(FileLines)
    BY <2>1, <2>2
  <2>. QED
    BY <1>0, <1>1, <1>2, <1>3, <2>1, <2>2, <2>3, <2>4, PipelineTypes
<1>5. PipelineTyped' /\ hand'[w] = NoHand /\ \A v \in Writers \ {w} : hand'[v] = hand[v]
  <2>1. partial' \subseteq Partitions /\ written' \subseteq Records /\ joined' \subseteq Records
    BY <1>0, <1>1, <1>2, PipelineTypes
  <2>. QED
    BY <1>0, <1>1, <1>4, <2>1, PipelineTypes, HandMoves
<1>6. HandInv' /\ StoreInv'
  BY <1>0, <1>1, <1>2, <1>5, NothingIs DEF HandInv, StoreInv
<1>7. \A v \in Writers \ {w} : hand[v].phase = "half" => hand[v].partition # p
  BY <1>2
<1>8. LocalInv'
  <2>1. ASSUME NEW v \in Writers, hand'[v].phase = "half" PROVE HalfWritten(v)'
    <3>1. v # w /\ hand'[v] = hand[v] /\ HalfWritten(v) /\ hand[v].phase = "half"
      BY <1>0, <1>2, <1>5, <2>1, NothingIs DEF LocalInv
    <3>2. hand[v].partition \in Partitions \ {p}
      BY <1>0, <1>7, <3>1, HandIs
    <3>3. \A u \in Writers : hand'[u].phase = "half" => hand'[u] = hand[u]
      BY <1>5, NothingIs
    <3>. QED
      BY <1>1, <1>4, <3>1, <3>2, <3>3 DEF HalfWritten
  <2>2. ASSUME NEW y \in written' \ joined'
        PROVE  \E q \in Partitions : \E i \in DOMAIN file'[q] :
                  file'[q][i] = y /\ (q \in partial' => i < Len(file'[q]))
    <3>1. CASE y = x
      <4>1. hand[w].clean /\ line = y
        BY <1>1, <1>2, <1>a, <2>2, <3>1
      <4>2. n \in DOMAIN file'[p] /\ file'[p][n] = y /\ p \notin partial'
        BY <1>1, <1>3, <1>4, <4>1
      <4>. QED
        BY <1>2, <4>2
    <3>2. CASE y # x
      <4>1. y \in written \ joined
        BY <1>1, <2>2, <3>2
      <4>a. PICK q \in Partitions : \E i \in DOMAIN file[q] : file[q][i] = y /\ (q \in partial => i < Len(file[q]))
        BY <1>0, <1>2, <4>1 DEF LocalInv
      <4>2. PICK i \in DOMAIN file[q] : file[q][i] = y /\ (q \in partial => i < Len(file[q]))
        BY <4>a
      <4>3. CASE q = p
        <5>1. i \in 1..n /\ i # n
          BY <1>2, <1>3, <1>a, <4>2, <4>3
        <5>2. file'[p][i] = y /\ i \in DOMAIN file'[p] /\ p \notin partial'
          BY <1>1, <1>4, <4>2, <4>3, <5>1
        <5>. QED
          BY <1>2, <5>2
      <4>4. CASE q # p
        BY <1>1, <1>4, <4>2, <4>4
      <4>. QED
        BY <4>3, <4>4
    <3>. QED
      BY <3>1, <3>2
  <2>3. \A q \in Partitions : file'[q] # <<>> => q \in created'
    BY <1>0, <1>1, <1>2, <1>3, <1>4 DEF LocalInv
  <2>4. \A v \in Writers : hand'[v].phase # "off" => hand'[v].partition \in created'
    BY <1>0, <1>1, <1>2, <1>5, NothingIs DEF LocalInv
  <2>5. \A q \in partial' : file'[q] # <<>>
    BY <1>0, <1>1, <1>2, <1>4, PipelineTypes DEF LocalInv
  <2>. QED
    BY <2>1, <2>2, <2>3, <2>4, <2>5 DEF LocalInv
<1>9. CoverInv'
  <2>1. Sizes' = Sizes /\ Done' = Done /\ \A q \in Partitions : Sizes[q] \in Nat /\ Sizes[q] = Len(file[q])
    <3>1. \A q \in Partitions : Len(file'[q]) = Len(file[q])
      BY <1>4, <1>a
    <3>. QED
      BY <1>0, <1>1, <3>1, PipelineTypes DEF Sizes, Done, dagster
  <2>2. Half(p)' = {}
    BY <1>5, <1>7, NothingIs DEF Half
  <2>3. ASSUME NEW q \in Partitions \ {p} PROVE Half(q)' \subseteq Half(q)
    <3>1. file'[q] = file[q]
      BY <1>4, <2>3
    <3>2. \A v \in Writers : hand'[v].phase = "half" => hand'[v] = hand[v]
      BY <1>5, NothingIs
    <3>. QED
      BY <3>1, <3>2 DEF Half
  <2>4. ASSUME NEW q \in Partitions, NEW i \in 1..Sizes[q] PROVE Items'[q][i] \subseteq Items[q][i] \cup Done
    <3>1. /\ Items[q][i] = {file[q][i]} \cup {y \in Half(q) : i = Len(file[q])}
          /\ Items'[q][i] = {file'[q][i]} \cup {y \in Half(q)' : i = Len(file[q])}
      <4>1. i \in 1..Len(file[q]) /\ Len(file'[q]) = Len(file[q])
        BY <1>4, <1>a, <2>1
      <4>. QED
        BY <4>1 DEF Items
    <3>2. CASE q # p
      BY <1>4, <2>3, <3>1, <3>2
    <3>3. CASE q = p
      <4>1. Items'[q][i] = {file'[p][i]} /\ i \in 1..n
        BY <1>a, <2>1, <2>2, <3>1, <3>3
      <4>2. CASE i # n
        BY <1>4, <1>a, <3>1, <3>3, <4>1, <4>2
      <4>3. CASE i = n /\ ~hand[w].clean
        BY <1>4, <1>a, <4>1, <4>3 DEF Done
      <4>4. CASE i = n /\ hand[w].clean
        <5>1. file'[p][i] = x
          BY <1>4, <1>a, <4>1, <4>4
        <5>2. file[p][n] \in {"torn", x}
          BY <1>2, <4>4
        <5>3. file[p][n] = "torn" => x \in Half(p)
          BY <1>1, <1>a, <4>4 DEF Half, Last
        <5>. QED
          BY <1>a, <3>1, <3>3, <4>1, <4>4, <5>1, <5>2, <5>3
      <4>. QED
        BY <1>2, <4>2, <4>3, <4>4
    <3>. QED
      BY <3>2, <3>3
  <2>5. \A q \in Partitions : \A i \in 1..Sizes[q] : ~(i > Sizes[q])
    BY <2>1
  <2>6. Grown(Sizes, Items, Done, Sizes', Items', Done')
    BY <2>1, <2>4, <2>5 DEF Grown
  <2>. QED
    BY <1>0, <1>1, <1>5, <2>1, <2>5, <2>6, DiskGrows DEF dagster
<1>. QED
  BY <1>5, <1>6, <1>8, <1>9 DEF PipelineInv

\* The line is begun: where it has a number before others, it has slipped.
LEMMA BeginLineKeeps ==
    ASSUME PipelineInv, NEW w \in Writers, NEW seen \in Records \cup {"torn"}, BeginLine(w, seen)
    PROVE  PipelineInv'
<1>0. PipelineTyped /\ HandInv /\ LocalInv /\ CoverInv
  BY DEF PipelineInv
<1>i. hand[w].partition \in Partitions /\ hand[w].line \in Records
  BY <1>0, HandIs DEF BeginLine
<1>p. PICK p \in Partitions, x \in Records : p = hand[w].partition /\ x = hand[w].line
  BY <1>i
<1>n. PICK n \in Nat : n = Len(file[p])
  BY <1>0, PipelineTypes
<1>c. PICK clean \in BOOLEAN : clean = (p \notin partial)
  OBVIOUS
<1>. DEFINE state == [hand[w] EXCEPT !.phase = "half", !.clean = clean]
            content == IF clean THEN Append(file[p], seen) ELSE Append(Front(file[p]), "torn")
<1>1. /\ hand[w].phase = "open" /\ seen \in {"torn", x} /\ hand' = [hand EXCEPT ![w] = state]
      /\ \A v \in Writers : hand[v].phase = "half" => hand[v].partition # p
      /\ file' = [file EXCEPT ![p] = content]
      /\ partial' = partial \cup {p} /\ bytes' = [bytes EXCEPT ![p] = bytes[p] + 1]
      /\ slipped' = slipped \cup (IF Late(p) THEN {x} ELSE {})
      /\ UNCHANGED <<hashless, backend, fresh, created, written, raced, joined, removed, dagster>>
  BY <1>p, <1>c DEF BeginLine
<1>2. backend = "local" /\ p \in Partitions /\ x \in Records /\ hand[w] \in HandStates /\ p \in created
  BY <1>0, <1>1, <1>p, HandIs DEF HandInv, LocalInv
<1>3. /\ file[p] \in Seq(FileLines) /\ n \in Nat /\ DOMAIN file[p] = 1..n /\ bytes[p] \in Nat
      /\ ~clean => file[p] # <<>> /\ n >= 1
  <2>1. file[p] \in Seq(FileLines) /\ n \in Nat /\ DOMAIN file[p] = 1..n /\ bytes[p] \in Nat
    BY <1>0, <1>2, <1>n, PipelineTypes
  <2>2. ~clean => file[p] # <<>>
    BY <1>0, <1>2, <1>c DEF LocalInv
  <2>3. file[p] # <<>> => n # 0
    BY <1>n, <2>1, EmptySeq
  <2>. QED
    BY <2>1, <2>2, <2>3
<1>a. /\ p = hand[w].partition /\ x = hand[w].line /\ n = Len(file[p]) /\ clean \in BOOLEAN
      /\ clean => p \notin partial
      /\ ~clean => p \in partial
      /\ state = [hand[w] EXCEPT !.phase = "half", !.clean = clean]
      /\ content = IF clean THEN Append(file[p], seen) ELSE Append(Front(file[p]), "torn")
  BY <1>p, <1>n, <1>c
<1>. HIDE DEF state, content
<1>4. state \in HandStates /\ state.phase = "half" /\ state.partition = p /\ state.line = x /\ state.clean = clean
  BY <1>2, <1>a DEF HandStates
<1>5. /\ content \in Seq(FileLines) /\ content # <<>> /\ DOMAIN content = 1..Len(content)
      /\ clean => Len(content) = n + 1 /\ \A i \in 1..(n + 1) : content[i] = IF i = n + 1 THEN seen ELSE file[p][i]
      /\ ~clean => Len(content) = n /\ \A i \in 1..n : content[i] = IF i = n THEN "torn" ELSE file[p][i]
      /\ Last(content) = IF clean THEN seen ELSE "torn"
  <2>1. seen \in FileLines /\ "torn" \in FileLines
    BY DEF FileLines
  <2>2. CASE clean
    <3>1. /\ content = Append(file[p], seen) /\ content \in Seq(FileLines) /\ Len(content) = n + 1
          /\ \A i \in 1..(n + 1) : content[i] = IF i = n + 1 THEN seen ELSE file[p][i]
      BY <1>3, <1>a, <2>1, <2>2, AppendProperties
    <3>2. n + 1 \in 1..(n + 1) /\ Len(content) # 0
      BY <1>3, <3>1
    <3>3. content # <<>> /\ content[Len(content)] = seen /\ DOMAIN content = 1..Len(content)
      BY <3>1, <3>2, EmptySeq, LenProperties
    <3>. QED
      BY <2>2, <3>1, <3>3 DEF Last
  <2>3. CASE ~clean
    <3>1. content = Append(Front(file[p]), "torn")
      BY <1>a, <2>3
    <3>2. /\ content \in Seq(FileLines) /\ content # <<>> /\ Len(content) = n
          /\ Last(content) = "torn"
          /\ \A i \in 1..n : content[i] = IF i = n THEN "torn" ELSE file[p][i]
      BY <1>3, <1>a, <2>1, <2>3, <3>1, LastReplaced
    <3>3. DOMAIN content = 1..Len(content)
      BY <3>2, LenProperties
    <3>. QED
      BY <2>3, <3>2, <3>3
  <2>. QED
    BY <1>a, <2>2, <2>3
<1>6. /\ file' \in [Partitions -> Seq(FileLines)] /\ bytes' \in [Partitions -> Nat]
      /\ file'[p] = content /\ \A q \in Partitions \ {p} : file'[q] = file[q]
  <2>1. file' = [file EXCEPT ![p] = content] /\ bytes' = [bytes EXCEPT ![p] = bytes[p] + 1]
    BY <1>1
  <2>2. content \in Seq(FileLines) /\ bytes[p] + 1 \in Nat
    BY <1>3, <1>5
  <2>3. file \in [Partitions -> Seq(FileLines)] /\ bytes \in [Partitions -> Nat]
    BY <1>0, PipelineTypes
  <2>. QED
    BY <2>1, <2>2, <2>3
<1>7. PipelineTyped' /\ hand'[w] = state /\ \A v \in Writers \ {w} : hand'[v] = hand[v]
  <2>1. partial' \subseteq Partitions /\ slipped' \subseteq Records
    BY <1>0, <1>1, <1>2, PipelineTypes
  <2>. QED
    BY <1>0, <1>1, <1>4, <1>6, <2>1, PipelineTypes, HandMoves
<1>8. HandInv' /\ StoreInv'
  BY <1>0, <1>1, <1>2, <1>4, <1>7 DEF HandInv, StoreInv
<1>9. LocalInv'
  <2>1. ASSUME NEW v \in Writers, hand'[v].phase = "half" PROVE HalfWritten(v)'
    <3>1. CASE v = w
      <4>1. hand'[v].partition = p /\ hand'[v].line = x /\ hand'[v].clean = clean
        BY <1>4, <1>7, <3>1
      <4>2. Last(file'[p]) \in IF clean THEN {"torn", x} ELSE {"torn"}
        BY <1>1, <1>5, <1>6
      <4>3. \A u \in Writers \ {v} : hand'[u].phase = "half" => hand'[u].partition # p
        BY <1>1, <1>7, <3>1
      <4>4. p \in partial' /\ file'[p] # <<>>
        BY <1>1, <1>5, <1>6
      <4>. QED
        BY <4>1, <4>2, <4>3, <4>4 DEF HalfWritten
    <3>2. CASE v # w
      <4>1. hand'[v] = hand[v] /\ HalfWritten(v) /\ hand[v].phase = "half"
        BY <1>0, <1>2, <1>7, <2>1, <3>2 DEF LocalInv
      <4>2. hand[v].partition \in Partitions \ {p}
        BY <1>0, <1>1, <4>1, HandIs
      <4>3. file'[hand[v].partition] = file[hand[v].partition] /\ hand[v].partition \in partial'
        BY <1>1, <1>6, <4>1, <4>2 DEF HalfWritten
      <4>4. \A u \in Writers \ {v} : hand'[u].phase = "half" => hand'[u].partition # hand[v].partition
        <5>1. ASSUME NEW u \in Writers \ {v}, hand'[u].phase = "half" PROVE hand'[u].partition # hand[v].partition
          <6>1. CASE u = w
            BY <1>4, <1>7, <4>2, <6>1
          <6>2. CASE u # w
            BY <1>7, <4>1, <5>1, <6>2 DEF HalfWritten
          <6>. QED
            BY <6>1, <6>2
        <5>. QED
          BY <5>1
      <4>. QED
        BY <4>1, <4>3, <4>4 DEF HalfWritten
    <3>. QED
      BY <3>1, <3>2
  <2>2. ASSUME NEW y \in written' \ joined'
        PROVE  \E q \in Partitions : \E i \in DOMAIN file'[q] :
                  file'[q][i] = y /\ (q \in partial' => i < Len(file'[q]))
    <3>1. y \in written \ joined
      BY <1>1, <2>2
    <3>a. PICK q \in Partitions : \E i \in DOMAIN file[q] : file[q][i] = y /\ (q \in partial => i < Len(file[q]))
      BY <1>0, <1>2, <3>1 DEF LocalInv
    <3>2. PICK i \in DOMAIN file[q] : file[q][i] = y /\ (q \in partial => i < Len(file[q]))
      BY <3>a
    <3>3. CASE q = p
      <4>1. i \in 1..n /\ (~clean => i < n)
        BY <1>3, <1>a, <3>2, <3>3
      <4>2. i \in DOMAIN file'[p] /\ file'[p][i] = y /\ i < Len(file'[p])
        <5>1. CASE clean
          <6>1. i \in 1..(n + 1) /\ i # n + 1 /\ i < n + 1
            BY <1>3, <4>1
          <6>. QED
            BY <1>5, <1>6, <3>2, <3>3, <5>1, <6>1
        <5>2. CASE ~clean
          BY <1>3, <1>5, <1>6, <3>2, <3>3, <4>1, <5>2
        <5>. QED
          BY <5>1, <5>2
      <4>. QED
        BY <1>2, <4>2
    <3>4. CASE q # p
      <4>1. file'[q] = file[q] /\ (q \in partial' => q \in partial)
        BY <1>1, <1>6, <3>4
      <4>. QED
        BY <3>2, <4>1
    <3>. QED
      BY <3>3, <3>4
  <2>3. \A q \in Partitions : file'[q] # <<>> => q \in created'
    BY <1>0, <1>1, <1>2, <1>6 DEF LocalInv
  <2>4. \A v \in Writers : hand'[v].phase # "off" => hand'[v].partition \in created'
    BY <1>0, <1>1, <1>2, <1>4, <1>7 DEF LocalInv
  <2>5. \A q \in partial' : file'[q] # <<>>
    BY <1>0, <1>1, <1>2, <1>5, <1>6, PipelineTypes DEF LocalInv
  <2>. QED
    BY <2>1, <2>2, <2>3, <2>4, <2>5 DEF LocalInv
<1>10. CoverInv'
  <2>1. Done \subseteq Done' /\ "torn" \in Done' /\ (Late(p) => x \in Done')
    BY <1>1 DEF Done, dagster
  <2>2. \A q \in Partitions :
           Sizes[q] \in Nat /\ Sizes[q] = Len(file[q]) /\ Sizes'[q] = Len(file'[q]) /\ (q # p => Sizes'[q] = Sizes[q])
    BY <1>0, <1>6, PipelineTypes DEF Sizes
  <2>3. Half(p)' \subseteq {x} /\ (~clean => Half(p)' = {})
    BY <1>1, <1>4, <1>7 DEF Half
  <2>4. ASSUME NEW q \in Partitions \ {p} PROVE Half(q)' \subseteq Half(q)
    BY <1>4, <1>6, <1>7, <2>4 DEF Half
  <2>5. ASSUME NEW q \in Partitions, NEW i \in 1..Sizes'[q]
        PROVE  Items'[q][i] = {file'[q][i]} \cup {y \in Half(q)' : i = Len(file'[q])}
    BY <2>2 DEF Items
  <2>6. ASSUME NEW q \in Partitions, NEW i \in 1..Sizes[q]
        PROVE  i \in 1..Sizes'[q] /\ Items'[q][i] \subseteq Items[q][i] \cup Done'
    <3>1. Items[q][i] = {file[q][i]} \cup {y \in Half(q) : i = Len(file[q])}
      BY <2>2, ItemsAre
    <3>2. CASE q # p
      BY <1>6, <2>2, <2>4, <2>5, <3>1, <3>2
    <3>3. CASE q = p /\ clean
      <4>1. /\ i \in 1..n /\ i \in 1..(n + 1) /\ i # n + 1 /\ Sizes'[p] = n + 1
        BY <1>3, <1>5, <1>6, <2>2, <3>3
      <4>2. file'[p][i] = file[p][i] /\ i # Len(file'[p])
        BY <1>5, <1>6, <3>3, <4>1
      <4>. QED
        BY <2>5, <3>1, <3>3, <4>1, <4>2
    <3>4. CASE q = p /\ ~clean
      <4>1. i \in 1..n /\ Sizes'[p] = n
        BY <1>3, <1>5, <1>6, <2>2, <3>4
      <4>2. file'[p][i] \in {file[p][i], "torn"}
        BY <1>5, <1>6, <3>4, <4>1
      <4>3. Items'[p][i] = {file'[p][i]}
        BY <2>3, <2>5, <3>4, <4>1
      <4>. QED
        BY <2>1, <3>1, <3>4, <4>1, <4>2, <4>3
    <3>. QED
      BY <3>2, <3>3, <3>4
  <2>7. ASSUME NEW q \in Partitions, NEW i \in 1..Sizes'[q], i > Sizes[q]
        PROVE  q = p /\ (Late(p) => Items'[q][i] \subseteq Done')
    <3>1. i \in Nat /\ q = p
      BY <2>2, <2>7
    <3>2. clean /\ i = n + 1
      <4>1. Sizes[p] = n /\ Sizes'[p] = IF clean THEN n + 1 ELSE n
        BY <1>5, <1>6, <1>a, <2>2
      <4>. QED
        BY <2>7, <3>1, <4>1
    <3>3. file'[p][i] = seen
      BY <1>3, <1>5, <1>6, <3>2
    <3>4. Items'[p][i] \subseteq {seen, x}
      BY <2>3, <2>5, <2>7, <3>1, <3>3
    <3>. QED
      BY <1>1, <2>1, <3>1, <3>4
  <2>8. ASSUME NEW r \in Partitions, r > p, Sizes[r] > 0 PROVE Late(p)
    <3>1. file[r] # <<>>
      BY <2>2, <2>8, EmptySeq
    <3>. QED
      BY <2>8, <3>1 DEF Late
  <2>9. Grown(Sizes, Items, Done, Sizes', Items', Done')
    <3>1. ASSUME NEW q \in Partitions PROVE Sizes[q] <= Sizes'[q]
      BY <1>3, <1>5, <1>6, <2>2
    <3>2. ASSUME NEW q \in Partitions, NEW i \in 1..Sizes'[q], i > Sizes[q],
                 NEW r \in Partitions, r > q, Sizes[r] > 0
          PROVE  Items'[q][i] \subseteq Done'
      <4>1. q = p /\ (Late(p) => Items'[q][i] \subseteq Done')
        BY <2>7, <3>2
      <4>. QED
        BY <2>8, <3>2, <4>1
    <3>. QED
      BY <2>1, <2>6, <3>1, <3>2 DEF Grown
  <2>10. ASSUME NEW j \in Jobs, NEW t \in job[j].todo, NEW q \in Partitions \ job[j].todo, q < t,
                NEW i \in 1..Sizes'[q], i > Sizes[q]
         PROVE  Items'[q][i] \subseteq Done'
    <3>1. q = p /\ (Late(p) => Items'[q][i] \subseteq Done')
      BY <2>7, <2>10
    <3>2. t \in Partitions /\ t > p
      <4>1. job[j].todo \in SUBSET Partitions
        BY <1>0, PipelineTypes DEF JobStates
      <4>. QED
        BY <2>10, <3>1, <4>1
    <3>3. Late(p)
      BY <2>10, <3>1, <3>2 DEF Late
    <3>. QED
      BY <3>1, <3>3
  <2>. QED
    BY <1>0, <1>1, <1>7, <2>9, <2>10, DiskGrows DEF dagster
<1>. QED
  BY <1>7, <1>8, <1>9, <1>10 DEF PipelineInv

-----------------------------------------------------------------------------
(* append() to another storage: a job never reads there. *)

LEMMA ReadContentKeeps ==
    ASSUME PipelineInv, NEW w \in Writers, NEW p \in Partitions, NEW x \in Records, ReadContent(w, p, x)
    PROVE  PipelineInv'
<1>0. PipelineTyped /\ HandInv /\ StoreInv
  BY DEF PipelineInv
<1>. DEFINE state == [partition |-> p, line |-> x, content |-> Append(file[p], x), phase |-> "read", clean |-> TRUE]
<1>1. /\ backend = "storage" /\ hand[w].phase = "off" /\ hand' = [hand EXCEPT ![w] = state]
      /\ raced' = (raced \/ \E v \in Writers : hand[v].partition = p)
      /\ UNCHANGED <<hashless, backend, file, created, partial, bytes, written, joined, slipped, removed, dagster>>
  BY DEF ReadContent, Hold
<1>2. Append(file[p], x) \in Seq(FileLines) /\ x \in ToSet(Append(file[p], x))
  <2>1. file[p] \in Seq(FileLines) /\ x \in FileLines
    BY <1>0, PipelineTypes DEF FileLines
  <2>2. /\ Append(file[p], x) \in Seq(FileLines)
        /\ Append(file[p], x)[Len(file[p]) + 1] = x /\ Len(file[p]) + 1 \in DOMAIN Append(file[p], x)
    BY <2>1
  <2>. QED
    BY <2>2 DEF ToSet
<1>3. /\ state \in HandStates /\ state.phase = "read" /\ state.partition = p /\ state.line = x
      /\ state.content = Append(file[p], x)
  BY <1>2 DEF HandStates
<1>. HIDE DEF state
<1>4. PipelineTyped' /\ hand'[w] = state /\ \A v \in Writers \ {w} : hand'[v] = hand[v]
  BY <1>0, <1>1, <1>3, PipelineTypes, HandMoves
<1>5. HandInv'
  BY <1>0, <1>1, <1>2, <1>3, <1>4 DEF HandInv
<1>6. StoreInv'
  <2>. SUFFICES ASSUME ~raced' PROVE StoreInv'
    BY DEF StoreInv
  <2>1. ~raced /\ \A v \in Writers : hand[v].partition # p
    BY <1>1
  <2>2. ASSUME NEW v \in Writers, hand'[v].phase # "off"
        PROVE  /\ \A u \in Writers \ {v} : hand'[u].partition # hand'[v].partition
               /\ hand'[v].phase = "read" => hand'[v].content = Append(file[hand'[v].partition], hand'[v].line)
               /\ hand'[v].phase = "deleted" => file[hand'[v].partition] = <<>>
    <3>1. CASE v = w
      BY <1>3, <1>4, <2>1, <3>1
    <3>2. CASE v # w
      BY <1>0, <1>1, <1>3, <1>4, <2>1, <2>2, <3>2 DEF StoreInv
    <3>. QED
      BY <3>1, <3>2
  <2>3. \A v \in Writers : hand[v].phase = "deleted" => hand'[v] = hand[v]
    BY <1>1, <1>4
  <2>4. ASSUME NEW y \in written
        PROVE  \/ \E q \in Partitions : y \in ToSet(file[q])
               \/ \E v \in Writers : hand'[v].phase = "deleted" /\ y \in ToSet(hand'[v].content)
    BY <1>0, <1>1, <2>1, <2>3 DEF StoreInv
  <2>. QED
    BY <1>1, <2>2, <2>4 DEF StoreInv
<1>7. LocalInv' /\ CoverInv'
  BY <1>1 DEF LocalInv, CoverInv
<1>. QED
  BY <1>4, <1>5, <1>6, <1>7 DEF PipelineInv

\* The content of the deleted file is in the writer's hand.
LEMMA DeleteFileKeeps == ASSUME PipelineInv, NEW w \in Writers, DeleteFile(w) PROVE PipelineInv'
<1>0. PipelineTyped /\ HandInv /\ StoreInv
  BY DEF PipelineInv
<1>i. hand[w].partition \in Partitions /\ hand[w] \in HandStates /\ backend = "storage"
  BY <1>0, HandIs DEF DeleteFile, HandInv
<1>p. PICK p \in Partitions : p = hand[w].partition
  BY <1>i
<1>. DEFINE state == [hand[w] EXCEPT !.phase = "deleted"]
<1>1. /\ hand[w].phase = "read" /\ file' = [file EXCEPT ![p] = <<>>] /\ hand' = [hand EXCEPT ![w] = state]
      /\ UNCHANGED <<hashless, backend, created, partial, bytes, written, raced, joined, slipped, removed, dagster>>
  BY <1>p DEF DeleteFile
<1>2. /\ state \in HandStates /\ state.phase = "deleted" /\ state.partition = p
      /\ state.line = hand[w].line /\ state.content = hand[w].content
  BY <1>i, <1>p DEF HandStates
<1>. HIDE DEF state
<1>3. /\ file' \in [Partitions -> Seq(FileLines)] /\ file'[p] = <<>>
      /\ \A q \in Partitions \ {p} : file'[q] = file[q]
  BY <1>0, <1>1, PipelineTypes
<1>4. PipelineTyped' /\ hand'[w] = state /\ \A v \in Writers \ {w} : hand'[v] = hand[v]
  BY <1>0, <1>1, <1>2, <1>3, PipelineTypes, HandMoves
<1>5. HandInv'
  BY <1>0, <1>1, <1>2, <1>4, <1>i DEF HandInv
<1>6. StoreInv'
  <2>. SUFFICES ASSUME ~raced PROVE StoreInv'
    BY <1>1 DEF StoreInv
  <2>1. /\ \A u \in Writers \ {w} : hand[u].partition # p
        /\ hand[w].content = Append(file[p], hand[w].line)
    BY <1>0, <1>1, <1>i, <1>p DEF StoreInv
  <2>2. ASSUME NEW v \in Writers, hand'[v].phase # "off"
        PROVE  /\ \A u \in Writers \ {v} : hand'[u].partition # hand'[v].partition
               /\ hand'[v].phase = "read" => hand'[v].content = Append(file'[hand'[v].partition], hand'[v].line)
               /\ hand'[v].phase = "deleted" => file'[hand'[v].partition] = <<>>
    <3>1. CASE v = w
      BY <1>2, <1>3, <1>4, <2>1, <3>1
    <3>2. CASE v # w
      <4>1. hand'[v] = hand[v] /\ hand[v].phase # "off" /\ hand[v].partition \in Partitions \ {p}
        BY <1>0, <1>4, <2>1, <2>2, <3>2, HandIs
      <4>2. file'[hand[v].partition] = file[hand[v].partition]
        BY <1>3, <4>1
      <4>3. \A u \in Writers : hand'[u].partition = hand[u].partition
        BY <1>2, <1>4, <1>p
      <4>. QED
        BY <1>0, <1>i, <4>1, <4>2, <4>3 DEF StoreInv
    <3>. QED
      BY <3>1, <3>2
  <2>3. ASSUME NEW y \in written
        PROVE  \/ \E q \in Partitions : y \in ToSet(file'[q])
               \/ \E v \in Writers : hand'[v].phase = "deleted" /\ y \in ToSet(hand'[v].content)
    <3>1. CASE \E q \in Partitions : y \in ToSet(file[q])
      <4>1. PICK q \in Partitions : y \in ToSet(file[q])
        BY <3>1
      <4>2. CASE q = p
        <5>1. PICK i \in DOMAIN file[p] : y = file[p][i]
          BY <4>1, <4>2 DEF ToSet
        <5>2. file[p] \in Seq(FileLines) /\ hand[w].line \in FileLines
          BY <1>0, <1>i, PipelineTypes DEF HandStates, FileLines
        <5>3. i \in DOMAIN hand[w].content /\ hand[w].content[i] = y
          BY <2>1, <5>1, <5>2
        <5>4. y \in ToSet(hand'[w].content)
          BY <1>2, <1>4, <5>3 DEF ToSet
        <5>. QED
          BY <1>2, <1>4, <5>4
      <4>3. CASE q # p
        BY <1>3, <4>1, <4>3
      <4>. QED
        BY <4>2, <4>3
    <3>2. CASE \E v \in Writers : hand[v].phase = "deleted" /\ y \in ToSet(hand[v].content)
      BY <1>1, <1>4, <3>2
    <3>. QED
      BY <1>0, <1>i, <3>1, <3>2 DEF StoreInv
  <2>. QED
    BY <1>1, <2>2, <2>3 DEF StoreInv
<1>7. LocalInv' /\ CoverInv'
  BY <1>1, <1>i DEF LocalInv, CoverInv
<1>. QED
  BY <1>4, <1>5, <1>6, <1>7 DEF PipelineInv

\* The writer saves it, with its line, where the file is still missing.
LEMMA SaveFileKeeps ==
    ASSUME PipelineInv, NEW w \in Writers, NEW elsewhere \in BOOLEAN, SaveFile(w, elsewhere)
    PROVE  PipelineInv'
<1>0. PipelineTyped /\ HandInv /\ StoreInv
  BY DEF PipelineInv
<1>i. /\ hand[w].partition \in Partitions /\ hand[w].content \in Seq(FileLines) /\ hand[w].line \in Records
      /\ backend = "storage" /\ hand[w].line \in ToSet(hand[w].content)
  BY <1>0, HandIs DEF SaveFile, HandInv
<1>p. PICK p \in Partitions : p = hand[w].partition
  BY <1>i
<1>1. /\ hand[w].phase = "deleted" /\ (elsewhere => file[p] # <<>>)
      /\ file' = [file EXCEPT ![p] = IF elsewhere THEN file[p] ELSE hand[w].content]
      /\ written' = written \cup {hand[w].line} /\ hand' = [hand EXCEPT ![w] = NoHand]
      /\ UNCHANGED <<hashless, backend, created, partial, bytes, raced, joined, slipped, removed, dagster>>
  BY <1>p DEF SaveFile, SavedContent
<1>2. /\ file' \in [Partitions -> Seq(FileLines)]
      /\ file'[p] = IF elsewhere THEN file[p] ELSE hand[w].content
      /\ \A q \in Partitions \ {p} : file'[q] = file[q]
  <2>1. file[p] \in Seq(FileLines) /\ file \in [Partitions -> Seq(FileLines)]
    BY <1>0, PipelineTypes
  <2>. QED
    BY <1>1, <1>i, <2>1
<1>3. PipelineTyped' /\ hand'[w] = NoHand /\ \A v \in Writers \ {w} : hand'[v] = hand[v]
  <2>1. written' \subseteq Records
    BY <1>0, <1>1, <1>i, PipelineTypes
  <2>. QED
    BY <1>0, <1>1, <1>2, <2>1, PipelineTypes, HandMoves
<1>4. HandInv'
  BY <1>0, <1>1, <1>3, NothingIs DEF HandInv
<1>5. StoreInv'
  <2>. SUFFICES ASSUME ~raced PROVE StoreInv'
    BY <1>1 DEF StoreInv
  <2>1. /\ \A u \in Writers \ {w} : hand[u].partition # p
        /\ file[p] = <<>> /\ ~elsewhere /\ file'[p] = hand[w].content
    BY <1>0, <1>1, <1>2, <1>i, <1>p DEF StoreInv
  <2>2. ASSUME NEW v \in Writers, hand'[v].phase # "off"
        PROVE  /\ \A u \in Writers \ {v} : hand'[u].partition # hand'[v].partition
               /\ hand'[v].phase = "read" => hand'[v].content = Append(file'[hand'[v].partition], hand'[v].line)
               /\ hand'[v].phase = "deleted" => file'[hand'[v].partition] = <<>>
    <3>1. v # w /\ hand'[v] = hand[v] /\ hand[v].phase # "off"
      BY <1>3, <2>2, NothingIs
    <3>2. hand[v].partition \in Partitions \ {p} /\ hand[v].partition # 0
      BY <1>0, <2>1, <3>1, HandIs, PipelineTypes
    <3>3. file'[hand[v].partition] = file[hand[v].partition]
      BY <1>2, <3>2
    <3>4. /\ \A u \in Writers \ {v} : hand[u].partition # hand[v].partition
          /\ hand[v].phase = "read" => hand[v].content = Append(file[hand[v].partition], hand[v].line)
          /\ hand[v].phase = "deleted" => file[hand[v].partition] = <<>>
      BY <1>0, <1>i, <3>1 DEF StoreInv
    <3>5. ASSUME NEW u \in Writers \ {v} PROVE hand'[u].partition # hand[v].partition
      <4>1. CASE u = w
        BY <1>3, <3>2, <4>1, NothingIs
      <4>2. CASE u # w
        BY <1>3, <3>4, <4>2
      <4>. QED
        BY <4>1, <4>2
    <3>. QED
      BY <3>1, <3>3, <3>4, <3>5
  <2>3. ASSUME NEW y \in written'
        PROVE  \/ \E q \in Partitions : y \in ToSet(file'[q])
               \/ \E v \in Writers : hand'[v].phase = "deleted" /\ y \in ToSet(hand'[v].content)
    <3>1. CASE y = hand[w].line
      BY <1>i, <2>1, <3>1
    <3>2. CASE \E q \in Partitions : y \in ToSet(file[q])
      <4>1. PICK q \in Partitions : y \in ToSet(file[q])
        BY <3>2
      <4>2. q # p
        BY <2>1, <4>1 DEF ToSet
      <4>. QED
        BY <1>2, <4>1, <4>2
    <3>3. CASE \E v \in Writers : hand[v].phase = "deleted" /\ y \in ToSet(hand[v].content)
      <4>1. PICK v \in Writers : hand[v].phase = "deleted" /\ y \in ToSet(hand[v].content)
        BY <3>3
      <4>2. CASE v = w
        BY <2>1, <4>1, <4>2
      <4>3. CASE v # w
        BY <1>3, <4>1, <4>3
      <4>. QED
        BY <4>2, <4>3
    <3>. QED
      BY <1>0, <1>1, <1>i, <3>1, <3>2, <3>3 DEF StoreInv
  <2>. QED
    BY <1>1, <2>2, <2>3 DEF StoreInv
<1>6. LocalInv' /\ CoverInv'
  BY <1>1, <1>i DEF LocalInv, CoverInv
<1>. QED
  BY <1>3, <1>4, <1>5, <1>6 DEF PipelineInv

-----------------------------------------------------------------------------
\* Writers append, are killed or overlap, runs read meanwhile, overlap, are killed and save
\* checkpoints in any order: the invariant of files, runs and checkpoint (storage.py,
\* resources.py and jobs.py).
THEOREM PipelineInvariant == Spec => []PipelineInv
<1>1. Init => PipelineInv
  BY PipelineInitially
<1>2. PipelineInv /\ [Next]_vars => PipelineInv'
  <2>. SUFFICES ASSUME PipelineInv, [Next]_vars PROVE PipelineInv'
    OBVIOUS
  <2>1. ASSUME NEW w \in Writers, WriterStep(w) PROVE PipelineInv'
    BY <2>1, OpenFileKeeps, ReadContentKeeps, BeginLineKeeps, EndLineKeeps, DeleteFileKeeps,
       SaveFileKeeps, KillWriterKeeps DEF WriterStep
  <2>2. ASSUME NEW p \in Partitions, RemovePartition(p) PROVE PipelineInv'
    BY <2>2, RemovePartitionKeeps
  <2>3. CASE SensorTick \/ HourlyTick
    BY <2>3, TicksKeep
  <2>4. ASSUME NEW j \in Jobs, JobStep(j) \/ KillJob(j) PROVE PipelineInv'
    BY <2>4, BeginReadKeeps, ReadPartitionKeeps, EndReadKeeps, CreateRowsKeeps, SaveCheckpointKeeps,
       KillJobKeeps DEF JobStep
  <2>5. CASE UNCHANGED vars
    <3>1. "sensor" \in Jobs
      BY DEF Jobs
    <3>2. UNCHANGED <<disk, slipped, removed, checkpoint, extrinsics, cursor, keys, job>>
      BY <2>5 DEF vars, dagster
    <3>3. cursor' \in Nat /\ keys' \subseteq Nat /\ job' = [job EXCEPT !["sensor"] = job["sensor"]]
      BY <3>2, PipelineTypes DEF PipelineInv
    <3>. QED
      BY <3>1, <3>2, <3>3, TurnsKeep
  <2>. QED
    BY <2>1, <2>2, <2>3, <2>4, <2>5 DEF Next
<1>. QED
  BY <1>1, <1>2, PTL DEF Spec

\* A line for which append() has returned is in the files, however many writers there are
\* (FileSystemBackend.append, StorageBackend.append).
THEOREM AppendedStays == Spec => []AppendedIsKept
<1>1. ASSUME PipelineInv PROVE AppendedIsKept
  <2>1. PipelineTyped /\ LocalInv /\ StoreInv
    BY <1>1 DEF PipelineInv
  <2>2. ASSUME backend = "local", NEW x \in written \ joined PROVE x \in Lines
    <3>1. PICK p \in Partitions : \E i \in DOMAIN file[p] : file[p][i] = x
      BY <2>1, <2>2 DEF LocalInv
    <3>. QED
      BY <3>1 DEF Lines, ToSet
  <2>3. ASSUME backend = "storage", ~raced, \A w \in Writers : hand[w].phase = "off", NEW x \in written
        PROVE  x \in Lines
    <3>1. PICK p \in Partitions : x \in ToSet(file[p])
      BY <2>1, <2>3 DEF StoreInv
    <3>. QED
      BY <3>1 DEF Lines
  <2>. QED
    BY <2>2, <2>3 DEF AppendedIsKept
<1>. QED
  BY <1>1, PipelineInvariant, PTL

\* No record before the checkpoint is without a row but those that have slipped, whatever
\* is appended while runs read, however these overlap or are killed (ingest_extrinsics).
THEOREM CheckpointsCover == Spec => []CheckpointCovers
<1>1. ASSUME PipelineInv PROVE CheckpointCovers
  <2>. SUFFICES ASSUME ~removed, backend = "local", NEW p \in Partitions, NEW i \in DOMAIN file[p],
                       Before(p) + i <= checkpoint
                PROVE  file[p][i] \in Done
    BY DEF CheckpointCovers, Done
  <2>1. PipelineTyped /\ Covers(Sizes, Items, Done, checkpoint)
    BY <1>1 DEF PipelineInv, CoverInv
  <2>2. i \in 1..Len(file[p]) /\ i \in 1..Sizes[p]
    BY <2>1, PipelineTypes
  <2>3. SumUpto(Sizes, p - 1) + i <= checkpoint
    BY DEF Before, Sizes
  <2>4. Items[p][i] \subseteq Done
    BY <2>1, <2>2, <2>3 DEF Covers
  <2>. QED
    BY <2>2, <2>4, ItemsAre
<1>. QED
  BY <1>1, PipelineInvariant, PTL
=============================================================================
