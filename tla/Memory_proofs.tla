--------------------------- MODULE Memory_proofs ---------------------------
(***************************************************************************)
(* Proofs about Memory: the accounts of the memory manager, the objects in *)
(* its pools and the windows of its virtual arrays, for every size of a    *)
(* chunk, every limit, every heap that may run out and every sequence of   *)
(* requests; and that the array it hands out is, to its users, a plain     *)
(* one, wherever its window and its file are.                              *)
(***************************************************************************)
EXTENDS Memory, TLAPS, SequenceTheorems, FiniteSetTheorems, WellFoundedInduction

(* Induction and sums. *)

\* A set of natural numbers has a least one.
LEMMA NatMin ==
  ASSUME NEW T \in SUBSET Nat, T # {}
  PROVE  \E m \in T : \A k \in T : m <= k
<1> DEFINE R == OpToRel(<, Nat)
<1>1. IsWellFoundedOn(R, Nat)
  BY NatLessThanWellFounded, Zenon
<1>2. \A x, y \in Nat : <<y, x>> \in R <=> y < x
  BY DEF OpToRel
<1> HIDE DEF R
<1>3. PICK m \in T : \A k \in T : ~ (<<k, m>> \in R)
  BY <1>1, WFMin
<1>4. \A k \in T : m <= k
  <2> TAKE k \in T
  <2>1. m \in Nat /\ k \in Nat /\ ~ (k < m)
    BY <1>2, <1>3
  <2> QED
    BY <2>1
<1> QED
  BY <1>4

\* A bounded one has a largest.
LEMMA NatMax ==
  ASSUME NEW n \in Nat, NEW S, S \subseteq 0 .. n, S # {}
  PROVE  \E m \in S : \A k \in S : m >= k
<1> DEFINE T == {k \in 0 .. n : n - k \in S}
<1>1. \A k \in S : n - k \in T
  OBVIOUS
<1>2. T \in SUBSET Nat
  OBVIOUS
<1>3. PICK m \in T : \A k \in T : m <= k
  <2>1. T # {}
    BY <1>1
  <2> HIDE DEF T
  <2> QED
    BY <1>2, <2>1, NatMin
<1>4. \A k \in S : n - m >= k
  BY <1>1, <1>3
<1> QED
  BY <1>3, <1>4

\* Induction up to a bound, as a statement about a set.
LEMMA UpTo ==
  ASSUME NEW n \in Nat, NEW S, 0 \in S,
         \A k \in 1 .. n : k - 1 \in S => k \in S
  PROVE  0 .. n \subseteq S
<1> SUFFICES ASSUME (0 .. n) \ S # {} PROVE FALSE
  OBVIOUS
<1>0. (0 .. n) \ S \in SUBSET Nat
  OBVIOUS
<1>1. PICK m \in (0 .. n) \ S : \A k \in (0 .. n) \ S : m <= k
  BY <1>0, NatMin
<1>2. m \in 1 .. n /\ m - 1 \in 0 .. n
  BY <1>1
<1>3. m - 1 \in S
  BY <1>1, <1>2
<1> QED
  BY <1>1, <1>2, <1>3

\* There is a function that adds up w, up to n.
Sums(g, w, n) == g = [i \in 0 .. n |-> IF i = 0 THEN 0 ELSE g[i - 1] + w[i]]
LEMMA SumsExist ==
  ASSUME NEW w, NEW n \in Nat
  PROVE  \E g : Sums(g, w, n)
<1> DEFINE S == {k \in 0 .. n : \E g : Sums(g, w, k)}
<1>1. 0 \in S
  <2>1. Sums([i \in 0 .. 0 |-> 0], w, 0)
    BY DEF Sums
  <2> QED
    BY <2>1
<1>2. ASSUME NEW k \in 1 .. n, k - 1 \in S PROVE k \in S
  <2>1. PICK g : Sums(g, w, k - 1)
    BY <1>2
  <2> DEFINE h == [i \in 0 .. k |-> IF i < k THEN g[i] ELSE g[k - 1] + w[k]]
  <2>2. ASSUME NEW i \in 0 .. k PROVE h[i] = IF i = 0 THEN 0 ELSE h[i - 1] + w[i]
    <3>1. CASE i < k
      BY <2>1, <3>1 DEF Sums
    <3>2. CASE i = k
      BY <3>2
    <3> QED
      BY <3>1, <3>2
  <2>3. Sums(h, w, k)
    BY <2>2 DEF Sums
  <2> QED
    BY <2>3
<1> HIDE DEF S
<1>3. 0 .. n \subseteq S
  BY <1>1, <1>2, UpTo
<1> QED
  BY <1>3 DEF S

\* Added() is such a sum.
LEMMA AddedIsSum ==
  ASSUME NEW w, Len(w) \in Nat
  PROVE  \E g : Sums(g, w, Len(w)) /\ Added(w) = g[Len(w)]
<1> DEFINE s == CHOOSE g : g = [i \in 0 .. Len(w) |-> IF i = 0 THEN 0 ELSE g[i - 1] + w[i]]
<1>1. Sums(s, w, Len(w))
  BY SumsExist DEF Sums
<1>2. Added(w) = s[Len(w)]
  BY DEF Added
<1> QED
  BY <1>1, <1>2

\* The sum of two sequences that start alike is the same up to there.
LEMMA SumsAgree ==
  ASSUME NEW m \in Nat, NEW n \in Nat, NEW v, NEW w, NEW g, NEW h,
         Sums(g, v, m), Sums(h, w, n),
         NEW k \in 0 .. m, k <= n, \A i \in 1 .. k : v[i] = w[i]
  PROVE  g[k] = h[k]
<1> DEFINE S == {i \in 0 .. k : g[i] = h[i]}
<1>1. 0 \in S
  BY DEF Sums
<1>2. ASSUME NEW i \in 1 .. k, i - 1 \in S PROVE i \in S
  BY <1>2 DEF Sums
<1> HIDE DEF S
<1>3. 0 .. k \subseteq S
  BY <1>1, <1>2, UpTo
<1> QED
  BY <1>3 DEF S

LEMMA AddedEmpty == Added(<<>>) = 0
<1>1. Len(<<>>) = 0
  OBVIOUS
<1> QED
  BY <1>1, AddedIsSum DEF Sums

LEMMA AddedType ==
  ASSUME NEW w \in Seq(Int)
  PROVE  Added(w) \in Int
<1> DEFINE n == Len(w)
<1>1. n \in Nat /\ \A i \in 1 .. n : w[i] \in Int
  OBVIOUS
<1>2. PICK g : Sums(g, w, n) /\ Added(w) = g[n]
  BY <1>1, AddedIsSum
<1> HIDE DEF n
<1> DEFINE S == {i \in 0 .. n : g[i] \in Int}
<1>3. 0 \in S
  BY <1>1, <1>2 DEF Sums
<1>4. ASSUME NEW i \in 1 .. n, i - 1 \in S PROVE i \in S
  BY <1>1, <1>2, <1>4 DEF Sums
<1> HIDE DEF S
<1>5. 0 .. n \subseteq S
  BY <1>1, <1>3, <1>4, UpTo
<1> QED
  BY <1>1, <1>2, <1>5 DEF S

LEMMA AddedAppend ==
  ASSUME NEW w \in Seq(Int), NEW x \in Int
  PROVE  Added(Append(w, x)) = Added(w) + x
<1> DEFINE n == Len(w)
           v == Append(w, x)
<1>1. n \in Nat /\ Len(v) = n + 1 /\ v[n + 1] = x /\ \A i \in 1 .. n : v[i] = w[i]
  OBVIOUS
<1>2. PICK g : Sums(g, w, n) /\ Added(w) = g[n]
  BY <1>1, AddedIsSum
<1> HIDE DEF n, v
<1>3. PICK h : Sums(h, v, n + 1) /\ Added(v) = h[n + 1]
  <2>1. Len(v) \in Nat
    BY <1>1
  <2> QED
    BY <1>1, <2>1, AddedIsSum
<1>4. g[n] = h[n]
  BY <1>1, <1>2, <1>3, SumsAgree
<1>5. h[n + 1] = h[n] + v[n + 1]
  BY <1>1, <1>3 DEF Sums
<1> QED
  BY <1>1, <1>2, <1>3, <1>4, <1>5 DEF v

LEMMA AddedCons ==
  ASSUME NEW w \in Seq(Int), NEW x \in Int
  PROVE  Added(<<x>> \o w) = x + Added(w)
<1> DEFINE n == Len(w)
           v == <<x>> \o w
<1>1. n \in Nat /\ Len(v) = n + 1 /\ v[1] = x /\ \A i \in 1 .. n : v[i + 1] = w[i]
  OBVIOUS
<1>2. PICK g : Sums(g, w, n) /\ Added(w) = g[n]
  BY <1>1, AddedIsSum
<1>4. \A i \in 1 .. n : w[i] \in Int
  OBVIOUS
<1> HIDE DEF n, v
<1>3. PICK h : Sums(h, v, n + 1) /\ Added(v) = h[n + 1]
  <2>1. Len(v) \in Nat
    BY <1>1
  <2> QED
    BY <1>1, <2>1, AddedIsSum
<1> DEFINE S == {i \in 0 .. n : g[i] \in Int /\ h[i + 1] = x + g[i]}
<1>5. 0 \in S
  BY <1>1, <1>2, <1>3 DEF Sums
<1>6. ASSUME NEW i \in 1 .. n, i - 1 \in S PROVE i \in S
  <2>1. h[i + 1] = h[i] + w[i] /\ g[i] = g[i - 1] + w[i]
    BY <1>1, <1>2, <1>3 DEF Sums
  <2> QED
    BY <1>4, <1>6, <2>1
<1> HIDE DEF S
<1>7. 0 .. n \subseteq S
  BY <1>1, <1>5, <1>6, UpTo
<1> QED
  BY <1>1, <1>2, <1>3, <1>7 DEF S, v

LEMMA AddedMonotone ==
  ASSUME NEW v \in Seq(Int), NEW w \in Seq(Int), Len(v) = Len(w),
         \A i \in 1 .. Len(v) : v[i] <= w[i]
  PROVE  Added(v) <= Added(w)
<1> DEFINE n == Len(w)
<1>1. n \in Nat /\ \A i \in 1 .. n : w[i] \in Int /\ v[i] \in Int /\ v[i] <= w[i]
  OBVIOUS
<1>2. PICK g : Sums(g, v, n) /\ Added(v) = g[n]
  BY <1>1, AddedIsSum
<1>3. PICK h : Sums(h, w, n) /\ Added(w) = h[n]
  BY <1>1, AddedIsSum
<1> HIDE DEF n
<1> DEFINE S == {i \in 0 .. n : g[i] \in Int /\ h[i] \in Int /\ g[i] <= h[i]}
<1>4. 0 \in S
  BY <1>1, <1>2, <1>3 DEF Sums
<1>5. ASSUME NEW i \in 1 .. n, i - 1 \in S PROVE i \in S
  <2>1. h[i] = h[i - 1] + w[i] /\ g[i] = g[i - 1] + v[i]
    BY <1>1, <1>2, <1>3 DEF Sums
  <2> QED
    BY <1>1, <1>5, <2>1
<1> HIDE DEF S
<1>6. 0 .. n \subseteq S
  BY <1>1, <1>4, <1>5, UpTo
<1> QED
  BY <1>1, <1>2, <1>3, <1>6 DEF S

LEMMA AddedScaled ==
  ASSUME NEW v \in Seq(Int), NEW w \in Seq(Int), NEW c \in Int, Len(v) = Len(w),
         \A i \in 1 .. Len(v) : v[i] = c * w[i]
  PROVE  Added(v) = c * Added(w)
<1> DEFINE n == Len(w)
<1>1. n \in Nat /\ \A i \in 1 .. n : w[i] \in Int /\ v[i] \in Int /\ v[i] = c * w[i]
  OBVIOUS
<1>2. PICK g : Sums(g, v, n) /\ Added(v) = g[n]
  BY <1>1, AddedIsSum
<1>3. PICK h : Sums(h, w, n) /\ Added(w) = h[n]
  BY <1>1, AddedIsSum
<1> HIDE DEF n
<1> DEFINE S == {i \in 0 .. n : h[i] \in Int /\ g[i] = c * h[i]}
<1>4. 0 \in S
  BY <1>1, <1>2, <1>3 DEF Sums
<1>5. ASSUME NEW i \in 1 .. n, i - 1 \in S PROVE i \in S
  <2>1. h[i] = h[i - 1] + w[i] /\ g[i] = g[i - 1] + v[i]
    BY <1>1, <1>2, <1>3 DEF Sums
  <2>2. c * (h[i - 1] + w[i]) = c * h[i - 1] + c * w[i]
    BY <1>1, <1>5
  <2> QED
    BY <1>1, <1>5, <2>1, <2>2
<1> HIDE DEF S
<1>6. 0 .. n \subseteq S
  BY <1>1, <1>4, <1>5, UpTo
<1> QED
  BY <1>1, <1>2, <1>3, <1>6 DEF S
-----------------------------------------------------------------------------
(* The pools. *)

PoolType == [obtained : Nat, used : Nat, left : Nat, objects : SUBSET [at : Nat, size : Nat]]

\* A pool accounts for all of its space, and its objects for what is used of it.
PoolOK(p) ==
  /\ p.used + p.left + Header = p.obtained /\ p.obtained <= MAX_ALLOC_CHUNK
  /\ p.used % Align = 0
  /\ \A a \in p.objects : a.at % Align = 0 /\ a.at + a.size <= p.used
  /\ \A a, b \in p.objects : a # b => (a.at + a.size <= b.at) \/ (b.at + b.size <= a.at)
ListOK(list) == list \in Seq(PoolType) /\ \A i \in DOMAIN list : PoolOK(list[i])

StorageType == [small : [Pools -> Seq(PoolType)], large : [Pools -> Seq(PoolType)],
                total : Int, heap : Int, error : BOOLEAN]

\* What malloc() has given, but for base, is in the lists of pools.
InLists(s) == Released(s.small[PERMANENT]) + Released(s.small[IMAGE])
                + Released(s.large[PERMANENT]) + Released(s.large[IMAGE])
StorageOK(s, base) ==
  /\ s \in StorageType
  /\ \A pool \in Pools : ListOK(s.small[pool]) /\ ListOK(s.large[pool])
  /\ s.total = s.heap /\ s.heap = base + InLists(s)

\* Sizes are rounded up to multiples of the alignment.
LEMMA RoundedSize ==
  ASSUME NEW size \in Nat
  PROVE  /\ Rounded(size) \in Nat /\ size <= Rounded(size) /\ Rounded(size) % Align = 0
         /\ size <= MAX_ALLOC_CHUNK - Header => Rounded(size) + Header <= MAX_ALLOC_CHUNK
<1>1. CASE Align = 1
  BY <1>1, SizesAssumption DEF Rounded
<1>2. CASE Align = 2
  BY <1>2, SizesAssumption DEF Rounded
<1>3. CASE Align = 4
  BY <1>3, SizesAssumption DEF Rounded
<1>4. CASE Align = 8
  BY <1>4, SizesAssumption DEF Rounded
<1>5. CASE Align = 16
  BY <1>5, SizesAssumption DEF Rounded
<1> QED
  BY <1>1, <1>2, <1>3, <1>4, <1>5, SizesAssumption

LEMMA AlignedSum ==
  ASSUME NEW a \in Nat, NEW b \in Nat, a % Align = 0, b % Align = 0
  PROVE  (a + b) % Align = 0
<1>1. CASE Align = 1
  BY <1>1
<1>2. CASE Align = 2
  BY <1>2
<1>3. CASE Align = 4
  BY <1>3
<1>4. CASE Align = 8
  BY <1>4
<1>5. CASE Align = 16
  BY <1>5
<1> QED
  BY <1>1, <1>2, <1>3, <1>4, <1>5, SizesAssumption

\* What a list of pools takes from the heap.
LEMMA ReleasedEmpty == Released(<<>>) = 0
<1>1. [i \in DOMAIN <<>> |-> (<<>>)[i].obtained] = <<>>
  OBVIOUS
<1> QED
  BY <1>1, AddedEmpty DEF Released

LEMMA Obtainings ==
  ASSUME NEW list \in Seq(PoolType)
  PROVE  /\ [i \in DOMAIN list |-> list[i].obtained] \in Seq(Int)
         /\ Len([i \in DOMAIN list |-> list[i].obtained]) = Len(list)
<1>1. Len(list) \in Nat /\ DOMAIN list = 1 .. Len(list)
      /\ \A i \in 1 .. Len(list) : list[i] \in PoolType
  OBVIOUS
<1>2. \A i \in 1 .. Len(list) : list[i].obtained \in Int
  BY <1>1 DEF PoolType
<1> QED
  BY <1>1, <1>2

LEMMA ReleasedType ==
  ASSUME NEW list \in Seq(PoolType)
  PROVE  Released(list) \in Int
BY Obtainings, AddedType DEF Released

LEMMA ReleasedAppend ==
  ASSUME NEW list \in Seq(PoolType), NEW p \in PoolType
  PROVE  Released(Append(list, p)) = Released(list) + p.obtained
<1> DEFINE w == [i \in DOMAIN list |-> list[i].obtained]
           v == [i \in DOMAIN Append(list, p) |-> Append(list, p)[i].obtained]
<1>1. w \in Seq(Int) /\ Len(w) = Len(list) /\ v \in Seq(Int) /\ Len(v) = Len(Append(list, p))
  <2>1. Append(list, p) \in Seq(PoolType)
    OBVIOUS
  <2> QED
    BY <2>1, Obtainings
<1>2. p.obtained \in Int
  BY DEF PoolType
<1>3. Len(Append(list, p)) = Len(list) + 1
      /\ DOMAIN list = 1 .. Len(list) /\ DOMAIN Append(list, p) = 1 .. Len(list) + 1
      /\ Append(list, p)[Len(list) + 1] = p
      /\ \A i \in 1 .. Len(list) : Append(list, p)[i] = list[i]
  OBVIOUS
<1>4. \A i \in 1 .. Len(v) : v[i] = Append(w, p.obtained)[i]
  BY <1>1, <1>3
<1>5. v = Append(w, p.obtained)
  BY <1>1, <1>2, <1>3, <1>4, SeqEqual
<1> HIDE DEF v, w
<1>6. Added(v) = Added(w) + p.obtained
  BY <1>1, <1>2, <1>5, AddedAppend
<1> QED
  BY <1>6 DEF Released, v, w

LEMMA ReleasedCons ==
  ASSUME NEW list \in Seq(PoolType), NEW p \in PoolType
  PROVE  Released(<<p>> \o list) = p.obtained + Released(list)
<1> DEFINE w == [i \in DOMAIN list |-> list[i].obtained]
           v == [i \in DOMAIN (<<p>> \o list) |-> (<<p>> \o list)[i].obtained]
<1>1. w \in Seq(Int) /\ Len(w) = Len(list) /\ v \in Seq(Int) /\ Len(v) = Len(<<p>> \o list)
  <2>1. <<p>> \o list \in Seq(PoolType)
    OBVIOUS
  <2> QED
    BY <2>1, Obtainings
<1>2. p.obtained \in Int
  BY DEF PoolType
<1>3. Len(<<p>> \o list) = Len(list) + 1
      /\ DOMAIN list = 1 .. Len(list) /\ DOMAIN (<<p>> \o list) = 1 .. Len(list) + 1
      /\ (<<p>> \o list)[1] = p
      /\ \A i \in 2 .. Len(list) + 1 : (<<p>> \o list)[i] = list[i - 1]
  OBVIOUS
<1>4. \A i \in 1 .. Len(v) : v[i] = (<<p.obtained>> \o w)[i]
  BY <1>1, <1>2, <1>3
<1>5. v = <<p.obtained>> \o w
  BY <1>1, <1>2, <1>3, <1>4, SeqEqual
<1> HIDE DEF v, w
<1>6. Added(v) = p.obtained + Added(w)
  BY <1>1, <1>2, <1>5, AddedCons
<1> QED
  BY <1>6 DEF Released, v, w

LEMMA ReleasedSame ==
  ASSUME NEW l \in Seq(PoolType), NEW k \in Seq(PoolType), Len(l) = Len(k),
         \A i \in 1 .. Len(l) : l[i].obtained = k[i].obtained
  PROVE  Released(l) = Released(k)
<1>1. DOMAIN l = DOMAIN k /\ \A i \in DOMAIN l : l[i].obtained = k[i].obtained
  OBVIOUS
<1>2. [i \in DOMAIN l |-> l[i].obtained] = [i \in DOMAIN k |-> k[i].obtained]
  BY <1>1
<1> QED
  BY <1>2 DEF Released

\* free_pool() counts what malloc() gave, though it looks at the headers.
LEMMA SpaceIsReleased ==
  ASSUME NEW list, ListOK(list)
  PROVE  SpaceFreed(list) = Released(list)
<1>1. \A i \in DOMAIN list : list[i].used + list[i].left + Header = list[i].obtained
  BY DEF ListOK, PoolOK
<1>2. [i \in DOMAIN list |-> list[i].used + list[i].left + Header]
        = [i \in DOMAIN list |-> list[i].obtained]
  BY <1>1
<1> QED
  BY <1>2 DEF SpaceFreed, Released

\* Storage in which one list of pools has become another.
LEMMA StorageWith ==
  ASSUME NEW base \in Int, NEW s, StorageOK(s, base), NEW pool \in Pools, NEW x \in Int,
         NEW list, ListOK(list), NEW small, NEW large, NEW error \in BOOLEAN,
         \/ /\ small = [s.small EXCEPT ![pool] = list] /\ large = s.large
            /\ Released(list) = Released(s.small[pool]) + x
         \/ /\ small = s.small /\ large = [s.large EXCEPT ![pool] = list]
            /\ Released(list) = Released(s.large[pool]) + x
  PROVE  StorageOK([small |-> small, large |-> large, total |-> s.total + x,
                    heap |-> s.heap + x, error |-> error], base)
<1> DEFINE t == [small |-> small, large |-> large, total |-> s.total + x,
                 heap |-> s.heap + x, error |-> error]
<1>1. /\ s.small \in [Pools -> Seq(PoolType)] /\ s.large \in [Pools -> Seq(PoolType)]
      /\ s.total \in Int /\ s.heap \in Int /\ list \in Seq(PoolType)
      /\ s.total = s.heap /\ s.heap = base + InLists(s)
      /\ \A p \in Pools : ListOK(s.small[p]) /\ ListOK(s.large[p])
  BY DEF StorageOK, StorageType, ListOK
<1>2. small \in [Pools -> Seq(PoolType)] /\ large \in [Pools -> Seq(PoolType)]
  BY <1>1
<1>3. t \in StorageType /\ t.total = t.heap
  BY <1>1, <1>2 DEF StorageType
<1>4. \A p \in Pools : ListOK(small[p]) /\ ListOK(large[p])
  BY <1>1
<1>5. \A p \in Pools : /\ Released(s.small[p]) \in Int /\ Released(s.large[p]) \in Int
                       /\ Released(small[p]) \in Int /\ Released(large[p]) \in Int
  BY <1>1, <1>2, ReleasedType
<1>6. Pools = {PERMANENT, IMAGE} /\ PERMANENT # IMAGE
  BY DEF Pools, PERMANENT, IMAGE
<1>7. InLists(t) = Released(small[PERMANENT]) + Released(small[IMAGE])
                     + Released(large[PERMANENT]) + Released(large[IMAGE])
  BY DEF InLists
<1>8. InLists(t) = InLists(s) + x
  <2>1. CASE pool = PERMANENT
    <3>1. small[IMAGE] = s.small[IMAGE] /\ large[IMAGE] = s.large[IMAGE]
      BY <1>1, <1>6, <2>1
    <3>2. \/ large = s.large /\ Released(small[PERMANENT]) = Released(s.small[PERMANENT]) + x
          \/ small = s.small /\ Released(large[PERMANENT]) = Released(s.large[PERMANENT]) + x
      BY <1>1, <1>6, <2>1
    <3> QED
      BY <1>5, <1>6, <1>7, <3>1, <3>2 DEF InLists
  <2>2. CASE pool = IMAGE
    <3>1. small[PERMANENT] = s.small[PERMANENT] /\ large[PERMANENT] = s.large[PERMANENT]
      BY <1>1, <1>6, <2>2
    <3>2. \/ large = s.large /\ Released(small[IMAGE]) = Released(s.small[IMAGE]) + x
          \/ small = s.small /\ Released(large[IMAGE]) = Released(s.large[IMAGE]) + x
      BY <1>1, <1>6, <2>2
    <3> QED
      BY <1>5, <1>6, <1>7, <3>1, <3>2 DEF InLists
  <2> QED
    BY <1>6, <2>1, <2>2
<1>9. InLists(s) \in Int
  BY <1>5, <1>6 DEF InLists
<1>10. t.small = small /\ t.large = large /\ t.heap = s.heap + x
  OBVIOUS
<1> HIDE DEF t
<1>11. t.heap = base + InLists(t)
  BY <1>1, <1>8, <1>9, <1>10
<1>12. StorageOK(t, base)
  BY <1>3, <1>4, <1>10, <1>11 DEF StorageOK
<1> QED
  BY <1>12 DEF t

\* An object that is cut from a pool with room leaves it in order.
LEMMA CutPool ==
  ASSUME NEW p \in PoolType, PoolOK(p), NEW size \in Nat, Rounded(size) <= p.left
  PROVE  /\ Cut(p, size) \in PoolType /\ PoolOK(Cut(p, size))
         /\ Cut(p, size).obtained = p.obtained
<1> DEFINE new == [at |-> p.used, size |-> size]
           q == Cut(p, size)
<1>1. /\ Rounded(size) \in Nat /\ size <= Rounded(size) /\ Rounded(size) % Align = 0
  BY RoundedSize
<1>2. p.used \in Nat /\ p.left \in Nat /\ p.obtained \in Nat
      /\ p.objects \subseteq [at : Nat, size : Nat]
  BY DEF PoolType
<1>3. q = [obtained |-> p.obtained, used |-> p.used + Rounded(size),
           left |-> p.left - Rounded(size), objects |-> p.objects \union {new}]
  BY DEF Cut
<1> HIDE DEF q
<1>4. q \in PoolType
  BY <1>1, <1>2, <1>3 DEF PoolType
<1>5. q.used % Align = 0
  BY <1>1, <1>2, <1>3, AlignedSum DEF PoolOK
<1>6. \A a \in q.objects : a.at % Align = 0 /\ a.at + a.size <= q.used
  <2>1. ASSUME NEW a \in p.objects PROVE a.at % Align = 0 /\ a.at + a.size <= q.used
    <3>1. a.at + a.size <= p.used /\ a.at \in Nat /\ a.size \in Nat
      BY <1>2 DEF PoolOK
    <3> QED
      BY <1>1, <1>2, <1>3, <3>1 DEF PoolOK
  <2>2. new.at % Align = 0 /\ new.at + new.size <= q.used
    BY <1>1, <1>2, <1>3 DEF PoolOK
  <2> QED
    BY <1>3, <2>1, <2>2
<1>7. \A a, b \in q.objects : a # b => (a.at + a.size <= b.at) \/ (b.at + b.size <= a.at)
  <2>1. \A a \in p.objects : a.at + a.size <= new.at
    BY DEF PoolOK
  <2>2. \A a, b \in p.objects : a # b => (a.at + a.size <= b.at) \/ (b.at + b.size <= a.at)
    BY DEF PoolOK
  <2> HIDE DEF new
  <2> QED
    BY <1>3, <2>1, <2>2
<1>8. q.used + q.left + Header = q.obtained /\ q.obtained <= MAX_ALLOC_CHUNK
  BY <1>1, <1>2, <1>3, SizesAssumption DEF PoolOK
<1> QED
  BY <1>3, <1>4, <1>5, <1>6, <1>7, <1>8 DEF PoolOK, q

\* A new pool has room for the object it is made for, whatever slop malloc()
\* grants.
LEMMA NewPoolFits ==
  ASSUME NEW base \in Int, NEW s, StorageOK(s, base), ~ s.error, NEW pool \in Pools,
         NEW size \in Nat, size <= MAX_ALLOC_CHUNK - Header, ~ NewPool(s, pool, size).error
  PROVE  /\ StorageOK(NewPool(s, pool, size), base)
         /\ NewPool(s, pool, size).large = s.large
         /\ \E q \in PoolType : /\ NewPool(s, pool, size).small[pool] = Append(s.small[pool], q)
                                /\ Rounded(size) <= q.left
<1> DEFINE min_request == Rounded(size) + Header
           wanted == IF s.small[pool] = <<>> THEN FirstSlop[pool] ELSE ExtraSlop[pool]
           slop == Minimum(wanted, MAX_ALLOC_CHUNK - min_request)
           given == {u \in Slops(slop) : Gives(s, min_request + u)}
           most == CHOOSE u \in given : \A v \in given : u >= v
           q == [obtained |-> min_request + most, used |-> 0,
                 left |-> Rounded(size) + most, objects |-> {}]
           t == NewPool(s, pool, size)
<1>1. /\ Rounded(size) \in Nat /\ min_request \in Nat /\ min_request <= MAX_ALLOC_CHUNK
      /\ MAX_ALLOC_CHUNK \in Nat /\ Header \in Nat
  BY RoundedSize, SizesAssumption
<1>2. wanted \in Nat
  BY SizesAssumption
<1>3. slop \in Nat /\ slop <= MAX_ALLOC_CHUNK - min_request
  BY <1>1, <1>2 DEF Minimum
<1>4. given \subseteq 0 .. slop
  BY DEF Slops
<1>5. t = IF given = {} THEN Failed(s)
          ELSE [Obtained(s, min_request + most) EXCEPT !.small[pool] = Append(@, q)]
  BY DEF NewPool
<1>6. given # {}
  BY <1>5 DEF Failed, StorageOK, StorageType
<1> HIDE DEF given, slop, wanted
<1>7. \E u \in given : \A v \in given : u >= v
  BY <1>3, <1>4, <1>6, NatMax
<1>8. most \in given
  BY <1>7
<1> HIDE DEF most
<1>9. most \in Nat /\ min_request + most <= MAX_ALLOC_CHUNK
  BY <1>1, <1>3, <1>4, <1>8
<1>10. q \in PoolType /\ PoolOK(q) /\ Rounded(size) <= q.left
  BY <1>1, <1>9, SizesAssumption DEF PoolType, PoolOK
<1>11. ListOK(Append(s.small[pool], q))
       /\ Released(Append(s.small[pool], q)) = Released(s.small[pool]) + (min_request + most)
  <2>1. s.small[pool] \in Seq(PoolType) /\ \A i \in DOMAIN s.small[pool] : PoolOK(s.small[pool][i])
    BY DEF StorageOK, ListOK
  <2>2. /\ Append(s.small[pool], q) \in Seq(PoolType)
        /\ \A i \in DOMAIN Append(s.small[pool], q) :
             Append(s.small[pool], q)[i] = q \/ \E j \in DOMAIN s.small[pool] :
                                                  Append(s.small[pool], q)[i] = s.small[pool][j]
    BY <1>10, <2>1
  <2>3. \A i \in DOMAIN Append(s.small[pool], q) : PoolOK(Append(s.small[pool], q)[i])
    BY <1>10, <2>1, <2>2
  <2>4. Released(Append(s.small[pool], q)) = Released(s.small[pool]) + q.obtained
    BY <1>10, <2>1, ReleasedAppend
  <2> QED
    BY <2>2, <2>3, <2>4 DEF ListOK
<1> HIDE DEF q, min_request
<1>12. t = [small |-> [s.small EXCEPT ![pool] = Append(s.small[pool], q)], large |-> s.large,
            total |-> s.total + (min_request + most), heap |-> s.heap + (min_request + most),
            error |-> s.error]
  BY <1>5, <1>6 DEF Obtained, StorageOK, StorageType
<1> HIDE DEF t
<1>13. StorageOK(t, base)
  <2>1. PICK x \in Int : x = min_request + most
    BY <1>1, <1>9
  <2>2. s.error \in BOOLEAN
    BY DEF StorageOK, StorageType
  <2>3. PICK list : list = Append(s.small[pool], q)
    OBVIOUS
  <2>4. PICK small : small = [s.small EXCEPT ![pool] = list]
    OBVIOUS
  <2>5. StorageOK([small |-> small, large |-> s.large, total |-> s.total + x,
                   heap |-> s.heap + x, error |-> s.error], base)
    BY <1>11, <2>1, <2>2, <2>3, <2>4, StorageWith
  <2> QED
    BY <1>12, <2>1, <2>3, <2>4, <2>5
<1>14. t.large = s.large /\ t.small[pool] = Append(s.small[pool], q)
  BY <1>12 DEF StorageOK, StorageType
<1> QED
  BY <1>10, <1>13, <1>14 DEF t

\* out_of_memory() leaves the books as they are.
LEMMA FailedKeeps ==
  ASSUME NEW base \in Int, NEW s, StorageOK(s, base), NEW e \in BOOLEAN
  PROVE  StorageOK([s EXCEPT !.error = e], base)
<1>1. s \in StorageType
  BY DEF StorageOK
<1>2. [s EXCEPT !.error = e] = [small |-> s.small, large |-> s.large, total |-> s.total,
                                heap |-> s.heap, error |-> e]
  BY <1>1 DEF StorageType
<1>3. [s EXCEPT !.error = e] \in StorageType
  BY <1>1, <1>2 DEF StorageType
<1> QED
  BY <1>2, <1>3 DEF StorageOK, InLists

\* The object that alloc_small() makes is cut from a pool with room.
LEMMA AllocSmallKeeps ==
  ASSUME NEW base \in Int, NEW s, StorageOK(s, base), NEW pool \in Pools, NEW size \in Nat
  PROVE  StorageOK(alloc_small(s, pool, size), base)
<1> DEFINE Roomy(list) == {i \in DOMAIN list : list[i].left >= Rounded(size)}
           ready == IF Roomy(s.small[pool]) = {} THEN NewPool(s, pool, size) ELSE s
           room == Roomy(ready.small[pool])
           i == CHOOSE j \in room : \A k \in room : j <= k
<1>1. alloc_small(s, pool, size) =
        IF s.error THEN s
        ELSE IF size > MAX_ALLOC_CHUNK - Header THEN Failed(s)
        ELSE IF ready.error THEN ready
        ELSE [ready EXCEPT !.small[pool][i] = Cut(@, size)]
  BY DEF alloc_small
<1>2. StorageOK(Failed(s), base)
  BY FailedKeeps DEF Failed
<1>3. CASE s.error \/ size > MAX_ALLOC_CHUNK - Header
  BY <1>1, <1>2, <1>3
<1> SUFFICES ASSUME ~ s.error, size <= MAX_ALLOC_CHUNK - Header
             PROVE  StorageOK(alloc_small(s, pool, size), base)
  BY <1>3, SizesAssumption
<1>4. CASE ready.error
  <2>1. ready = NewPool(s, pool, size)
    BY <1>4
  <2>2. NewPool(s, pool, size) = Failed(s) \/ ~ NewPool(s, pool, size).error
    BY DEF NewPool, Obtained, StorageOK, StorageType
  <2> QED
    BY <1>1, <1>2, <1>4, <2>1, <2>2, SizesAssumption
<1>5. CASE ~ ready.error
  <2>1. /\ StorageOK(ready, base)
        /\ \E j \in DOMAIN ready.small[pool] : Rounded(size) <= ready.small[pool][j].left
    <3>1. CASE Roomy(s.small[pool]) = {}
      <4>1. ready = NewPool(s, pool, size)
        BY <3>1
      <4>2. PICK q \in PoolType : /\ ready.small[pool] = Append(s.small[pool], q)
                                  /\ Rounded(size) <= q.left
        BY <1>5, <4>1, NewPoolFits
      <4>3. StorageOK(ready, base)
        BY <1>5, <4>1, NewPoolFits
      <4>4. s.small[pool] \in Seq(PoolType)
        BY DEF StorageOK, ListOK
      <4> HIDE DEF ready
      <4>5. LET j == Len(s.small[pool]) + 1
            IN j \in DOMAIN ready.small[pool] /\ ready.small[pool][j] = q
        BY <4>2, <4>4
      <4> QED
        BY <4>2, <4>3, <4>5
    <3>2. CASE Roomy(s.small[pool]) # {}
      <4>1. PICK j : j \in Roomy(s.small[pool])
        BY <3>2
      <4>2. ready = s
        BY <3>2
      <4>3. Rounded(size) \in Nat /\ s.small[pool][j] \in PoolType
        BY <4>1, RoundedSize DEF StorageOK, ListOK
      <4> QED
        BY <4>1, <4>2, <4>3 DEF PoolType
    <3> QED
      BY <3>1, <3>2
  <2>2. /\ ready \in StorageType /\ ready.small[pool] \in Seq(PoolType)
        /\ Rounded(size) \in Nat
    BY <2>1, RoundedSize DEF StorageOK, ListOK
  <2> HIDE DEF ready
  <2>3. room \subseteq Nat /\ room # {}
    <3>1. \A j \in DOMAIN ready.small[pool] : j \in Nat /\ ready.small[pool][j].left \in Nat
      <4>1. \A j \in DOMAIN ready.small[pool] : j \in Nat /\ ready.small[pool][j] \in PoolType
        BY <2>2
      <4> QED
        BY <4>1 DEF PoolType
    <3> QED
      BY <2>1, <2>2, <3>1
  <2>4. \E j \in room : \A k \in room : j <= k
    BY <2>3, NatMin
  <2>5. i \in room
    BY <2>4
  <2> HIDE DEF i
  <2>6. i \in DOMAIN ready.small[pool] /\ ready.small[pool][i].left >= Rounded(size)
    BY <2>5
  <2> DEFINE p == ready.small[pool][i]
             list == [ready.small[pool] EXCEPT ![i] = Cut(p, size)]
  <2>7. p \in PoolType /\ PoolOK(p) /\ Rounded(size) <= p.left
    <3>1. p \in PoolType /\ PoolOK(p)
      BY <2>1, <2>2, <2>6 DEF StorageOK, ListOK
    <3> QED
      BY <2>2, <2>6, <3>1 DEF PoolType
  <2>8. /\ Cut(p, size) \in PoolType /\ PoolOK(Cut(p, size))
        /\ Cut(p, size).obtained = p.obtained
    BY <2>7, CutPool
  <2>9. /\ list \in Seq(PoolType) /\ Len(list) = Len(ready.small[pool])
        /\ \A j \in DOMAIN list :
             list[j] = IF j = i THEN Cut(p, size) ELSE ready.small[pool][j]
    BY <2>2, <2>6, <2>8, ExceptSeq
  <2>10. ListOK(list) /\ Released(list) = Released(ready.small[pool])
    <3>1. \A j \in DOMAIN ready.small[pool] : PoolOK(ready.small[pool][j])
      BY <2>1 DEF StorageOK, ListOK
    <3>2. ListOK(list)
      BY <2>2, <2>8, <2>9, <3>1 DEF ListOK
    <3> HIDE DEF list
    <3>3. \A j \in 1 .. Len(list) : list[j].obtained = ready.small[pool][j].obtained
      BY <2>2, <2>8, <2>9
    <3> QED
      BY <2>2, <2>9, <3>2, <3>3, ReleasedSame
  <2>11. [ready EXCEPT !.small[pool][i] = Cut(@, size)] =
           [small |-> [ready.small EXCEPT ![pool] = list], large |-> ready.large,
            total |-> ready.total, heap |-> ready.heap, error |-> ready.error]
    <3>1. PICK c : c = Cut(ready.small[pool][i], size)
      OBVIOUS
    <3>2. ready = [small |-> ready.small, large |-> ready.large, total |-> ready.total,
                   heap |-> ready.heap, error |-> ready.error]
      BY <2>2 DEF StorageType
    <3>3. [ready EXCEPT !.small[pool][i] = Cut(@, size)]
            = [ready EXCEPT !.small = [ready.small EXCEPT ![pool] = [ready.small[pool] EXCEPT ![i] = c]]]
      BY <2>2, <3>1 DEF StorageType
    <3>4. list = [ready.small[pool] EXCEPT ![i] = c]
      BY <3>1
    <3> HIDE DEF list
    <3> QED
      BY <3>2, <3>3, <3>4
  <2>12. ready.error \in BOOLEAN /\ ready.total + 0 = ready.total
         /\ ready.heap + 0 = ready.heap
         /\ Released(ready.small[pool]) + 0 = Released(ready.small[pool])
    BY <2>2, ReleasedType DEF StorageType
  <2> HIDE DEF list
  <2>13. PICK small : small = [ready.small EXCEPT ![pool] = list]
    OBVIOUS
  <2>14. Released(list) = Released(ready.small[pool]) + 0
    BY <2>10, <2>12
  <2>15. StorageOK([small |-> small, large |-> ready.large, total |-> ready.total + 0,
                    heap |-> ready.heap + 0, error |-> ready.error], base)
    BY <2>1, <2>10, <2>12, <2>13, <2>14, StorageWith
  <2>16. alloc_small(s, pool, size) = [ready EXCEPT !.small[pool][i] = Cut(@, size)]
    BY <1>1, <1>5, SizesAssumption
  <2> QED
    BY <2>11, <2>12, <2>13, <2>15, <2>16
<1> QED
  BY <1>4, <1>5

\* A large object has a pool of its own, at the head of its list.
LEMMA AllocLargeKeeps ==
  ASSUME NEW base \in Int, NEW s, StorageOK(s, base), NEW pool \in Pools, NEW size \in Nat
  PROVE  StorageOK(alloc_large(s, pool, size), base)
<1> DEFINE request == Rounded(size) + Header
           q == [obtained |-> request, used |-> Rounded(size), left |-> 0,
                 objects |-> {[at |-> 0, size |-> size]}]
<1>1. CASE s.error
  BY <1>1 DEF alloc_large
<1>2. CASE ~ s.error /\ (size > MAX_ALLOC_CHUNK - Header \/ ~ Gives(s, request))
  BY <1>2, FailedKeeps DEF alloc_large, Failed
<1>3. CASE ~ s.error /\ ~ (size > MAX_ALLOC_CHUNK - Header \/ ~ Gives(s, request))
  <2>1. /\ Rounded(size) \in Nat /\ size <= Rounded(size) /\ Rounded(size) % Align = 0
        /\ request <= MAX_ALLOC_CHUNK
    BY <1>3, RoundedSize, SizesAssumption
  <2>2. 0 % Align = 0
    BY SizesAssumption
  <2>3. q \in PoolType /\ PoolOK(q) /\ q.obtained = request /\ request \in Int
    <3>1. q \in PoolType /\ request \in Nat
      BY <2>1, SizesAssumption DEF PoolType
    <3>2. \A a \in q.objects : a = [at |-> 0, size |-> size]
      OBVIOUS
    <3>3. \A a \in q.objects : a.at % Align = 0 /\ a.at + a.size <= q.used
      BY <2>1, <2>2, <3>2
    <3>4. \A a, b \in q.objects : a = b
      BY <3>2
    <3>5. q.used + q.left + Header = q.obtained /\ q.obtained <= MAX_ALLOC_CHUNK
          /\ q.used % Align = 0
      BY <2>1, SizesAssumption
    <3> QED
      BY <3>1, <3>3, <3>4, <3>5 DEF PoolOK
  <2>4. /\ s.large[pool] \in Seq(PoolType)
        /\ \A i \in DOMAIN s.large[pool] : PoolOK(s.large[pool][i])
        /\ s \in StorageType
    BY DEF StorageOK, ListOK
  <2>5. alloc_large(s, pool, size) =
          [small |-> s.small, large |-> [s.large EXCEPT ![pool] = <<q>> \o s.large[pool]],
           total |-> s.total + request, heap |-> s.heap + request, error |-> s.error]
    BY <1>3, <2>4 DEF alloc_large, Obtained, StorageType
  <2> HIDE DEF q, request
  <2>6. PICK list : list = <<q>> \o s.large[pool]
    OBVIOUS
  <2>7. ListOK(list)
    <3>1. /\ list \in Seq(PoolType) /\ Len(list) = Len(s.large[pool]) + 1
          /\ list[1] = q
          /\ \A i \in 2 .. Len(s.large[pool]) + 1 : list[i] = s.large[pool][i - 1]
      BY <2>3, <2>4, <2>6
    <3>2. \A i \in DOMAIN list : i = 1 \/ i - 1 \in DOMAIN s.large[pool]
      BY <2>4, <3>1
    <3>3. \A i \in DOMAIN list : PoolOK(list[i])
      BY <2>3, <2>4, <3>1, <3>2
    <3> QED
      BY <3>1, <3>3 DEF ListOK
  <2>8. Released(list) = Released(s.large[pool]) + request
    BY <2>3, <2>4, <2>6, ReleasedCons, ReleasedType
  <2>9. s.error \in BOOLEAN
    BY <2>4 DEF StorageType
  <2>10. PICK large : large = [s.large EXCEPT ![pool] = list]
    OBVIOUS
  <2>11. StorageOK([small |-> s.small, large |-> large, total |-> s.total + request,
                    heap |-> s.heap + request, error |-> s.error], base)
    BY <2>3, <2>7, <2>8, <2>9, <2>10, StorageWith
  <2> QED
    BY <2>5, <2>6, <2>10, <2>11
<1> QED
  BY <1>1, <1>2, <1>3

LEMMA ChunkRows ==
  ASSUME NEW width \in Nat \ {0}, NEW numrows \in Nat, width <= MAX_ALLOC_CHUNK - Header
  PROVE  /\ RowsPerChunk(width, numrows) \in 0 .. numrows
         /\ numrows > 0 => RowsPerChunk(width, numrows) > 0
<1>1. PICK room \in Nat : room = MAX_ALLOC_CHUNK - Header
  BY SizesAssumption
<1>2. room \div width \in Nat /\ room \div width >= 1
  BY <1>1
<1> QED
  BY <1>1, <1>2 DEF RowsPerChunk, Minimum

\* An array of rows takes one small object and large ones.
LEMMA AllocRowsKeeps ==
  ASSUME NEW base \in Int, NEW s, StorageOK(s, base), NEW pool \in Pools,
         NEW width \in Nat \ {0}, NEW numrows \in Nat
  PROVE  /\ StorageOK(alloc_rows(s, pool, width, numrows), base)
         /\ ~ alloc_rows(s, pool, width, numrows).error => width <= MAX_ALLOC_CHUNK - Header
<1>1. CASE s.error \/ width > MAX_ALLOC_CHUNK - Header
  <2>1. alloc_rows(s, pool, width, numrows) = Failed(s)
    BY <1>1 DEF alloc_rows
  <2>2. Failed(s).error
    BY DEF Failed, StorageOK, StorageType
  <2> QED
    BY <2>1, <2>2, FailedKeeps DEF Failed
<1>2. CASE ~ (s.error \/ width > MAX_ALLOC_CHUNK - Header)
  <2> DEFINE rpc == RowsPerChunk(width, numrows)
             chunks == IF numrows = 0 THEN 0 ELSE (numrows - 1) \div rpc + 1
             Size(k) == Minimum(rpc, numrows - (k - 1) * rpc) * width
             Chain(g, n) ==
               g = [k \in 0 .. n |->
                      IF k = 0 THEN alloc_small(s, pool, numrows * Pointer)
                      ELSE alloc_large(g[k - 1], pool, Size(k))]
             done == CHOOSE g : Chain(g, chunks)
  <2>1. alloc_rows(s, pool, width, numrows) = done[chunks]
    BY <1>2 DEF alloc_rows
  <2>2. width <= MAX_ALLOC_CHUNK - Header
    BY <1>2, SizesAssumption
  <2>3. rpc \in 0 .. numrows /\ (numrows > 0 => rpc > 0)
    BY <2>2, ChunkRows
  <2>4. chunks \in Nat /\ \A k \in 1 .. chunks : Size(k) \in Nat
    <3>1. CASE numrows = 0
      BY <3>1
    <3>2. CASE numrows # 0
      <4> HIDE DEF rpc
      <4>1. PICK m \in Nat, d \in Nat \ {0} : m = numrows - 1 /\ d = rpc
        BY <2>3, <3>2
      <4>2. m \div d \in Nat /\ d * (m \div d) <= m
        BY <4>1
      <4>3. chunks \in Nat
        BY <3>2, <4>1, <4>2
      <4>4. ASSUME NEW k \in 1 .. chunks PROVE Size(k) \in Nat
        <5>1. k - 1 \in 0 .. m \div d
          BY <3>2, <4>1, <4>2
        <5>2. (k - 1) * d <= d * (m \div d)
          BY <4>1, <4>2, <5>1
        <5>3. PICK y \in Int : y = (k - 1) * d
          BY <4>1, <5>1
        <5>4. Minimum(rpc, numrows - (k - 1) * rpc) \in Nat
          BY <4>1, <4>2, <5>2, <5>3 DEF Minimum
        <5>5. PICK x \in Nat : x = Minimum(rpc, numrows - (k - 1) * rpc)
          BY <5>4
        <5>6. x * width \in Nat
          OBVIOUS
        <5> QED
          BY <5>5, <5>6
      <4> QED
        BY <4>3, <4>4
    <3> QED
      BY <3>1, <3>2
  <2> HIDE DEF chunks, Size
  <2>5. \E g : Chain(g, chunks)
    <3> DEFINE S == {n \in 0 .. chunks : \E g : Chain(g, n)}
    <3>1. 0 \in S
      <4>1. Chain([k \in 0 .. 0 |-> alloc_small(s, pool, numrows * Pointer)], 0)
        OBVIOUS
      <4> HIDE DEF Chain
      <4> QED
        BY <2>4, <4>1
    <3>2. ASSUME NEW n \in 1 .. chunks, n - 1 \in S PROVE n \in S
      <4>1. PICK g : Chain(g, n - 1)
        BY <3>2
      <4> DEFINE h == [k \in 0 .. n |-> IF k < n THEN g[k]
                                        ELSE alloc_large(g[n - 1], pool, Size(n))]
      <4>2. ASSUME NEW k \in 0 .. n
            PROVE h[k] = IF k = 0 THEN alloc_small(s, pool, numrows * Pointer)
                         ELSE alloc_large(h[k - 1], pool, Size(k))
        <5>1. CASE k < n
          BY <4>1, <5>1
        <5>2. CASE k = n
          BY <5>2
        <5> QED
          BY <5>1, <5>2
      <4>3. Chain(h, n)
        BY <4>2
      <4> HIDE DEF Chain, h
      <4> QED
        BY <4>3
    <3> HIDE DEF S
    <3>3. 0 .. chunks \subseteq S
      BY <2>4, <3>1, <3>2, UpTo
    <3> HIDE DEF Chain
    <3> QED
      BY <2>4, <3>3 DEF S
  <2>6. PICK g : g = done /\ Chain(g, chunks)
    BY <2>5
  <2> HIDE DEF done
  <2> DEFINE S == {k \in 0 .. chunks : StorageOK(g[k], base)}
  <2>7. 0 \in S
    <3>1. numrows * Pointer \in Nat
      BY SizesAssumption
    <3>2. g[0] = alloc_small(s, pool, numrows * Pointer)
      BY <2>4, <2>6
    <3> QED
      BY <2>4, <3>1, <3>2, AllocSmallKeeps
  <2>8. ASSUME NEW k \in 1 .. chunks, k - 1 \in S PROVE k \in S
    <3>1. g[k] = alloc_large(g[k - 1], pool, Size(k))
      BY <2>4, <2>6
    <3>2. PICK before, size : before = g[k - 1] /\ size = Size(k)
      OBVIOUS
    <3>3. StorageOK(before, base) /\ size \in Nat
      BY <2>4, <2>8, <3>2
    <3>4. StorageOK(alloc_large(before, pool, size), base)
      BY <3>3, AllocLargeKeeps
    <3> QED
      BY <2>4, <3>1, <3>2, <3>4
  <2> HIDE DEF S
  <2>9. 0 .. chunks \subseteq S
    BY <2>4, <2>7, <2>8, UpTo
  <2>10. StorageOK(g[chunks], base)
    BY <2>4, <2>9 DEF S
  <2> QED
    BY <2>1, <2>2, <2>6, <2>10
<1> QED
  BY <1>1, <1>2
-----------------------------------------------------------------------------
(* The virtual arrays and their windows. *)

ShapeType == [kind : {"sample", "block"}, width : Nat \ {0}, rows : Nat \ {0},
              maxaccess : Nat \ {0}]
BufferType == UNION {[0 .. n - 1 -> Int \X Int] : n \in Nat}
ControlType == [shape : ShapeType, watched : BOOLEAN, realized : BOOLEAN, rows_in_mem : Nat,
                b_s_open : BOOLEAN, mem_buffer : BufferType, rowsperchunk : Nat]

\* What WindowsAreWhole says of an array.
Whole(a) ==
  /\ IF a.b_s_open THEN a.rows_in_mem >= a.shape.maxaccess /\ a.rows_in_mem < a.shape.rows
     ELSE a.rows_in_mem = a.shape.rows
  /\ a.rowsperchunk > 0
  /\ \A r \in 1 .. a.rows_in_mem - 1 :
       r % a.rowsperchunk # 0 =>
         /\ a.mem_buffer[r][1] = a.mem_buffer[r - 1][1]
         /\ a.mem_buffer[r][2] = a.mem_buffer[r - 1][2] + a.shape.width

LEMMA AddedPositive ==
  ASSUME NEW w \in Seq(Nat)
  PROVE  /\ Added(w) \in Nat
         /\ (\E j \in 1 .. Len(w) : w[j] > 0) => Added(w) > 0
<1> DEFINE n == Len(w)
<1>1. n \in Nat /\ \A i \in 1 .. n : w[i] \in Nat
  OBVIOUS
<1>2. PICK g : Sums(g, w, n) /\ Added(w) = g[n]
  BY <1>1, AddedIsSum
<1> HIDE DEF n
<1> DEFINE S == {i \in 0 .. n : g[i] \in Nat /\ ((\E j \in 1 .. i : w[j] > 0) => g[i] > 0)}
<1>3. 0 \in S
  BY <1>1, <1>2 DEF Sums
<1>4. ASSUME NEW i \in 1 .. n, i - 1 \in S PROVE i \in S
  <2>1. g[i] = g[i - 1] + w[i] /\ w[i] \in Nat
    BY <1>1, <1>2 DEF Sums
  <2>2. \A j \in 1 .. i : j \in 1 .. i - 1 \/ j = i
    OBVIOUS
  <2> QED
    BY <1>4, <2>1, <2>2
<1> HIDE DEF S
<1>5. 0 .. n \subseteq S
  BY <1>1, <1>3, <1>4, UpTo
<1> QED
  BY <1>1, <1>2, <1>5 DEF S, n

\* The needs of the arrays that have no window yet.
Typed == /\ storage \in StorageType /\ arrays \in Seq(ControlType)
         /\ setup \in [heap : Nat, limit : Int, files : BOOLEAN]

LEMMA Needs ==
  ASSUME Typed
  PROVE  /\ [i \in DOMAIN arrays |-> PerMinheight(i)] \in Seq(Nat)
         /\ [i \in DOMAIN arrays |-> FullHeight(i)] \in Seq(Nat)
         /\ Len([i \in DOMAIN arrays |-> PerMinheight(i)]) = Len(arrays)
         /\ Len([i \in DOMAIN arrays |-> FullHeight(i)]) = Len(arrays)
         /\ space_per_minheight \in Nat /\ maximum_space \in Nat
         /\ jpeg_mem_available \in Int
         /\ Unrealized_arrays # {} => space_per_minheight > 0
<1>1. /\ Len(arrays) \in Nat /\ DOMAIN arrays = 1 .. Len(arrays)
      /\ \A i \in 1 .. Len(arrays) : arrays[i] \in ControlType
  BY DEF Typed
<1>2. ASSUME NEW i \in 1 .. Len(arrays)
      PROVE  /\ PerMinheight(i) \in Nat /\ FullHeight(i) \in Nat
             /\ ~ arrays[i].realized => PerMinheight(i) > 0
  <2>1. arrays[i].shape \in ShapeType /\ arrays[i].realized \in BOOLEAN
    BY <1>1 DEF ControlType
  <2>2. PICK x \in Nat \ {0}, y \in Nat \ {0}, z \in Nat \ {0} :
          x = arrays[i].shape.maxaccess /\ y = arrays[i].shape.width /\ z = arrays[i].shape.rows
    BY <2>1 DEF ShapeType
  <2>3. x * y \in Nat \ {0} /\ z * y \in Nat
    BY <2>2
  <2> QED
    BY <2>1, <2>2, <2>3 DEF PerMinheight, FullHeight
<1> DEFINE v == [i \in DOMAIN arrays |-> PerMinheight(i)]
           w == [i \in DOMAIN arrays |-> FullHeight(i)]
<1>3. /\ v \in Seq(Nat) /\ w \in Seq(Nat) /\ Len(v) = Len(arrays) /\ Len(w) = Len(arrays)
      /\ \A i \in 1 .. Len(arrays) : v[i] = PerMinheight(i)
  BY <1>1, <1>2
<1>4. space_per_minheight = Added(v) /\ maximum_space = Added(w)
  BY DEF space_per_minheight, maximum_space
<1> HIDE DEF v, w
<1>5. space_per_minheight \in Nat /\ maximum_space \in Nat
  BY <1>3, <1>4, AddedPositive
<1>6. jpeg_mem_available \in Int
  BY <1>5 DEF jpeg_mem_available, Typed, StorageType
<1>7. ASSUME Unrealized_arrays # {} PROVE space_per_minheight > 0
  <2>1. PICK i \in 1 .. Len(v) : v[i] > 0
    BY <1>1, <1>2, <1>3, <1>7 DEF Unrealized_arrays
  <2> QED
    BY <1>3, <1>4, <2>1, AddedPositive
<1> QED
  BY <1>3, <1>5, <1>6, <1>7 DEF v, w

\* The height of a window: all rows, or some strips and fewer rows than all.
LEMMA WindowHeight ==
  ASSUME Typed, Unrealized_arrays # {}, NEW shape \in ShapeType
  PROVE  /\ WindowRows(shape) \in Nat
         /\ FitsInMemory(shape) => WindowRows(shape) = shape.rows
         /\ ~ FitsInMemory(shape) => /\ WindowRows(shape) >= shape.maxaccess
                                     /\ WindowRows(shape) < shape.rows
         /\ max_minheights \in Nat \ {0}
         /\ WindowRows(shape) <= max_minheights * shape.maxaccess
              \/ jpeg_mem_available >= maximum_space
         /\ \/ max_minheights = 1
            \/ max_minheights * space_per_minheight <= jpeg_mem_available
<1>1. PICK avail \in Int, spm \in Nat \ {0}, full \in Nat :
        avail = jpeg_mem_available /\ spm = space_per_minheight /\ full = maximum_space
  BY Needs
<1>2. PICK rows \in Nat \ {0}, high \in Nat \ {0} : rows = shape.rows /\ high = shape.maxaccess
  BY DEF ShapeType
<1>3. PICK m \in Nat \ {0} :
        m = max_minheights /\ (m = 1 \/ (avail >= 0 /\ m = avail \div spm))
  <2>1. avail >= 0 => avail \div spm \in Nat
    BY <1>1
  <2> QED
    BY <1>1, <2>1 DEF max_minheights, Maximum
<1>4. m = 1 \/ m * spm <= avail
  <2>1. avail >= 0 => (avail \div spm) * spm <= avail
    BY <1>1
  <2> QED
    BY <1>3, <2>1
<1>5. PICK q \in Nat : q = (rows - 1) \div high /\ q * high <= rows - 1 /\ rows - 1 < q * high + high
  BY <1>2
<1>6. minheights(shape) = q + 1
  BY <1>2, <1>5 DEF minheights
<1>7. ASSUME ~ FitsInMemory(shape) PROVE m * high < rows /\ m * high >= high /\ m * high \in Nat
  <2>1. m <= q
    BY <1>3, <1>5, <1>6, <1>7 DEF FitsInMemory
  <2>2. m * high <= q * high /\ 1 * high <= m * high
    BY <1>2, <1>3, <1>5, <2>1
  <2> QED
    BY <1>2, <1>3, <1>5, <2>2
<1>8. ASSUME FitsInMemory(shape), ~ (avail >= full) PROVE rows <= m * high
  <2>1. q + 1 <= m
    BY <1>1, <1>3, <1>6, <1>8 DEF FitsInMemory
  <2>2. PICK d \in Nat : m = (q + 1) + d
    BY <1>3, <1>5, <2>1
  <2>3. m * high = q * high + high + d * high /\ d * high \in Nat
    BY <1>2, <1>5, <2>2
  <2>4. PICK x \in Int, y \in Nat : x = q * high /\ y = d * high
    BY <1>2, <1>5, <2>2, <2>3
  <2>5. m * high = x + high + y /\ rows - 1 < x + high
    BY <1>5, <2>3, <2>4
  <2> QED
    BY <1>2, <2>4, <2>5
<1>9. WindowRows(shape) = IF FitsInMemory(shape) THEN rows ELSE m * high
  BY <1>2, <1>3 DEF WindowRows
<1>10. WindowRows(shape) \in Nat
  BY <1>2, <1>7, <1>9
<1>11. ~ FitsInMemory(shape) => WindowRows(shape) >= high /\ WindowRows(shape) < rows
  BY <1>7, <1>9
<1>12. WindowRows(shape) <= m * high \/ avail >= full
  <2>1. PICK x \in Int : x = m * high
    OBVIOUS
  <2> QED
    BY <1>8, <1>9, <2>1
<1> QED
  BY <1>1, <1>2, <1>3, <1>4, <1>9, <1>10, <1>11, <1>12

LEMMA SameChunk ==
  ASSUME NEW r \in Nat \ {0}, NEW rpc \in Nat \ {0}, r % rpc # 0
  PROVE  /\ (r - 1) \div rpc = r \div rpc
         /\ (r - 1) % rpc \in Int /\ r % rpc = ((r - 1) % rpc) + 1
OBVIOUS

\* The rows of a chunk lie side by side.
LEMMA RowsSideBySide ==
  ASSUME NEW s, NEW pool, Len(s.large[pool]) \in Nat, NEW width \in Nat \ {0}, NEW n \in Nat,
         RowsPerChunk(width, n) \in Nat \ {0}
  PROVE  /\ RowsOf(s, pool, width, n) \in BufferType
         /\ \A r \in 1 .. n - 1 :
              r % RowsPerChunk(width, n) # 0 =>
                /\ RowsOf(s, pool, width, n)[r][1] = RowsOf(s, pool, width, n)[r - 1][1]
                /\ RowsOf(s, pool, width, n)[r][2] = RowsOf(s, pool, width, n)[r - 1][2] + width
<1>1. PICK large \in Nat, rpc \in Nat \ {0} :
        large = Len(s.large[pool]) /\ rpc = RowsPerChunk(width, n)
  OBVIOUS
<1>2. PICK buffer : buffer = RowsOf(s, pool, width, n)
  OBVIOUS
<1>3. buffer = [i \in 0 .. n - 1 |-> <<large + 1 + i \div rpc, (i % rpc) * width>>]
  BY <1>1, <1>2 DEF RowsOf
<1>4. buffer \in [0 .. n - 1 -> Int \X Int]
  <2>1. \A i \in 0 .. n - 1 : i \div rpc \in Int /\ i % rpc \in Int
    OBVIOUS
  <2>2. \A x \in Int : x * width \in Int
    OBVIOUS
  <2>3. \A i \in 0 .. n - 1 : /\ large + 1 + i \div rpc \in Int
                              /\ (i % rpc) * width \in Int
    BY <2>1, <2>2
  <2> QED
    BY <1>3, <2>3
<1>5. ASSUME NEW r \in 1 .. n - 1, r % rpc # 0
      PROVE  /\ buffer[r][1] = buffer[r - 1][1]
             /\ buffer[r][2] = buffer[r - 1][2] + width
  <2>1. /\ (r - 1) \div rpc = r \div rpc
        /\ (r - 1) % rpc \in Int /\ r % rpc = ((r - 1) % rpc) + 1
    <3>1. r \in Nat \ {0}
      OBVIOUS
    <3> QED
      BY <1>5, <3>1, SameChunk, Zenon
  <2>2. PICK m : m = (r - 1) % rpc
    OBVIOUS
  <2>3. (m + 1) * width = m * width + width
    <3>1. m \in Int
      BY <2>1, <2>2, Zenon
    <3> QED
      BY <3>1
  <2>4. r \in 0 .. n - 1 /\ r - 1 \in 0 .. n - 1
    OBVIOUS
  <2>5. buffer[r] = <<large + 1 + r \div rpc, (m + 1) * width>>
    BY <1>3, <2>1, <2>2, <2>4
  <2>6. buffer[r - 1] = <<large + 1 + (r - 1) \div rpc, m * width>>
    BY <1>3, <2>2, <2>4
  <2>7. PICK x, y, z : x = large + 1 + r \div rpc /\ y = m * width /\ z = y + width
    OBVIOUS
  <2>8. buffer[r] = <<x, z>> /\ buffer[r - 1] = <<x, y>>
    BY <2>1, <2>3, <2>5, <2>6, <2>7, Zenon
  <2>9. \A a, b, c : a = <<b, c>> => (a[1] = b /\ a[2] = c)
    OBVIOUS
  <2>10. buffer[r][1] = x /\ buffer[r][2] = z /\ buffer[r - 1][1] = x /\ buffer[r - 1][2] = y
    BY <2>8, <2>9, Zenon
  <2> QED
    BY <2>7, <2>10, Zenon
<1> QED
  BY <1>1, <1>2, <1>4, <1>5 DEF BufferType

Opened(list) == {i \in DOMAIN list : list[i].b_s_open}

\* What realize_virt_arrays() has made of the arrays so far.
AccOK(acc) ==
  /\ acc \in [storage : StorageType, arrays : Seq(ControlType), files : Int, may_open : Int]
  /\ StorageOK(acc.storage, Control)
  /\ Len(acc.arrays) = Len(arrays)
  /\ acc.files = Cardinality(Opened(acc.arrays))
  /\ \A i \in 1 .. Len(arrays) :
       /\ acc.arrays[i].shape = arrays[i].shape /\ acc.arrays[i].watched = arrays[i].watched
       /\ acc.arrays[i].realized =>
            /\ Whole(acc.arrays[i])
            /\ ~ arrays[i].realized => acc.arrays[i].rows_in_mem = WindowRows(arrays[i].shape)
       /\ arrays[i].realized => acc.arrays[i] = arrays[i]

\* One control block is replaced, perhaps by one with a file.
Replaced(acc, i, b, s, files1, may) ==
  [storage |-> s, arrays |-> [acc.arrays EXCEPT ![i] = b], files |-> files1, may_open |-> may]
LEMMA AccWith ==
  ASSUME Typed, NEW acc, AccOK(acc), NEW i \in Unrealized_arrays,
         acc.arrays[i] = arrays[i], ~ arrays[i].b_s_open,
         NEW s, StorageOK(s, Control), NEW files1 \in Int, NEW may \in Int,
         NEW b \in ControlType, b.shape = arrays[i].shape, b.watched = arrays[i].watched,
         b.realized => Whole(b) /\ b.rows_in_mem = WindowRows(arrays[i].shape),
         files1 = acc.files + (IF b.b_s_open THEN 1 ELSE 0)
  PROVE  AccOK(Replaced(acc, i, b, s, files1, may))
<1>0. PICK list : list = [acc.arrays EXCEPT ![i] = b]
  OBVIOUS
<1>1. /\ acc.arrays \in Seq(ControlType) /\ Len(acc.arrays) = Len(arrays) /\ Len(arrays) \in Nat
      /\ acc.files = Cardinality(Opened(acc.arrays))
      /\ i \in 1 .. Len(arrays) /\ ~ acc.arrays[i].b_s_open
  BY DEF AccOK, Typed, Unrealized_arrays
<1>2. /\ list \in Seq(ControlType) /\ Len(list) = Len(arrays) /\ list[i] = b
      /\ \A j \in 1 .. Len(arrays) : j # i => list[j] = acc.arrays[j]
  BY <1>0, <1>1
<1>3. files1 = Cardinality(Opened(list))
  <2>1. IsFiniteSet(Opened(acc.arrays)) /\ Cardinality(Opened(acc.arrays)) \in Nat
    <3>1. IsFiniteSet(1 .. Len(arrays))
      BY <1>1, FS_Interval
    <3>2. Opened(acc.arrays) \subseteq 1 .. Len(arrays)
      BY <1>1 DEF Opened
    <3> QED
      BY <3>1, <3>2, FS_Subset, FS_CardinalityType
  <2>2. CASE b.b_s_open
    <3>1. Opened(list) = Opened(acc.arrays) \union {i} /\ ~ (i \in Opened(acc.arrays))
      BY <1>1, <1>2, <2>2 DEF Opened
    <3>2. Cardinality(Opened(acc.arrays) \union {i}) = Cardinality(Opened(acc.arrays)) + 1
      BY <2>1, <3>1, FS_AddElement
    <3> QED
      BY <1>1, <2>1, <2>2, <3>1, <3>2
  <2>3. CASE ~ b.b_s_open
    <3>1. Opened(list) = Opened(acc.arrays)
      BY <1>1, <1>2, <2>3 DEF Opened
    <3> QED
      BY <1>1, <2>1, <2>3, <3>1
  <2> QED
    BY <2>2, <2>3
<1>4. ASSUME NEW j \in 1 .. Len(arrays)
      PROVE  /\ list[j].shape = arrays[j].shape /\ list[j].watched = arrays[j].watched
             /\ list[j].realized =>
                  /\ Whole(list[j])
                  /\ ~ arrays[j].realized => list[j].rows_in_mem = WindowRows(arrays[j].shape)
             /\ arrays[j].realized => list[j] = arrays[j]
  <2>1. CASE j = i
    BY <1>2, <2>1 DEF Unrealized_arrays
  <2>2. CASE j # i
    BY <1>2, <2>2 DEF AccOK
  <2> QED
    BY <2>1, <2>2
<1>5. s \in StorageType
  BY DEF StorageOK
<1> DEFINE r == Replaced(acc, i, b, s, files1, may)
<1>6. r = [storage |-> s, arrays |-> list, files |-> files1, may_open |-> may]
  BY <1>0 DEF Replaced
<1>7. /\ r.storage = s /\ r.arrays = list /\ r.files = files1
      /\ r \in [storage : StorageType, arrays : Seq(ControlType), files : Int, may_open : Int]
  BY <1>2, <1>5, <1>6
<1> HIDE DEF r
<1>8. AccOK(r)
  BY <1>2, <1>3, <1>4, <1>7 DEF AccOK
<1> QED
  BY <1>8 DEF r

\* One array gets its file and its window, or there is an error.
LEMMA RealizeArrayKeeps ==
  ASSUME Typed, NEW acc, AccOK(acc), NEW i \in Unrealized_arrays,
         acc.arrays[i] = arrays[i], ~ arrays[i].b_s_open
  PROVE  /\ AccOK(RealizeArray(acc, i))
         /\ \A j \in 1 .. Len(arrays) : j # i => RealizeArray(acc, i).arrays[j] = acc.arrays[j]
         /\ ~ RealizeArray(acc, i).storage.error =>
              ~ acc.storage.error /\ RealizeArray(acc, i).arrays[i].realized
<1> DEFINE r == RealizeArray(acc, i)
<1>1. /\ arrays[i] \in ControlType /\ i \in 1 .. Len(arrays) /\ ~ arrays[i].realized
      /\ Len(acc.arrays) = Len(arrays) /\ Len(arrays) \in Nat
      /\ acc.arrays \in Seq(ControlType)
      /\ acc.storage \in StorageType /\ acc.files \in Int /\ acc.may_open \in Int
      /\ acc = [storage |-> acc.storage, arrays |-> acc.arrays, files |-> acc.files,
                may_open |-> acc.may_open]
  BY DEF Typed, Unrealized_arrays, AccOK
<1>2. PICK a : a = arrays[i]
  OBVIOUS
<1>3. PICK shape : shape = a.shape
  OBVIOUS
<1>4. /\ a \in ControlType /\ shape \in ShapeType /\ ~ a.b_s_open /\ ~ a.realized
      /\ shape.width \in Nat \ {0} /\ shape.rows \in Nat \ {0} /\ shape.maxaccess \in Nat \ {0}
      /\ a = [shape |-> shape, watched |-> a.watched, realized |-> a.realized,
              rows_in_mem |-> a.rows_in_mem, b_s_open |-> a.b_s_open,
              mem_buffer |-> a.mem_buffer, rowsperchunk |-> a.rowsperchunk]
  BY <1>1, <1>2, <1>3 DEF ControlType, ShapeType
<1>5. PICK rows \in Nat :
        /\ rows = WindowRows(shape)
        /\ FitsInMemory(shape) => rows = shape.rows
        /\ ~ FitsInMemory(shape) => rows >= shape.maxaccess /\ rows < shape.rows
  BY <1>4, WindowHeight
<1>6. CASE acc.storage.error
  BY <1>6 DEF RealizeArray
<1>7. CASE ~ acc.storage.error
  <2>1. PICK opens \in BOOLEAN : opens = (~ FitsInMemory(shape) /\ acc.may_open # 0)
    OBVIOUS
  <2>2. PICK n \in {0, 1} : n = IF opens THEN 1 ELSE 0
    OBVIOUS
  <2>3. PICK s : s = IF ~ FitsInMemory(shape) /\ acc.may_open = 0 THEN Failed(acc.storage)
                     ELSE alloc_rows(acc.storage, IMAGE, shape.width, rows)
    OBVIOUS
  <2>4. PICK buffer, rpc : /\ buffer = IF s.error THEN NoRows
                                       ELSE RowsOf(acc.storage, IMAGE, shape.width, rows)
                           /\ rpc = IF s.error THEN 0 ELSE RowsPerChunk(shape.width, rows)
    OBVIOUS
  <2>5. PICK realized \in BOOLEAN : realized = ~ s.error
    OBVIOUS
  <2>6. PICK b : b = [shape |-> shape, watched |-> a.watched, realized |-> realized,
                      rows_in_mem |-> rows, b_s_open |-> opens, mem_buffer |-> buffer,
                      rowsperchunk |-> rpc]
    OBVIOUS
  <2>8. PICK files1 \in Int, may \in Int : files1 = acc.files + n /\ may = acc.may_open - n
    BY <1>1
  <2>9. r = Replaced(acc, i, b, s, files1, may)
    BY <1>2, <1>3, <1>5, <1>7, <2>1, <2>2, <2>3, <2>4, <2>5, <2>6, <2>8, Zenon
       DEF RealizeArray, Replaced
  <2>10. /\ StorageOK(s, Control) /\ s.error \in BOOLEAN
         /\ ~ s.error => /\ shape.width <= MAX_ALLOC_CHUNK - Header
                         /\ FitsInMemory(shape) \/ acc.may_open # 0
    <3>1. StorageOK(acc.storage, Control) /\ IMAGE \in Pools /\ Control \in Int
      BY SizesAssumption DEF AccOK, Pools
    <3>2. CASE ~ FitsInMemory(shape) /\ acc.may_open = 0
      <4>1. s = [acc.storage EXCEPT !.error = TRUE]
        BY <2>3, <3>2 DEF Failed
      <4>2. s.error /\ TRUE \in BOOLEAN
        BY <1>1, <4>1 DEF StorageType
      <4> QED
        BY <3>1, <4>1, <4>2, FailedKeeps
    <3>3. CASE ~ (~ FitsInMemory(shape) /\ acc.may_open = 0)
      <4>1. s = alloc_rows(acc.storage, IMAGE, shape.width, rows)
        BY <2>3, <3>3
      <4>2. StorageOK(s, Control) /\ (~ s.error => shape.width <= MAX_ALLOC_CHUNK - Header)
        BY <1>4, <3>1, <4>1, AllocRowsKeeps
      <4> QED
        BY <3>3, <4>2 DEF StorageOK, StorageType
    <3> QED
      BY <3>2, <3>3
  <2>11. ASSUME s.error PROVE buffer \in BufferType /\ rpc = 0
    <3>1. NoRows \in [0 .. 0 - 1 -> Int \X Int]
      BY DEF NoRows
    <3> QED
      BY <2>4, <2>11, <3>1 DEF BufferType
  <2>12. ASSUME ~ s.error
         PROVE  buffer \in BufferType /\ rpc \in Nat \ {0} /\ Whole(b)
    <3>1. rows > 0
      <4>1. PICK x \in Nat \ {0}, y \in Nat \ {0} : x = shape.rows /\ y = shape.maxaccess
        BY <1>4
      <4> QED
        BY <1>5, <4>1
    <3>2. rpc = RowsPerChunk(shape.width, rows)
      BY <2>4, <2>12
    <3>3. PICK width \in Nat \ {0} : width = shape.width
      BY <1>4
    <3>4. rpc \in Nat \ {0}
      BY <2>10, <2>12, <3>1, <3>2, <3>3, ChunkRows
    <3>5. Len(acc.storage.large[IMAGE]) \in Nat
      BY <1>1 DEF StorageType, Pools
    <3>6. buffer = RowsOf(acc.storage, IMAGE, width, rows) /\ rpc = RowsPerChunk(width, rows)
      BY <2>4, <2>12, <3>2, <3>3
    <3>7. /\ buffer \in BufferType
          /\ \A k \in 1 .. rows - 1 :
               k % rpc # 0 => /\ buffer[k][1] = buffer[k - 1][1]
                              /\ buffer[k][2] = buffer[k - 1][2] + width
      BY <3>4, <3>5, <3>6, RowsSideBySide
    <3>8. IF opens THEN rows >= shape.maxaccess /\ rows < shape.rows ELSE rows = shape.rows
      BY <1>5, <2>1, <2>10, <2>12
    <3>9. /\ b.shape = shape /\ b.b_s_open = opens /\ b.rows_in_mem = rows
          /\ b.mem_buffer = buffer /\ b.rowsperchunk = rpc
      BY <2>6
    <3>10. IF b.b_s_open THEN b.rows_in_mem >= b.shape.maxaccess /\ b.rows_in_mem < b.shape.rows
           ELSE b.rows_in_mem = b.shape.rows
      BY <3>8, <3>9
    <3>11. rpc > 0
      BY <3>4
    <3>12. Whole(b)
      BY <3>3, <3>7, <3>9, <3>10, <3>11, Zenon DEF Whole
    <3> QED
      BY <3>4, <3>7, <3>12
  <2>13. /\ b \in ControlType /\ b.shape = arrays[i].shape /\ b.watched = arrays[i].watched
         /\ b.realized = realized /\ b.b_s_open = opens /\ b.rows_in_mem = rows
    <3>1. rpc \in Nat /\ buffer \in BufferType
      BY <2>11, <2>12
    <3>2. a.watched \in BOOLEAN
      BY <1>4 DEF ControlType
    <3>3. b \in ControlType
      BY <1>4, <2>6, <3>1, <3>2 DEF ControlType
    <3> QED
      BY <1>2, <1>3, <2>6, <3>3
  <2> HIDE DEF r
  <2>14. /\ AccOK(r) /\ r.storage = s /\ r.arrays[i] = b
         /\ \A j \in 1 .. Len(arrays) : j # i => r.arrays[j] = acc.arrays[j]
    <3>1. files1 = acc.files + (IF b.b_s_open THEN 1 ELSE 0)
      BY <2>2, <2>8, <2>13
    <3>2. b.realized => Whole(b) /\ b.rows_in_mem = WindowRows(arrays[i].shape)
      BY <1>2, <1>3, <1>5, <2>5, <2>12, <2>13, Zenon
    <3>3. ~ acc.arrays[i].b_s_open /\ StorageOK(s, Control)
      BY <1>1, <2>10
    <3> QED
      <4>1. /\ AccOK(Replaced(acc, i, b, s, files1, may))
            /\ Replaced(acc, i, b, s, files1, may).storage = s
            /\ Replaced(acc, i, b, s, files1, may).arrays[i] = b
            /\ \A j \in 1 .. Len(arrays) :
                 j # i => Replaced(acc, i, b, s, files1, may).arrays[j] = acc.arrays[j]
        <5>1. i \in 1 .. Len(arrays) /\ b \in ControlType
              /\ b.shape = arrays[i].shape /\ b.watched = arrays[i].watched
          BY <1>1, <2>13
        <5>2. AccOK(Replaced(acc, i, b, s, files1, may))
          BY <3>1, <3>2, <3>3, <5>1, AccWith, Zenon
        <5>3. Replaced(acc, i, b, s, files1, may).storage = s
          BY DEF Replaced
        <5>4. /\ Replaced(acc, i, b, s, files1, may).arrays[i] = b
              /\ \A j \in 1 .. Len(arrays) :
                   j # i => Replaced(acc, i, b, s, files1, may).arrays[j] = acc.arrays[j]
          <6>1. Replaced(acc, i, b, s, files1, may).arrays = [acc.arrays EXCEPT ![i] = b]
            BY DEF Replaced
          <6> QED
            BY <1>1, <6>1
        <5> QED
          BY <5>2, <5>3, <5>4
      <4> QED
        BY <2>9, <4>1, Zenon
  <2>15. ~ r.storage.error => ~ acc.storage.error /\ r.arrays[i].realized
    BY <1>7, <2>5, <2>13, <2>14, Zenon
  <2> QED
    BY <2>14, <2>15 DEF r
<1> QED
  BY <1>6, <1>7

\* realize_virt_arrays() gives every array that has none a window, or stops at
\* the first that cannot have one.
LEMMA RealizedKeeps ==
  ASSUME Typed, StorageOK(storage, Control), files = Cardinality(Opened(arrays)),
         \A i \in 1 .. Len(arrays) : IF arrays[i].realized THEN Whole(arrays[i])
                                     ELSE ~ arrays[i].b_s_open,
         NEW order \in RealizeOrders, NEW may_open \in Int
  PROVE  /\ AccOK(Realized(order, may_open))
         /\ ~ Realized(order, may_open).storage.error =>
              \A i \in Unrealized_arrays : Realized(order, may_open).arrays[i].realized
<1>1. /\ arrays \in Seq(ControlType) /\ Len(arrays) \in Nat /\ storage \in StorageType
      /\ Unrealized_arrays \subseteq 1 .. Len(arrays)
      /\ \A i \in Unrealized_arrays : ~ arrays[i].realized
  BY DEF Typed, Unrealized_arrays
<1>2. Cardinality(Unrealized_arrays) \in Nat
  <2>1. IsFiniteSet(1 .. Len(arrays))
    BY <1>1, FS_Interval
  <2> QED
    BY <1>1, <2>1, FS_Subset, FS_CardinalityType
<1>3. PICK n \in Nat :
        /\ n = Len(order) /\ order \in [1 .. n -> Unrealized_arrays]
        /\ \A i \in Unrealized_arrays : \E k \in 1 .. n : order[k] = i
        /\ \A k, l \in 1 .. n : k < l => Precedes(order[k], order[l])
  BY <1>2 DEF RealizeOrders
<1>4. \A k, l \in 1 .. n : k < l => order[k] # order[l]
  <2>1. ASSUME NEW i \in Unrealized_arrays PROVE ~ Precedes(i, i)
    BY <1>1 DEF Precedes
  <2> QED
    BY <1>3, <2>1
<1> DEFINE Start == [storage |-> storage, arrays |-> arrays, files |-> files,
                     may_open |-> may_open]
           Chain(g, m) ==
             g = [k \in 0 .. m |-> IF k = 0 THEN Start ELSE RealizeArray(g[k - 1], order[k])]
           acc == CHOOSE g : Chain(g, Len(order))
<1>5. Realized(order, may_open) = acc[Len(order)]
  BY DEF Realized
<1>6. AccOK(Start) /\ Start.arrays = arrays
  <2>1. files \in Int
    <3>1. Opened(arrays) \subseteq 1 .. Len(arrays)
      BY <1>1 DEF Opened
    <3>2. IsFiniteSet(1 .. Len(arrays))
      BY <1>1, FS_Interval
    <3> QED
      BY <3>1, <3>2, FS_Subset, FS_CardinalityType
  <2>2. Start \in [storage : StorageType, arrays : Seq(ControlType), files : Int, may_open : Int]
    BY <1>1, <2>1
  <2> QED
    BY <1>1, <2>2 DEF AccOK
<1> HIDE DEF Start
<1>7. \E g : Chain(g, n)
  <2> DEFINE S == {m \in 0 .. n : \E g : Chain(g, m)}
  <2>1. 0 \in S
    <3>1. Chain([k \in 0 .. 0 |-> Start], 0)
      OBVIOUS
    <3> HIDE DEF Chain
    <3> QED
      BY <1>3, <3>1
  <2>2. ASSUME NEW m \in 1 .. n, m - 1 \in S PROVE m \in S
    <3>1. PICK g : Chain(g, m - 1)
      BY <2>2
    <3> DEFINE h == [k \in 0 .. m |-> IF k < m THEN g[k] ELSE RealizeArray(g[m - 1], order[m])]
    <3>2. ASSUME NEW k \in 0 .. m
          PROVE  h[k] = IF k = 0 THEN Start ELSE RealizeArray(h[k - 1], order[k])
      <4>1. CASE k < m
        BY <3>1, <4>1
      <4>2. CASE k = m
        BY <4>2
      <4> QED
        BY <4>1, <4>2
    <3>3. Chain(h, m)
      BY <3>2
    <3> HIDE DEF Chain, h
    <3> QED
      BY <3>3
  <2> HIDE DEF S
  <2>3. 0 .. n \subseteq S
    BY <1>3, <2>1, <2>2, UpTo
  <2> HIDE DEF Chain
  <2> QED
    BY <1>3, <2>3 DEF S
<1>8. PICK g : g = acc /\ Chain(g, n)
  BY <1>3, <1>7
<1> HIDE DEF acc
<1>9. g[0] = Start /\ \A k \in 1 .. n : g[k] = RealizeArray(g[k - 1], order[k])
  BY <1>8
<1> HIDE DEF Chain
<1> DEFINE Upto(k) ==
             /\ AccOK(g[k])
             /\ \A i \in 1 .. Len(arrays) :
                  (\A m \in 1 .. k : order[m] # i) => g[k].arrays[i] = arrays[i]
             /\ ~ g[k].storage.error => \A m \in 1 .. k : g[k].arrays[order[m]].realized
           S == {k \in 0 .. n : Upto(k)}
<1>10. 0 \in S
  BY <1>3, <1>6, <1>9
<1>11. ASSUME NEW k \in 1 .. n, k - 1 \in S PROVE k \in S
  <2>1. PICK before, i : before = g[k - 1] /\ i = order[k]
    OBVIOUS
  <2>2. /\ i \in Unrealized_arrays /\ i \in 1 .. Len(arrays) /\ ~ arrays[i].b_s_open
        /\ \A m \in 1 .. k - 1 : order[m] # i
    BY <1>1, <1>3, <1>4, <2>1
  <2>3. /\ AccOK(before) /\ before.arrays[i] = arrays[i]
        /\ \A j \in 1 .. Len(arrays) :
             (\A m \in 1 .. k - 1 : order[m] # j) => before.arrays[j] = arrays[j]
        /\ ~ before.storage.error => \A m \in 1 .. k - 1 : before.arrays[order[m]].realized
    BY <1>11, <2>1, <2>2
  <2>4. PICK r : r = RealizeArray(before, i)
    OBVIOUS
  <2>5. /\ AccOK(r)
        /\ \A j \in 1 .. Len(arrays) : j # i => r.arrays[j] = before.arrays[j]
        /\ ~ r.storage.error => ~ before.storage.error /\ r.arrays[i].realized
    BY <2>2, <2>3, <2>4, RealizeArrayKeeps
  <2>6. g[k] = r
    BY <1>9, <2>1, <2>4
  <2>7. ASSUME NEW j \in 1 .. Len(arrays), \A m \in 1 .. k : order[m] # j
        PROVE  r.arrays[j] = arrays[j]
    <3>1. j # i /\ \A m \in 1 .. k - 1 : order[m] # j
      BY <1>3, <2>1, <2>7
    <3> QED
      BY <2>3, <2>5, <3>1
  <2>8. ASSUME ~ r.storage.error, NEW m \in 1 .. k PROVE r.arrays[order[m]].realized
    <3>1. CASE m = k
      BY <2>1, <2>5, <2>8, <3>1
    <3>2. CASE m # k
      <4>1. m \in 1 .. k - 1 /\ order[m] \in 1 .. Len(arrays) /\ order[m] # i
        <5>1. m \in 1 .. k - 1
          BY <3>2
        <5>2. m \in 1 .. n
          OBVIOUS
        <5>3. order[m] \in Unrealized_arrays
          BY <1>3, <5>2
        <5> QED
          BY <1>1, <2>2, <5>1, <5>3
      <4> QED
        BY <2>3, <2>5, <2>8, <4>1
    <3> QED
      BY <3>1, <3>2
  <2>9. Upto(k)
    BY <2>5, <2>6, <2>7, <2>8
  <2> HIDE DEF Upto
  <2> QED
    BY <1>3, <2>9
<1> HIDE DEF S, Upto
<1>12. 0 .. n \subseteq S
  BY <1>3, <1>10, <1>11, UpTo
<1>13. Upto(n)
  BY <1>3, <1>12 DEF S
<1> QED
  BY <1>3, <1>5, <1>8, <1>13 DEF Upto
-----------------------------------------------------------------------------
(* The invariant. *)

\* A list of control blocks and the number of files that are open.
ArraysOK(list, open) ==
  /\ list \in Seq(ControlType) /\ open = Cardinality(Opened(list))
  /\ \A i \in 1 .. Len(list) : list[i].realized => Whole(list[i])

MemoryInv ==
  /\ alive \in BOOLEAN /\ setup \in [heap : Nat, limit : Int, files : BOOLEAN]
  /\ StorageOK(storage, IF alive THEN Control ELSE 0) /\ ~ storage.error
  /\ ArraysOK(arrays, files)
  /\ ~ alive => storage = NoStorage /\ arrays = <<>>
  /\ Fine => \A i \in 1 .. Len(arrays) : ~ arrays[i].realized => ~ arrays[i].b_s_open

LEMMA NoArrays == ArraysOK(<<>>, 0)
<1>1. Opened(<<>>) = {}
  BY DEF Opened
<1>2. Cardinality(Opened(<<>>)) = 0
  BY <1>1, FS_EmptySet
<1> QED
  BY <1>2 DEF ArraysOK

LEMMA NothingStored ==
  /\ StorageOK(NoStorage, 0) /\ ~ NoStorage.error
  /\ StorageOK(Obtained(NoStorage, Control), Control) /\ ~ Obtained(NoStorage, Control).error
<1>1. NoStorage \in StorageType /\ ~ NoStorage.error /\ NoStorage.heap = 0 /\ NoStorage.total = 0
      /\ \A pool \in Pools : NoStorage.small[pool] = <<>> /\ NoStorage.large[pool] = <<>>
  BY DEF NoStorage, StorageType
<1>2. PICK c \in Nat : c = Control
  BY SizesAssumption
<1>3. PICK z \in StorageType : z = NoStorage
  BY <1>1
<1>4. PICK s : s = [z EXCEPT !.heap = c, !.total = c]
  OBVIOUS
<1>5. s = Obtained(NoStorage, Control)
  <2>1. z.heap + Control = c /\ z.total + Control = c
    BY <1>1, <1>2, <1>3
  <2>2. s = [z EXCEPT !.heap = z.heap + Control, !.total = z.total + Control]
    BY <1>4, <2>1
  <2> QED
    BY <1>3, <2>2 DEF Obtained
<1>6. s \in StorageType /\ ~ s.error /\ s.heap = c /\ s.total = c
      /\ \A pool \in Pools : s.small[pool] = <<>> /\ s.large[pool] = <<>>
  <2>1. PICK y : y = [z EXCEPT !.heap = c]
    OBVIOUS
  <2>2. /\ y \in StorageType /\ y.heap = c /\ y.error = z.error
        /\ y.small = z.small /\ y.large = z.large
    BY <2>1 DEF StorageType
  <2>3. s = [y EXCEPT !.total = c]
    BY <1>4, <2>1
  <2>4. /\ s \in StorageType /\ s.heap = y.heap /\ s.total = c /\ s.error = y.error
        /\ s.small = y.small /\ s.large = y.large
    BY <2>2, <2>3 DEF StorageType
  <2> QED
    BY <1>1, <1>3, <2>2, <2>4
<1>7. ListOK(<<>>)
  BY DEF ListOK
<1>8. PERMANENT \in Pools /\ IMAGE \in Pools
  BY DEF Pools
<1>9. InLists(NoStorage) = 0 /\ InLists(s) = 0
  BY <1>1, <1>6, <1>8, ReleasedEmpty DEF InLists
<1>10. StorageOK(NoStorage, 0)
  BY <1>1, <1>7, <1>9 DEF StorageOK
<1>11. StorageOK(s, c)
  BY <1>6, <1>7, <1>9 DEF StorageOK
<1> QED
  BY <1>1, <1>2, <1>5, <1>6, <1>10, <1>11

\* free_pool() gives back what the pools of a lifetime had.
LEMMA FreeKeeps ==
  ASSUME NEW base \in Int, NEW s, StorageOK(s, base), NEW pool \in Pools
  PROVE  /\ StorageOK(free_pool(s, pool), base)
         /\ free_pool(s, pool).small = [s.small EXCEPT ![pool] = <<>>]
         /\ free_pool(s, pool).large = [s.large EXCEPT ![pool] = <<>>]
         /\ free_pool(s, pool).error = s.error
<1>1. /\ s \in StorageType /\ ListOK(s.small[pool]) /\ ListOK(s.large[pool])
      /\ s.small[pool] \in Seq(PoolType) /\ s.large[pool] \in Seq(PoolType)
      /\ s.small \in [Pools -> Seq(PoolType)] /\ s.large \in [Pools -> Seq(PoolType)]
      /\ s.error \in BOOLEAN /\ s.heap \in Int /\ s.total \in Int
  BY DEF StorageOK, StorageType, ListOK
<1>2. PICK x \in Int, y \in Int : x = - Released(s.large[pool]) /\ y = - Released(s.small[pool])
  <2>1. PICK l \in Int, m \in Int : l = Released(s.large[pool]) /\ m = Released(s.small[pool])
    BY <1>1, ReleasedType
  <2>2. - l \in Int /\ - m \in Int
    OBVIOUS
  <2> QED
    BY <2>1, <2>2
<1>3. ListOK(<<>>) /\ Released(<<>>) = 0
  BY ReleasedEmpty DEF ListOK
<1>4. PICK large, small : /\ large = [s.large EXCEPT ![pool] = <<>>]
                          /\ small = [s.small EXCEPT ![pool] = <<>>]
  OBVIOUS
<1>5. PICK empty : empty = <<>>
  OBVIOUS
<1>6. PICK t : t = [small |-> s.small, large |-> large, total |-> s.total + x,
                    heap |-> s.heap + x, error |-> s.error]
  OBVIOUS
<1>7. StorageOK(t, base)
  <2>1. Released(empty) = Released(s.large[pool]) + x /\ ListOK(empty)
    BY <1>1, <1>2, <1>3, <1>5, ReleasedType
  <2>2. large = [s.large EXCEPT ![pool] = empty]
    BY <1>4, <1>5
  <2>3. StorageOK([small |-> s.small, large |-> large, total |-> s.total + x,
                   heap |-> s.heap + x, error |-> s.error], base)
    BY <1>1, <2>1, <2>2, StorageWith
  <2> QED
    BY <1>6, <2>3
<1>8. /\ t.small = s.small /\ t.large = large /\ t.total = s.total + x
      /\ t.heap = s.heap + x /\ t.error = s.error
  BY <1>6
<1>9. StorageOK([small |-> small, large |-> large, total |-> t.total + y,
                 heap |-> t.heap + y, error |-> s.error], base)
  <2>1. Released(empty) = Released(t.small[pool]) + y /\ ListOK(empty)
    BY <1>1, <1>2, <1>3, <1>5, <1>8, ReleasedType
  <2>2. small = [t.small EXCEPT ![pool] = empty] /\ large = t.large
    BY <1>4, <1>5, <1>8
  <2> QED
    BY <1>1, <1>7, <2>1, <2>2, StorageWith
<1>10. free_pool(s, pool) = [small |-> small, large |-> large, total |-> t.total + y,
                             heap |-> t.heap + y, error |-> s.error]
  <2>1. SpaceFreed(s.large[pool]) = Released(s.large[pool])
        /\ SpaceFreed(s.small[pool]) = Released(s.small[pool])
    BY <1>1, SpaceIsReleased
  <2>2. PICK l \in Int, m \in Int : l = Released(s.large[pool]) /\ m = Released(s.small[pool])
    BY <1>1, ReleasedType
  <2>3. free_pool(s, pool) = [s EXCEPT !.total = @ - l - m, !.heap = @ - l - m,
                                       !.large[pool] = <<>>, !.small[pool] = <<>>]
    BY <2>1, <2>2 DEF free_pool
  <2>4. free_pool(s, pool) = [small |-> small, large |-> large, total |-> s.total - l - m,
                              heap |-> s.heap - l - m, error |-> s.error]
    BY <1>1, <1>4, <2>3 DEF StorageType
  <2>5. t.total + y = s.total - l - m /\ t.heap + y = s.heap - l - m
    BY <1>1, <1>2, <1>8, <2>2
  <2> QED
    BY <2>4, <2>5
<1> QED
  BY <1>4, <1>9, <1>10

LEMMA MemoryInitInv == MemoryInit => MemoryInv
<1> SUFFICES ASSUME MemoryInit PROVE MemoryInv
  OBVIOUS
<1>1. alive = FALSE /\ storage = NoStorage /\ arrays = <<>> /\ files = 0
      /\ setup \in [heap : Heaps, limit : Limits, files : BOOLEAN]
  BY DEF MemoryInit
<1>2. setup \in [heap : Nat, limit : Int, files : BOOLEAN]
  BY <1>1, InputsAssumption
<1> QED
  BY <1>1, <1>2, NoArrays, NothingStored DEF MemoryInv, Fine

LEMMA CreateInv == ASSUME MemoryInv, Create PROVE MemoryInv'
<1>1. storage = NoStorage /\ arrays = <<>> /\ ~ alive
  BY DEF MemoryInv, Create
<1>2. CASE Gives(storage, Control)
  <2>1. alive' = TRUE /\ storage' = Obtained(NoStorage, Control)
    BY <1>1, <1>2 DEF Create
  <2>2. UNCHANGED <<arrays, files, setup>>
    BY DEF Create
  <2> QED
    BY <1>1, <2>1, <2>2, NothingStored DEF MemoryInv
<1>3. CASE ~ Gives(storage, Control)
  BY <1>1, <1>3 DEF MemoryInv, Create, Fine
<1> QED
  BY <1>2, <1>3

\* An allocation that keeps the books keeps the invariant.
LEMMA AllocateInv ==
  ASSUME MemoryInv, NEW s, StorageOK(s, Control), Allocate(s)
  PROVE  MemoryInv'
<1>1. /\ alive /\ alive' = alive /\ storage' = [s EXCEPT !.error = FALSE]
      /\ UNCHANGED <<arrays, files, setup>> /\ Fine
  BY DEF Allocate, Fine
<1>2. StorageOK(storage', Control) /\ ~ storage'.error
  <2>1. Control \in Int /\ FALSE \in BOOLEAN
    BY SizesAssumption
  <2>2. StorageOK(storage', Control)
    BY <1>1, <2>1, FailedKeeps
  <2>3. s \in StorageType
    BY DEF StorageOK
  <2> QED
    BY <1>1, <2>2, <2>3 DEF StorageType
<1> QED
  BY <1>1, <1>2 DEF MemoryInv

LEMMA AllocationsInv ==
  ASSUME MemoryInv, NEW pool \in Pools
  PROVE  /\ \A size \in Sizes : AllocSmall(pool, size) \/ AllocLarge(pool, size) => MemoryInv'
         /\ \A strip_shape \in Strips : AllocRows(pool, strip_shape) => MemoryInv'
<1>1. Control \in Int
  BY SizesAssumption
<1>2. Fine => StorageOK(storage, Control)
  BY DEF MemoryInv, Fine
<1>3. ASSUME NEW size \in Sizes, AllocSmall(pool, size) PROVE MemoryInv'
  <2>1. Fine
    BY <1>3 DEF AllocSmall, Allocate
  <2>2. StorageOK(alloc_small(storage, pool, size), Control)
    BY <1>1, <1>2, <2>1, AllocSmallKeeps, InputsAssumption
  <2> QED
    BY <1>3, <2>2, AllocateInv DEF AllocSmall
<1>4. ASSUME NEW size \in Sizes, AllocLarge(pool, size) PROVE MemoryInv'
  <2>1. Fine
    BY <1>4 DEF AllocLarge, Allocate
  <2>2. StorageOK(alloc_large(storage, pool, size), Control)
    BY <1>1, <1>2, <2>1, AllocLargeKeeps, InputsAssumption
  <2> QED
    BY <1>4, <2>2, AllocateInv DEF AllocLarge
<1>5. ASSUME NEW strip_shape \in Strips, AllocRows(pool, strip_shape) PROVE MemoryInv'
  <2>1. Fine
    BY <1>5 DEF AllocRows, Allocate
  <2>2. PICK width \in Nat \ {0}, rows \in Nat :
          width = strip_shape.width /\ rows = strip_shape.rows
    BY InputsAssumption
  <2>3. StorageOK(alloc_rows(storage, pool, width, rows), Control)
    BY <1>1, <1>2, <2>1, AllocRowsKeeps
  <2> QED
    BY <1>5, <2>2, <2>3, AllocateInv DEF AllocRows
<1> QED
  BY <1>3, <1>4, <1>5

LEMMA RequestInv ==
  ASSUME MemoryInv, NEW shape \in Shapes, NEW watch \in BOOLEAN, Request(shape, watch)
  PROVE  MemoryInv'
<1>1. PICK s : s = alloc_small(storage, IMAGE, ArrayControl)
  OBVIOUS
<1>2. /\ alive /\ alive' = alive /\ Fine /\ storage' = [s EXCEPT !.error = FALSE]
      /\ arrays' = IF s.error THEN arrays ELSE Append(arrays, ControlBlock(shape, watch))
      /\ files' = files /\ setup' = setup
  BY <1>1 DEF Request, Fine
<1>3. StorageOK(storage', Control) /\ ~ storage'.error
  <2>1. Control \in Int /\ FALSE \in BOOLEAN /\ ArrayControl \in Nat /\ IMAGE \in Pools
    BY SizesAssumption DEF Pools
  <2>2. StorageOK(storage, Control)
    BY <1>2 DEF MemoryInv
  <2>3. StorageOK(s, Control)
    BY <1>1, <2>1, <2>2, AllocSmallKeeps
  <2>4. StorageOK(storage', Control)
    BY <1>2, <2>1, <2>3, FailedKeeps
  <2>5. s \in StorageType
    BY <2>3 DEF StorageOK
  <2> QED
    BY <1>2, <2>4, <2>5 DEF StorageType
<1>4. PICK b : b = ControlBlock(shape, watch)
  OBVIOUS
<1>5. b \in ControlType /\ ~ b.realized /\ ~ b.b_s_open
  <2>1. shape \in ShapeType
    BY InputsAssumption DEF ShapeType
  <2>2. NoRows \in BufferType
    <3>1. NoRows \in [0 .. 0 - 1 -> Int \X Int]
      BY DEF NoRows
    <3> QED
      BY <3>1 DEF BufferType
  <2> QED
    BY <1>4, <2>1, <2>2 DEF ControlBlock, ControlType
<1>6. /\ arrays \in Seq(ControlType) /\ Len(arrays) \in Nat
      /\ files = Cardinality(Opened(arrays))
      /\ \A i \in 1 .. Len(arrays) : arrays[i].realized => Whole(arrays[i])
      /\ \A i \in 1 .. Len(arrays) : ~ arrays[i].realized => ~ arrays[i].b_s_open
  BY <1>2 DEF MemoryInv, ArraysOK
<1>7. /\ ArraysOK(arrays', files')
      /\ \A i \in 1 .. Len(arrays') : ~ arrays'[i].realized => ~ arrays'[i].b_s_open
  <2>1. CASE s.error
    BY <1>2, <1>6, <2>1 DEF ArraysOK
  <2>2. CASE ~ s.error
    <3>1. PICK list : list = Append(arrays, b)
      OBVIOUS
    <3>2. /\ list \in Seq(ControlType) /\ Len(list) = Len(arrays) + 1
          /\ list[Len(arrays) + 1] = b /\ \A i \in 1 .. Len(arrays) : list[i] = arrays[i]
      BY <1>5, <1>6, <3>1
    <3>3. Opened(list) = Opened(arrays)
      BY <1>5, <1>6, <3>2 DEF Opened
    <3>4. /\ \A i \in 1 .. Len(list) : list[i].realized => Whole(list[i])
          /\ \A i \in 1 .. Len(list) : ~ list[i].realized => ~ list[i].b_s_open
      BY <1>5, <1>6, <3>2
    <3>5. arrays' = list
      BY <1>2, <1>4, <2>2, <3>1
    <3> QED
      BY <1>2, <1>6, <3>2, <3>3, <3>4, <3>5 DEF ArraysOK
  <2> QED
    BY <2>1, <2>2
<1> QED
  BY <1>2, <1>3, <1>7 DEF MemoryInv

\* What one call of realize_virt_arrays() leaves.
LEMMA RealizeFacts ==
  ASSUME MemoryInv, NEW may_open \in 0 .. MaxArrays, realize_virt_arrays(may_open)
  PROVE  /\ Typed /\ StorageOK(storage, Control) /\ Unrealized_arrays # {}
         /\ \E order \in RealizeOrders : \E done :
              /\ done = Realized(order, may_open) /\ AccOK(done)
              /\ storage' = [done.storage EXCEPT !.error = FALSE]
              /\ arrays' = done.arrays /\ files' = done.files
              /\ IF done.storage.error THEN Break
                 ELSE \A i \in Unrealized_arrays : arrays'[i].realized
<1>1. alive /\ Fine /\ Unrealized_arrays # {}
  BY DEF realize_virt_arrays, Fine
<1>2. /\ Typed /\ StorageOK(storage, Control) /\ files = Cardinality(Opened(arrays))
      /\ \A i \in 1 .. Len(arrays) : IF arrays[i].realized THEN Whole(arrays[i])
                                     ELSE ~ arrays[i].b_s_open
  BY <1>1 DEF MemoryInv, Typed, ArraysOK, StorageOK
<1>3. PICK order \in RealizeOrders :
        LET done == Realized(order, may_open)
        IN /\ storage' = [done.storage EXCEPT !.error = FALSE]
           /\ arrays' = done.arrays /\ files' = done.files
           /\ done.storage.error => Break
  BY DEF realize_virt_arrays
<1>4. PICK done : done = Realized(order, may_open)
  OBVIOUS
<1>5. /\ AccOK(done)
      /\ ~ done.storage.error => \A i \in Unrealized_arrays : done.arrays[i].realized
  <2>1. may_open \in Int
    BY InputsAssumption
  <2> QED
    BY <1>2, <1>4, <2>1, RealizedKeeps
<1> QED
  BY <1>1, <1>2, <1>3, <1>4, <1>5

LEMMA RealizeInvariant ==
  ASSUME MemoryInv, NEW may_open \in 0 .. MaxArrays, realize_virt_arrays(may_open)
  PROVE  MemoryInv'
<1>1. PICK done :
        /\ AccOK(done) /\ Typed
        /\ storage' = [done.storage EXCEPT !.error = FALSE]
        /\ arrays' = done.arrays /\ files' = done.files
        /\ IF done.storage.error THEN Break
           ELSE \A i \in Unrealized_arrays : arrays'[i].realized
  BY RealizeFacts
<1>2. alive /\ alive' = alive /\ setup' = setup
  BY DEF realize_virt_arrays, Fine
<1>3. StorageOK(storage', Control) /\ ~ storage'.error
  <2>1. Control \in Int /\ FALSE \in BOOLEAN /\ StorageOK(done.storage, Control)
        /\ done.storage \in StorageType
    BY <1>1, SizesAssumption DEF AccOK, StorageOK
  <2>2. StorageOK(storage', Control)
    BY <1>1, <2>1, FailedKeeps
  <2> QED
    BY <1>1, <2>1, <2>2 DEF StorageType
<1>4. ArraysOK(arrays', files')
  BY <1>1 DEF AccOK, ArraysOK
<1>5. ASSUME Fine', NEW i \in 1 .. Len(arrays') PROVE arrays'[i].realized \/ ~ arrays'[i].b_s_open
  <2>1. ~ done.storage.error
    BY <1>1, <1>5 DEF Break, Fine
  <2>2. i \in 1 .. Len(arrays) /\ arrays \in Seq(ControlType)
    BY <1>1, <1>5 DEF AccOK, Typed
  <2>3. CASE arrays[i].realized
    <3>1. arrays'[i] = arrays[i]
      BY <1>1, <2>2, <2>3 DEF AccOK
    <3> QED
      BY <2>3, <3>1
  <2>4. CASE ~ arrays[i].realized
    <3>1. i \in Unrealized_arrays
      BY <2>2, <2>4 DEF Unrealized_arrays
    <3> QED
      BY <1>1, <2>1, <3>1
  <2> QED
    BY <2>3, <2>4
<1> QED
  BY <1>2, <1>3, <1>4, <1>5 DEF MemoryInv

LEMMA AbortInv == ASSUME MemoryInv, Abort PROVE MemoryInv'
<1>1. /\ alive /\ alive' = alive /\ storage' = free_pool(storage, IMAGE)
      /\ files' = Closing /\ arrays' = <<>> /\ setup' = setup
  BY DEF Abort
<1>2. StorageOK(storage', Control) /\ ~ storage'.error
  <2>1. StorageOK(storage, Control) /\ ~ storage.error /\ Control \in Int /\ IMAGE \in Pools
    BY <1>1, SizesAssumption DEF MemoryInv, Pools
  <2>2. StorageOK(free_pool(storage, IMAGE), Control)
        /\ free_pool(storage, IMAGE).error = storage.error
    BY <2>1, FreeKeeps
  <2> QED
    BY <1>1, <2>1, <2>2
<1>3. files' = 0
  <2>1. files = Cardinality(Opened(arrays)) /\ arrays \in Seq(ControlType)
    BY DEF MemoryInv, ArraysOK
  <2>2. Closing = files - Cardinality(Opened(arrays))
    BY DEF Closing, Opened
  <2>3. IsFiniteSet(1 .. Len(arrays)) /\ Opened(arrays) \subseteq 1 .. Len(arrays)
    BY <2>1, FS_Interval DEF Opened
  <2>4. Cardinality(Opened(arrays)) \in Nat
    BY <2>3, FS_Subset, FS_CardinalityType
  <2> QED
    BY <1>1, <2>1, <2>2, <2>4
<1>4. ArraysOK(arrays', files')
  BY <1>1, <1>3, NoArrays
<1> QED
  BY <1>1, <1>2, <1>4 DEF MemoryInv

LEMMA DestroyInv == ASSUME MemoryInv, Destroy PROVE MemoryInv'
<1>1. PICK t, s : t = free_pool(storage, IMAGE) /\ s = free_pool(t, PERMANENT)
  OBVIOUS
<1>2. /\ alive /\ ~ alive' /\ alive' \in BOOLEAN
      /\ storage' = [s EXCEPT !.heap = @ - Control, !.total = 0]
      /\ files' = Closing /\ arrays' = <<>> /\ setup' = setup
  BY <1>1 DEF Destroy
<1>3. /\ StorageOK(t, Control) /\ StorageOK(s, Control) /\ ~ s.error
      /\ t.small = [storage.small EXCEPT ![IMAGE] = <<>>]
      /\ t.large = [storage.large EXCEPT ![IMAGE] = <<>>]
      /\ s.small = [t.small EXCEPT ![PERMANENT] = <<>>]
      /\ s.large = [t.large EXCEPT ![PERMANENT] = <<>>]
  <2>1. StorageOK(storage, Control) /\ ~ storage.error /\ Control \in Int
        /\ IMAGE \in Pools /\ PERMANENT \in Pools
    BY <1>2, SizesAssumption DEF MemoryInv, Pools
  <2>2. /\ StorageOK(t, Control) /\ t.error = storage.error
        /\ t.small = [storage.small EXCEPT ![IMAGE] = <<>>]
        /\ t.large = [storage.large EXCEPT ![IMAGE] = <<>>]
    BY <1>1, <2>1, FreeKeeps
  <2>3. /\ StorageOK(s, Control) /\ s.error = t.error
        /\ s.small = [t.small EXCEPT ![PERMANENT] = <<>>]
        /\ s.large = [t.large EXCEPT ![PERMANENT] = <<>>]
    <3>1. PICK base \in Int, pool \in Pools : base = Control /\ pool = PERMANENT
      BY <2>1
    <3>2. StorageOK(t, base)
      BY <2>2, <3>1
    <3>3. /\ StorageOK(free_pool(t, pool), base)
          /\ free_pool(t, pool).small = [t.small EXCEPT ![pool] = <<>>]
          /\ free_pool(t, pool).large = [t.large EXCEPT ![pool] = <<>>]
          /\ free_pool(t, pool).error = t.error
      BY <3>2, FreeKeeps
    <3> QED
      BY <1>1, <3>1, <3>3
  <2> QED
    BY <2>1, <2>2, <2>3
<1>4. storage' = NoStorage
  <2>1. storage.small \in [Pools -> Seq(PoolType)] /\ storage.large \in [Pools -> Seq(PoolType)]
    BY DEF MemoryInv, StorageOK, StorageType
  <2>2. PICK none : none = [p \in Pools |-> <<>>]
    OBVIOUS
  <2>3. s.small = none /\ s.large = none
    BY <1>3, <2>1, <2>2 DEF Pools, PERMANENT, IMAGE
  <2>4. s \in StorageType /\ s.heap = Control + InLists(s)
    BY <1>3 DEF StorageOK
  <2>5. InLists(s) = 0
    <3>1. s.small[PERMANENT] = <<>> /\ s.small[IMAGE] = <<>>
          /\ s.large[PERMANENT] = <<>> /\ s.large[IMAGE] = <<>>
      BY <2>2, <2>3 DEF Pools
    <3> QED
      BY <3>1, ReleasedEmpty DEF InLists
  <2>6. s.heap - Control = 0
    BY <2>4, <2>5, SizesAssumption
  <2>7. storage' = [s EXCEPT !.heap = 0, !.total = 0]
    BY <1>2, <2>6
  <2>8. PICK u : u = [s EXCEPT !.heap = 0]
    OBVIOUS
  <2>9. u \in StorageType /\ u.small = s.small /\ u.large = s.large /\ u.heap = 0
        /\ u.error = s.error
    <3>1. PICK z \in StorageType : z = s
      BY <2>4
    <3>2. PICK none_left \in Nat : none_left = 0
      OBVIOUS
    <3>3. u = [z EXCEPT !.heap = none_left]
      BY <2>8, <3>1, <3>2
    <3>4. /\ u \in StorageType /\ u.heap = none_left /\ u.error = z.error
          /\ u.small = z.small /\ u.large = z.large
      BY <3>3 DEF StorageType
    <3> QED
      BY <3>1, <3>2, <3>4
  <2>10. storage' = [u EXCEPT !.total = 0]
    BY <2>7, <2>8
  <2>11. storage' = [small |-> u.small, large |-> u.large, total |-> 0, heap |-> u.heap,
                     error |-> u.error]
    BY <2>9, <2>10 DEF StorageType
  <2>12. u.error = FALSE
    BY <1>3, <2>9 DEF StorageType
  <2> QED
    BY <2>2, <2>3, <2>9, <2>11, <2>12 DEF NoStorage
<1>5. files' = 0
  <2>1. files = Cardinality(Opened(arrays)) /\ arrays \in Seq(ControlType)
    BY DEF MemoryInv, ArraysOK
  <2>2. Closing = files - Cardinality(Opened(arrays))
    BY DEF Closing, Opened
  <2>3. IsFiniteSet(1 .. Len(arrays)) /\ Opened(arrays) \subseteq 1 .. Len(arrays)
    BY <2>1, FS_Interval DEF Opened
  <2>4. Cardinality(Opened(arrays)) \in Nat
    BY <2>3, FS_Subset, FS_CardinalityType
  <2> QED
    BY <1>2, <2>1, <2>2, <2>4
<1>6. ArraysOK(arrays', files')
  BY <1>2, <1>5, NoArrays
<1> QED
  BY <1>2, <1>4, <1>6, NothingStored DEF MemoryInv, Fine

LEMMA QuietInv ==
  ASSUME MemoryInv, UseWatched \/ UNCHANGED <<vars, memory>>
  PROVE  MemoryInv'
<1>1. UNCHANGED memory
  BY DEF UseWatched
<1>2. Fine' => Fine
  <2>1. CASE UseWatched
    BY <2>1 DEF UseWatched, Use, Access, Refuse, Load, Store, Fine
  <2>2. CASE UNCHANGED <<vars, memory>>
    BY <2>2 DEF vars, memory, Fine
  <2> QED
    BY <2>1, <2>2
<1> QED
  BY <1>1, <1>2 DEF memory, MemoryInv

LEMMA MemoryNextInv == MemoryInv /\ [MemoryNext]_<<vars, memory>> => MemoryInv'
<1> SUFFICES ASSUME MemoryInv, [MemoryNext]_<<vars, memory>> PROVE MemoryInv'
  OBVIOUS
<1>1. CASE Create
  BY <1>1, CreateInv
<1>2. CASE Abort
  BY <1>2, AbortInv
<1>3. CASE Destroy
  BY <1>3, DestroyInv
<1>4. CASE UseWatched \/ UNCHANGED <<vars, memory>>
  BY <1>4, QuietInv
<1>5. CASE \E pool \in Pools :
             \/ \E size \in Sizes : AllocSmall(pool, size) \/ AllocLarge(pool, size)
             \/ \E strip_shape \in Strips : AllocRows(pool, strip_shape)
  BY <1>5, AllocationsInv
<1>6. CASE \E shape \in Shapes, watch \in BOOLEAN : Request(shape, watch)
  BY <1>6, RequestInv
<1>7. CASE \E may_open \in 0 .. MaxArrays : realize_virt_arrays(may_open)
  BY <1>7, RealizeInvariant
<1> QED
  BY <1>1, <1>2, <1>3, <1>4, <1>5, <1>6, <1>7 DEF MemoryNext

THEOREM MemoryInvariance == MemorySpec => []MemoryInv
BY MemoryInitInv, MemoryNextInv, PTL DEF MemorySpec

\* Every pool is one of a list.
LEMMA EveryPool ==
  ASSUME MemoryInv, NEW id \in AllPools(storage)
  PROVE  PoolAt(storage, id) \in PoolType /\ PoolOK(PoolAt(storage, id))
<1>1. \A pool \in Pools : ListOK(storage.small[pool]) /\ ListOK(storage.large[pool])
  BY DEF MemoryInv, StorageOK
<1>2. CASE \E pool \in Pools : \E i \in DOMAIN storage.small[pool] : id = <<"small", pool, i>>
  <2>0. PICK pool \in Pools : \E i \in DOMAIN storage.small[pool] : id = <<"small", pool, i>>
    BY <1>2
  <2>1. PICK i \in DOMAIN storage.small[pool] : id = <<"small", pool, i>>
    BY <2>0
  <2>2. PoolAt(storage, id) = storage.small[pool][i]
    BY <2>1 DEF PoolAt
  <2>3. PICK list : list = storage.small[pool]
    OBVIOUS
  <2>4. list[i] \in PoolType /\ PoolOK(list[i])
    BY <1>1, <2>1, <2>3 DEF ListOK
  <2> QED
    BY <2>2, <2>3, <2>4
<1>3. CASE \E pool \in Pools : \E i \in DOMAIN storage.large[pool] : id = <<"large", pool, i>>
  <2>0. PICK pool \in Pools : \E i \in DOMAIN storage.large[pool] : id = <<"large", pool, i>>
    BY <1>3
  <2>1. PICK i \in DOMAIN storage.large[pool] : id = <<"large", pool, i>>
    BY <2>0
  <2>2. PoolAt(storage, id) = storage.large[pool][i]
    BY <2>1 DEF PoolAt
  <2>3. PICK list : list = storage.large[pool]
    OBVIOUS
  <2>4. list[i] \in PoolType /\ PoolOK(list[i])
    BY <1>1, <2>1, <2>3 DEF ListOK
  <2> QED
    BY <2>2, <2>3, <2>4
<1> QED
  BY <1>2, <1>3 DEF AllPools

\* The count that decides how much of a virtual array is held in memory is what
\* malloc() has given, whatever was halved, refused or freed on the way; every
\* temporary file has its array; nothing is left of a manager that is gone.
THEOREM BooksBalance == MemorySpec => []BooksAreTrue
<1>1. MemoryInv => BooksAreTrue
  <2> SUFFICES ASSUME MemoryInv PROVE BooksAreTrue
    OBVIOUS
  <2>1. storage.total = storage.heap
    BY DEF MemoryInv, StorageOK
  <2>2. files = Cardinality({i \in DOMAIN arrays : arrays[i].b_s_open})
    BY DEF MemoryInv, ArraysOK, Opened
  <2>3. ASSUME ~ alive PROVE storage.heap = 0 /\ files = 0
    <3>1. storage = NoStorage /\ arrays = <<>>
      BY <2>3 DEF MemoryInv
    <3>2. {i \in DOMAIN arrays : arrays[i].b_s_open} = {}
      BY <3>1
    <3> QED
      BY <2>2, <3>1, <3>2, FS_EmptySet DEF NoStorage
  <2>4. ASSUME NEW id \in AllPools(storage)
        PROVE  LET p == PoolAt(storage, id) IN p.used + p.left + Header = p.obtained
    BY EveryPool DEF PoolOK
  <2> QED
    BY <2>1, <2>2, <2>3, <2>4 DEF BooksAreTrue
<1> QED
  BY <1>1, MemoryInvariance, PTL

\* Whatever is asked for, in whatever order, the objects that the manager hands
\* out are aligned, inside the space of their pool, and none covers another.
THEOREM ObjectsLieApart == MemorySpec => []ObjectsApart
<1>1. MemoryInv => ObjectsApart
  <2> SUFFICES ASSUME MemoryInv, NEW id \in AllPools(storage), NEW p, p = PoolAt(storage, id)
               PROVE  /\ p.obtained <= MAX_ALLOC_CHUNK
                      /\ \A a \in p.objects :
                           a.at % Align = 0 /\ Header + a.at + a.size <= p.obtained
                      /\ \A a, b \in p.objects :
                           a # b => (a.at + a.size <= b.at) \/ (b.at + b.size <= a.at)
    BY DEF ObjectsApart
  <2>1. p \in PoolType /\ PoolOK(p)
    BY EveryPool
  <2>2. ASSUME NEW a \in p.objects
        PROVE  a.at % Align = 0 /\ Header + a.at + a.size <= p.obtained
    <3>1. a.at \in Nat /\ a.size \in Nat /\ p.used \in Nat /\ p.left \in Nat /\ p.obtained \in Nat
      BY <2>1 DEF PoolType
    <3>2. a.at % Align = 0 /\ a.at + a.size <= p.used /\ p.used + p.left + Header = p.obtained
      BY <2>1 DEF PoolOK
    <3> QED
      BY <3>1, <3>2, SizesAssumption
  <2> QED
    BY <2>1, <2>2 DEF PoolOK
<1> QED
  BY <1>1, MemoryInvariance, PTL

\* A realized array has all of its rows in memory or, with a file, at least the
\* rows of one access; and the rows that are transferred at a time lie side by
\* side, however small the chunks are.
THEOREM WindowsHold == MemorySpec => []WindowsAreWhole
<1>1. MemoryInv => WindowsAreWhole
  <2> SUFFICES ASSUME MemoryInv, NEW i \in DOMAIN arrays, arrays[i].realized
               PROVE  Whole(arrays[i])
    BY DEF WindowsAreWhole, Whole
  <2>1. i \in 1 .. Len(arrays)
    BY DEF MemoryInv, ArraysOK
  <2> QED
    BY <2>1 DEF MemoryInv, ArraysOK
<1> QED
  BY <1>1, MemoryInvariance, PTL

LEMMA TimesAssociates ==
  ASSUME NEW a \in Nat, NEW b \in Nat, NEW c \in Nat
  PROVE  (a * b) * c = a * (b * c)
OBVIOUS

\* A new window takes at most its full height, and at most as many strips as all get.
LEMMA OneShare ==
  ASSUME Typed, Unrealized_arrays # {}, NEW i \in 1 .. Len(arrays), ~ arrays[i].realized,
         NEW space, space = WindowRows(arrays[i].shape) * arrays[i].shape.width
  PROVE  /\ space \in Nat /\ space <= FullHeight(i)
         /\ space <= max_minheights * PerMinheight(i) \/ jpeg_mem_available >= maximum_space
<1>1. arrays[i] \in ControlType
  BY DEF Typed
<1>2. PICK shape \in ShapeType : shape = arrays[i].shape
  BY <1>1 DEF ControlType
<1>3. PICK rows \in Nat \ {0}, width \in Nat \ {0}, high \in Nat \ {0} :
        rows = shape.rows /\ width = shape.width /\ high = shape.maxaccess
  BY DEF ShapeType
<1>4. PICK h \in Nat : h = WindowRows(shape) /\ h <= rows
  BY <1>3, WindowHeight
<1>5. PICK m \in Nat \ {0} :
        m = max_minheights /\ (h <= m * high \/ jpeg_mem_available >= maximum_space)
  BY <1>3, <1>4, WindowHeight
<1>6. space = h * width /\ FullHeight(i) = rows * width /\ PerMinheight(i) = high * width
  BY <1>2, <1>3, <1>4 DEF FullHeight, PerMinheight
<1>7. h * width \in Nat /\ h * width <= rows * width
  BY <1>3, <1>4
<1>8. ASSUME h <= m * high PROVE h * width <= m * (high * width)
  <2>1. PICK x \in Nat : x = m * high
    BY <1>3, <1>5
  <2>2. h * width <= x * width
    BY <1>3, <1>4, <1>8, <2>1
  <2>3. (m * high) * width = m * (high * width)
    <3>1. m \in Nat /\ high \in Nat /\ width \in Nat
      BY <1>3, <1>5
    <3> QED
      BY <3>1, TimesAssociates
  <2> QED
    BY <2>1, <2>2, <2>3
<1> QED
  BY <1>5, <1>6, <1>7, <1>8

LEMMA RealizeFits ==
  ASSUME MemoryInv, NEW may_open \in 0 .. MaxArrays, realize_virt_arrays(may_open)
  PROVE  TakesItsShare
<1>1. PICK done : AccOK(done) /\ Typed /\ Unrealized_arrays # {} /\ arrays' = done.arrays
  BY RealizeFacts
<1>2. /\ Len(arrays) \in Nat /\ DOMAIN arrays = 1 .. Len(arrays)
      /\ \A i \in 1 .. Len(arrays) : arrays[i] \in ControlType
  BY <1>1 DEF Typed
<1>3. PICK per, full :
        /\ per = [i \in DOMAIN arrays |-> PerMinheight(i)]
        /\ full = [i \in DOMAIN arrays |-> FullHeight(i)]
  OBVIOUS
<1>4. /\ per \in Seq(Nat) /\ full \in Seq(Nat) /\ Len(per) = Len(arrays) /\ Len(full) = Len(arrays)
      /\ space_per_minheight = Added(per) /\ maximum_space = Added(full)
  BY <1>1, <1>3, Needs DEF space_per_minheight, maximum_space
<1>5. PICK m \in Nat \ {0}, avail \in Int, spm \in Nat, most \in Nat :
        /\ m = max_minheights /\ avail = jpeg_mem_available
        /\ spm = space_per_minheight /\ most = maximum_space
        /\ m = 1 \/ m * spm <= avail
  <2>1. PICK shape \in ShapeType : TRUE
    <3>1. [kind |-> "sample", width |-> 1, rows |-> 1, maxaccess |-> 1] \in ShapeType
      BY DEF ShapeType
    <3> QED
      BY <3>1
  <2>2. max_minheights \in Nat \ {0}
    BY <1>1, <2>1, WindowHeight
  <2>3. max_minheights = 1 \/ max_minheights * space_per_minheight <= jpeg_mem_available
    BY <1>1, <2>1, WindowHeight
  <2> QED
    BY <1>1, <2>2, <2>3, Needs
<1>6. PICK new : new = [i \in DOMAIN arrays |-> NewSpace(i)]
  OBVIOUS
<1>7. ASSUME NEW i \in 1 .. Len(arrays)
      PROVE  /\ new[i] \in Nat /\ per[i] \in Nat /\ full[i] \in Nat
             /\ new[i] <= full[i] /\ (new[i] <= m * per[i] \/ avail >= most)
  <2>0. /\ new[i] = NewSpace(i) /\ per[i] = PerMinheight(i) /\ full[i] = FullHeight(i)
        /\ per[i] \in Nat /\ full[i] \in Nat
    BY <1>2, <1>3, <1>4, <1>6
  <2>1. CASE arrays'[i].realized /\ ~ arrays[i].realized
    <3>1. /\ arrays'[i].rows_in_mem = WindowRows(arrays[i].shape)
          /\ arrays'[i].shape = arrays[i].shape
      BY <1>1, <2>1 DEF AccOK
    <3>2. PICK space : space = WindowRows(arrays[i].shape) * arrays[i].shape.width
      OBVIOUS
    <3>3. new[i] = space
      BY <2>0, <2>1, <3>1, <3>2 DEF NewSpace
    <3>4. space \in Nat /\ space <= FullHeight(i)
      BY <1>1, <2>1, <3>2, OneShare
    <3>5. space <= max_minheights * PerMinheight(i) \/ jpeg_mem_available >= maximum_space
      BY <1>1, <2>1, <3>2, OneShare
    <3> QED
      BY <1>5, <2>0, <3>3, <3>4, <3>5
  <2>2. CASE ~ (arrays'[i].realized /\ ~ arrays[i].realized)
    <3>1. new[i] = 0
      BY <2>0, <2>2 DEF NewSpace
    <3>2. m * per[i] \in Nat
      BY <2>0
    <3> QED
      BY <2>0, <3>1, <3>2
  <2> QED
    BY <2>1, <2>2
<1>8. new \in Seq(Int) /\ Len(new) = Len(arrays) /\ full \in Seq(Int) /\ per \in Seq(Int)
  BY <1>2, <1>4, <1>6, <1>7
<1>9. Added(new) \in Int
  BY <1>8, AddedType
<1>10. CASE avail >= most
  <2>1. Added(new) <= most
    BY <1>4, <1>5, <1>7, <1>8, AddedMonotone
  <2> QED
    BY <1>5, <1>6, <1>9, <1>10, <2>1 DEF TakesItsShare, Maximum
<1>11. CASE ~ (avail >= most)
  <2>1. PICK scaled : scaled = [i \in 1 .. Len(arrays) |-> m * per[i]]
    OBVIOUS
  <2>2. \A i \in 1 .. Len(arrays) : m * per[i] \in Int
    BY <1>7
  <2>3. /\ scaled \in Seq(Int) /\ Len(scaled) = Len(arrays)
        /\ \A i \in 1 .. Len(arrays) : scaled[i] = m * per[i]
    BY <1>2, <2>1, <2>2
  <2>4. Added(new) <= Added(scaled)
    BY <1>7, <1>8, <1>11, <2>3, AddedMonotone
  <2>5. Added(scaled) = m * spm
    BY <1>4, <1>5, <1>8, <2>3, AddedScaled
  <2>6. PICK product \in Int : product = m * spm
    BY <1>5
  <2>7. Added(new) <= product /\ (product = spm \/ product <= avail)
    BY <1>5, <2>4, <2>5, <2>6
  <2> QED
    BY <1>5, <1>6, <1>9, <2>6, <2>7 DEF TakesItsShare, Maximum
<1> QED
  BY <1>10, <1>11

LEMMA NothingRealized ==
  ASSUME MemoryInv,
         \A i \in 1 .. Len(arrays) : ~ arrays[i].realized => ~ arrays'[i].realized
  PROVE  TakesItsShare
<1>1. Typed
  BY DEF MemoryInv, Typed, StorageOK, ArraysOK
<1>2. /\ Len(arrays) \in Nat /\ DOMAIN arrays = 1 .. Len(arrays)
  BY <1>1 DEF Typed
<1>3. PICK new : new = [i \in DOMAIN arrays |-> NewSpace(i)]
  OBVIOUS
<1>4. \A i \in 1 .. Len(arrays) : new[i] = 0
  BY <1>2, <1>3 DEF NewSpace
<1>5. PICK per : per = [i \in DOMAIN arrays |-> PerMinheight(i)]
  OBVIOUS
<1>6. /\ per \in Seq(Nat) /\ Len(per) = Len(arrays) /\ space_per_minheight = Added(per)
  BY <1>1, <1>5, Needs DEF space_per_minheight
<1>7. new \in Seq(Int) /\ per \in Seq(Int) /\ Len(new) = Len(per)
  BY <1>2, <1>3, <1>4, <1>6
<1>8. Added(new) <= Added(per)
  <2>1. \A i \in 1 .. Len(new) : new[i] <= per[i]
    BY <1>4, <1>6, <1>7
  <2> QED
    BY <1>7, <2>1, AddedMonotone
<1>9. Added(new) \in Int /\ Added(per) \in Int
  BY <1>7, AddedType
<1>10. jpeg_mem_available \in Int
  BY <1>1, Needs
<1> QED
  BY <1>3, <1>6, <1>8, <1>9, <1>10 DEF TakesItsShare, Maximum

LEMMA StepTakesItsShare ==
  ASSUME MemoryInv, MemoryNext, Len(arrays') >= Len(arrays)
  PROVE  TakesItsShare
<1>0. arrays \in Seq(ControlType) /\ Len(arrays) \in Nat
  BY DEF MemoryInv, ArraysOK
<1>1. CASE Create \/ UseWatched
  <2>1. arrays' = arrays
    BY <1>1 DEF Create, UseWatched, memory
  <2> QED
    BY <2>1, NothingRealized
<1>2. CASE Abort \/ Destroy
  <2>1. arrays' = <<>>
    BY <1>2 DEF Abort, Destroy
  <2>2. 1 .. Len(arrays) = {}
    BY <1>0, <2>1
  <2> QED
    BY <2>2, NothingRealized
<1>3. CASE \E pool \in Pools :
             \/ \E size \in Sizes : AllocSmall(pool, size) \/ AllocLarge(pool, size)
             \/ \E strip_shape \in Strips : AllocRows(pool, strip_shape)
  <2>1. arrays' = arrays
    BY <1>3 DEF AllocSmall, AllocLarge, AllocRows, Allocate
  <2> QED
    BY <2>1, NothingRealized
<1>4. CASE \E shape \in Shapes, watch \in BOOLEAN : Request(shape, watch)
  <2>1. PICK shape \in Shapes, watch \in BOOLEAN :
          arrays' = arrays \/ arrays' = Append(arrays, ControlBlock(shape, watch))
    BY <1>4 DEF Request
  <2>2. \A i \in 1 .. Len(arrays) : arrays'[i] = arrays[i]
    BY <1>0, <2>1
  <2> QED
    BY <2>2, NothingRealized
<1>5. CASE \E may_open \in 0 .. MaxArrays : realize_virt_arrays(may_open)
  BY <1>5, RealizeFits
<1> QED
  BY <1>1, <1>2, <1>3, <1>4, <1>5 DEF MemoryNext

\* The comment in realize_virt_arrays(): the windows that one call makes take
\* together no more than is available, or than one strip of each.
THEOREM BuffersFit == MemorySpec => BuffersFitMemory
<1>1. MemoryInv /\ [MemoryNext]_<<vars, memory>> =>
        [Len(arrays') >= Len(arrays) => TakesItsShare]_<<vars, memory>>
  BY StepTakesItsShare
<1> QED
  BY <1>1, MemoryInvariance, PTL DEF MemorySpec, BuffersFitMemory
-----------------------------------------------------------------------------
(***************************************************************************)
(* A virtual array is, to its users, an array that is there as a whole:    *)
(* VirtualArray implements PlainArray, for every number of rows, height of *)
(* access, size of the window and set of values.                           *)
(*                                                                         *)
(* The argument rests on four facts about the window (Inv): it holds the   *)
(* strip that was accessed last; without a file it holds every row; a      *)
(* window that is not dirty agrees with the file on the rows that were     *)
(* written; and rows of the strip that were never written are zeros in it. *)
(***************************************************************************)
InWindow(r) == r >= cur_start_row /\ r < cur_start_row + rows_in_mem

\* The window holds every row, or there is a file and the window can hold a strip.
WindowOK ==
  /\ status = "open" /\ ~ b_s_open => rows_in_mem = Rows /\ cur_start_row = 0
  /\ b_s_open => rows_in_mem >= MaxAccess
  /\ status = "none" => /\ rows_in_mem = 0 /\ cur_start_row = 0 /\ first_undef_row = 0
                        /\ b_s_open = FALSE /\ dirty = FALSE

\* The strip is in the window; what may be written counts as written.
StripOK ==
  /\ strip = NoStrip \/ /\ status # "none"
                        /\ strip.first >= cur_start_row
                        /\ strip.end <= cur_start_row + rows_in_mem
  /\ strip.writable => dirty /\ strip.end <= first_undef_row
  /\ ~ pre_zero => strip.end <= first_undef_row

\* A clean window is a copy of the rows of the file that were written.
CleanOK ==
  status = "open" /\ b_s_open /\ ~ dirty =>
    \A r \in 0 .. Rows - 1 :
      r < first_undef_row /\ InWindow(r) => mem_buffer[r - cur_start_row] = file[r]

\* A reader that is ahead of the writer finds zeros.
ZerosOK ==
  pre_zero => \A r \in strip.first .. strip.end - 1 :
                r >= first_undef_row => mem_buffer[r - cur_start_row] = Zero

Inv == /\ TypeOK /\ status # "bug"
       /\ WindowOK /\ StripOK /\ CleanOK /\ ZerosOK

USE RowsAssumption, MaxAccessAssumption, ZeroAssumption

LEMMA InitInv == Unrealized => Inv
<1> SUFFICES ASSUME Unrealized PROVE Inv
  OBVIOUS
<1>1. TypeOK
  <2>1. mem_buffer \in [0 .. rows_in_mem - 1 -> Values]
    BY DEF Unrealized
  <2>2. file \in [0 .. Rows - 1 -> Values]
    BY DEF Unrealized
  <2>3. strip \in [first : 0 .. Rows, end : 0 .. Rows, writable : BOOLEAN]
    BY DEF Unrealized, NoStrip
  <2> QED
    BY <2>1, <2>2, <2>3 DEF Unrealized, TypeOK
<1>2. WindowOK
  BY DEF Unrealized, WindowOK
<1>3. StripOK
  BY DEF Unrealized, StripOK, NoStrip
<1>4. CleanOK /\ ZerosOK /\ status # "bug"
  BY DEF Unrealized, CleanOK, ZerosOK, NoStrip
<1> QED
  BY <1>1, <1>2, <1>3, <1>4 DEF Inv

\* Realize keeps the invariant: a window of all rows, or one and a file.
LEMMA RealizeInv ==
  ASSUME Inv, NEW rows \in 0 .. Rows, NEW with_file \in BOOLEAN, Realize(rows, with_file)
  PROVE  Inv'
<1>1. TypeOK'
  BY DEF Inv, TypeOK, Realize, WindowOK
<1>2. strip = NoStrip
  BY DEF Inv, StripOK, Realize
<1> QED
  BY <1>1, <1>2 DEF Inv, TypeOK, Realize, WindowOK, StripOK, CleanOK, ZerosOK, NoStrip, InWindow

\* Where an access leaves the window: around the strip, and with a file only
\* unless it holds all rows.
LEMMA AccessWindow ==
  ASSUME Inv, status = "open",
         NEW first \in 0 .. Rows, NEW num \in 1 .. Rows + MaxAccess, NEW writable \in BOOLEAN,
         Access(first, first + num, writable)
  PROVE  /\ first + num <= Rows /\ num <= MaxAccess
         /\ cur_start_row' \in 0 .. Rows
         /\ cur_start_row' <= first /\ first + num <= cur_start_row' + rows_in_mem
         /\ ~ b_s_open => cur_start_row' = 0
<1> DEFINE end == first + num
<1>1. end \in Int /\ first \in Int /\ end <= Rows /\ end - first <= MaxAccess /\ end > first
  BY DEF Access, Fits
<1>2. /\ cur_start_row \in 0 .. Rows /\ rows_in_mem \in 0 .. Rows /\ b_s_open \in BOOLEAN
      /\ ~ b_s_open => rows_in_mem = Rows /\ cur_start_row = 0
      /\ b_s_open => rows_in_mem >= MaxAccess
  BY DEF Inv, TypeOK, WindowOK
<1>3. cur_start_row' = IF Outside(first, end) THEN NewStart(first, end) ELSE cur_start_row
  BY DEF Access
<1>4. CASE Outside(first, end)
  <2>1. b_s_open
    BY <1>4 DEF Access
  <2>2. CASE first > cur_start_row
    BY <1>1, <1>2, <1>3, <1>4, <2>1, <2>2 DEF NewStart
  <2>3. CASE ~ (first > cur_start_row)
    <3>1. cur_start_row' = IF 0 >= end - rows_in_mem THEN 0 ELSE end - rows_in_mem
      BY <1>3, <1>4, <2>3 DEF NewStart, Maximum
    <3> QED
      BY <1>1, <1>2, <2>1, <3>1
  <2> QED
    BY <2>2, <2>3
<1>5. CASE ~ Outside(first, end)
  BY <1>1, <1>2, <1>3, <1>5 DEF Outside
<1> QED
  BY <1>1, <1>4, <1>5

\* The transfers between the window and the file keep both of their type.
LEMMA FlushedType ==
  ASSUME TypeOK PROVE Flushed \in [0 .. Rows - 1 -> Values]
<1> SUFFICES ASSUME NEW r \in 0 .. Rows - 1, dirty, r >= cur_start_row,
                    r < cur_start_row + rows_in_mem
             PROVE  mem_buffer[r - cur_start_row] \in Values
  BY DEF Flushed, TypeOK
<1>1. r - cur_start_row \in 0 .. rows_in_mem - 1
  BY DEF TypeOK
<1> QED
  BY <1>1 DEF TypeOK

LEMMA LoadedType ==
  ASSUME TypeOK, NEW start \in 0 .. Rows
  PROVE  Loaded(Flushed, start) \in [0 .. rows_in_mem - 1 -> Values]
<1> SUFFICES ASSUME NEW i \in 0 .. rows_in_mem - 1,
                    start + i < Minimum(first_undef_row, Rows)
             PROVE  Flushed[start + i] \in Values
  BY DEF Loaded, TypeOK
<1>1. start + i \in 0 .. Rows - 1
  BY DEF TypeOK, Minimum
<1> QED
  BY <1>1, FlushedType

LEMMA ClearedType ==
  ASSUME NEW buffer \in [0 .. rows_in_mem - 1 -> Values],
         NEW start, NEW first, NEW end
  PROVE  Cleared(buffer, start, first, end) \in [0 .. rows_in_mem - 1 -> Values]
BY DEF Cleared

LEMMA AccessType ==
  ASSUME Inv, status = "open",
         NEW first \in 0 .. Rows, NEW num \in 1 .. Rows + MaxAccess, NEW writable \in BOOLEAN,
         Access(first, first + num, writable)
  PROVE  TypeOK'
<1> DEFINE end == first + num
           buffer == IF Outside(first, end) THEN Loaded(Flushed, cur_start_row') ELSE mem_buffer
<1>0. TypeOK
  BY DEF Inv
<1>1. cur_start_row' \in 0 .. Rows /\ end \in 0 .. Rows
  <2>1. /\ first + num <= Rows
        /\ cur_start_row' \in 0 .. Rows
    BY AccessWindow, Zenon
  <2> QED
    BY <2>1
<1>2. file' \in [0 .. Rows - 1 -> Values]
  BY <1>0, FlushedType DEF Access, TypeOK
<1>3. buffer \in [0 .. rows_in_mem - 1 -> Values]
  <2>1. Loaded(Flushed, cur_start_row') \in [0 .. rows_in_mem - 1 -> Values]
    BY <1>0, <1>1, LoadedType, Zenon
  <2> QED
    BY <1>0, <2>1 DEF TypeOK
<1>4. mem_buffer' \in [0 .. rows_in_mem - 1 -> Values]
  <2>1. mem_buffer' = Cleared(buffer, cur_start_row', first, end)
    BY DEF Access
  <2> HIDE DEF buffer
  <2> QED
    BY <1>3, <2>1, ClearedType
<1>5. first_undef_row' \in 0 .. Rows
  BY <1>0, <1>1 DEF Access, Maximum, TypeOK
<1>6. dirty' \in BOOLEAN
  BY <1>0, Zenon DEF Access, TypeOK
<1>7. strip' \in [first : 0 .. Rows, end : 0 .. Rows, writable : BOOLEAN]
  BY <1>1 DEF Access
<1> QED
  BY <1>0, <1>1, <1>2, <1>4, <1>5, <1>6, <1>7 DEF TypeOK, Access

\* What the file holds after the flush is what the array holds.
LEMMA FlushedRow ==
  ASSUME Inv, status = "open", b_s_open, NEW r \in 0 .. Rows - 1, r < first_undef_row
  PROVE  Flushed[r] = Row(r)
<1>1. /\ TypeOK
      /\ ~ dirty => (InWindow(r) => mem_buffer[r - cur_start_row] = file[r])
  BY DEF Inv, CleanOK
<1>2. Flushed[r] = IF dirty /\ r >= cur_start_row /\ r < cur_start_row + rows_in_mem
                   THEN mem_buffer[r - cur_start_row] ELSE file[r]
  BY DEF Flushed
<1> QED
  BY <1>1, <1>2 DEF InWindow, Row, TypeOK

\* Rows of a window that begins at start: cleared or not, loaded or not.
LEMMA WindowRow ==
  ASSUME TypeOK, NEW start \in 0 .. Rows,
         NEW first \in 0 .. Rows, NEW end \in 0 .. Rows,
         NEW buffer,
         NEW r \in 0 .. Rows - 1, r >= start, r < start + rows_in_mem
  PROVE  /\ r < first_undef_row =>
              /\ Cleared(buffer, start, first, end)[r - start] = buffer[r - start]
              /\ Loaded(Flushed, start)[r - start] = Flushed[r]
         /\ pre_zero /\ r >= first_undef_row /\ r >= first /\ r < end =>
              Cleared(buffer, start, first, end)[r - start] = Zero
<1> DEFINE i == r - start
<1>1. i \in 0 .. rows_in_mem - 1 /\ start + i = r
  BY DEF TypeOK
<1>2. first_undef_row \in Int /\ r \in Int /\ Rows \in Int
  BY DEF TypeOK
<1>3. /\ r < first_undef_row => ~ (r >= Maximum(first, first_undef_row))
      /\ (r >= first_undef_row /\ r >= first => r >= Maximum(first, first_undef_row))
      /\ (r < first_undef_row => r < Minimum(first_undef_row, Rows))
  BY <1>2 DEF Maximum, Minimum
<1> HIDE DEF i
<1>4. Cleared(buffer, start, first, end)[i] =
        IF pre_zero /\ r >= Maximum(first, first_undef_row) /\ r < end
        THEN Zero ELSE buffer[i]
  BY <1>1 DEF Cleared
<1>5. Loaded(Flushed, start)[i] =
        IF r < Minimum(first_undef_row, Rows) THEN Flushed[r] ELSE mem_buffer[i]
  BY <1>1 DEF Loaded
<1> QED
  BY <1>3, <1>4, <1>5 DEF i

\* A row of the window after an access: loaded, cleared, or as it was.
LEMMA AccessBuffer ==
  ASSUME Inv, status = "open", cur_start_row' \in 0 .. Rows,
         NEW first \in 0 .. Rows, NEW num \in 1 .. Rows + MaxAccess, NEW writable \in BOOLEAN,
         first + num <= Rows, Access(first, first + num, writable),
         NEW r \in 0 .. Rows - 1, r >= cur_start_row', r < cur_start_row' + rows_in_mem
  PROVE  /\ r < first_undef_row /\ Outside(first, first + num) =>
              mem_buffer'[r - cur_start_row'] = Flushed[r]
         /\ r < first_undef_row /\ ~ Outside(first, first + num) =>
              mem_buffer'[r - cur_start_row'] = mem_buffer[r - cur_start_row']
         /\ pre_zero /\ r >= first_undef_row /\ r >= first /\ r < first + num =>
              mem_buffer'[r - cur_start_row'] = Zero
<1> DEFINE end == first + num
           start == cur_start_row'
           buffer == IF Outside(first, end) THEN Loaded(Flushed, start) ELSE mem_buffer
<1>0. TypeOK
  BY DEF Inv
<1>1. mem_buffer' = Cleared(buffer, start, first, end)
  BY DEF Access
<1>2. end \in 0 .. Rows /\ start \in 0 .. Rows /\ r >= start /\ r < start + rows_in_mem
  OBVIOUS
<1>3. PICK s \in 0 .. Rows, e \in 0 .. Rows, b \in {buffer} :
        s = start /\ e = end /\ b = buffer
  <2> HIDE DEF buffer, start, end
  <2> QED
    BY <1>2
<1>4. r >= s /\ r < s + rows_in_mem
  BY <1>2, <1>3
<1>5. r < first_undef_row => /\ Cleared(b, s, first, e)[r - s] = b[r - s]
                             /\ Loaded(Flushed, s)[r - s] = Flushed[r]
  BY <1>0, <1>4, WindowRow
<1>6. pre_zero /\ r >= first_undef_row /\ r >= first /\ r < e =>
        Cleared(b, s, first, e)[r - s] = Zero
  BY <1>0, <1>4, WindowRow
<1> QED
  BY <1>1, <1>3, <1>5, <1>6

LEMMA AccessInv ==
  ASSUME Inv, status = "open",
         NEW first \in 0 .. Rows, NEW num \in 1 .. Rows + MaxAccess, NEW writable \in BOOLEAN,
         Access(first, first + num, writable)
  PROVE  Inv'
<1> DEFINE end == first + num
           moves == Outside(first, end)
<1>0. TypeOK /\ TypeOK'
  BY AccessType DEF Inv
<1>1. /\ end <= Rows /\ cur_start_row' \in 0 .. Rows
      /\ cur_start_row' <= first /\ end <= cur_start_row' + rows_in_mem
      /\ ~ b_s_open => cur_start_row' = 0
  BY AccessWindow, Zenon
<1>2. /\ rows_in_mem' = rows_in_mem /\ b_s_open' = b_s_open /\ status' = status
      /\ pre_zero' = pre_zero
      /\ moves => b_s_open
      /\ strip' = [first |-> first, end |-> end, writable |-> writable]
      /\ first_undef_row' = IF writable THEN Maximum(first_undef_row, end) ELSE first_undef_row
      /\ dirty' = (writable \/ (dirty /\ ~ moves))
      /\ file' = IF moves THEN Flushed ELSE file
      /\ ~ moves => cur_start_row' = cur_start_row
      /\ ~ Undefined(first, end, writable)
  BY DEF Access
<1>3. first_undef_row \in Int /\ end \in Int /\ first \in Int /\ rows_in_mem \in Int
      /\ cur_start_row \in Int /\ cur_start_row' \in Int
  BY <1>0 DEF TypeOK
<1>a. strip'.first = first /\ strip'.end = end /\ strip'.writable = writable
  BY <1>2
<1>4. WindowOK'
  BY <1>1, <1>2 DEF Inv, WindowOK
<1>5. StripOK'
  <2>1. writable => end <= first_undef_row'
    BY <1>2, <1>3 DEF Maximum
  <2>2. ~ pre_zero => end <= first_undef_row'
    BY <1>2, <1>3, <2>1 DEF Undefined
  <2>3. strip'.writable => dirty' /\ strip'.end <= first_undef_row'
    BY <1>2, <1>a, <2>1
  <2>4. ~ pre_zero' => strip'.end <= first_undef_row'
    BY <1>2, <1>a, <2>2
  <2>5. /\ status' # "none" /\ strip'.first >= cur_start_row'
        /\ strip'.end <= cur_start_row' + rows_in_mem'
    BY <1>1, <1>2, <1>a
  <2> QED
    BY <2>3, <2>4, <2>5 DEF StripOK
<1>6. CleanOK'
  <2> SUFFICES ASSUME b_s_open, ~ writable, ~ (dirty /\ ~ moves),
                      NEW r \in 0 .. Rows - 1, r < first_undef_row,
                      r >= cur_start_row', r < cur_start_row' + rows_in_mem
               PROVE  mem_buffer'[r - cur_start_row'] = file'[r]
    BY <1>2 DEF CleanOK, InWindow
  <2>1. CASE moves
    BY <1>1, <1>2, <2>1, AccessBuffer
  <2>2. CASE ~ moves
    <3>1. mem_buffer'[r - cur_start_row'] = mem_buffer[r - cur_start_row']
      BY <1>1, <2>2, AccessBuffer
    <3>2. mem_buffer[r - cur_start_row] = file[r]
      BY <1>2, <2>2 DEF Inv, CleanOK, InWindow
    <3> QED
      BY <1>2, <2>2, <3>1, <3>2
  <2> QED
    BY <2>1, <2>2
<1>7. ZerosOK'
  <2> SUFFICES ASSUME pre_zero, NEW r \in first .. end - 1, r >= first_undef_row'
               PROVE  mem_buffer'[r - cur_start_row'] = Zero
    <3>1. strip'.first .. strip'.end - 1 = first .. end - 1
      BY <1>a
    <3> QED
      BY <1>2, <3>1, Zenon DEF ZerosOK
  <2>1. r >= first_undef_row
    BY <1>2, <1>3 DEF Maximum
  <2>2. /\ r \in 0 .. Rows - 1 /\ r >= cur_start_row' /\ r < cur_start_row' + rows_in_mem
        /\ r >= first /\ r < end
    <3>1. r \in Int /\ r >= first /\ r < end /\ first >= 0
      BY <1>3
    <3>2. end <= Rows /\ cur_start_row' <= first /\ end <= cur_start_row' + rows_in_mem
      BY <1>1
    <3> HIDE DEF end
    <3>3. r \in 0 .. Rows - 1
      BY <1>3, <3>1, <3>2
    <3>4. r >= cur_start_row'
      BY <1>3, <3>1, <3>2
    <3>5. r < cur_start_row' + rows_in_mem
      <4>1. PICK start \in Int : start = cur_start_row'
        BY <1>3
      <4>2. end <= start + rows_in_mem
        BY <3>2, <4>1
      <4>3. r < start + rows_in_mem
        BY <1>3, <3>1, <4>2
      <4> QED
        BY <4>1, <4>3
    <3> QED
      BY <3>1, <3>3, <3>4, <3>5
  <2> QED
    BY <1>1, <2>1, <2>2, AccessBuffer
<1> QED
  BY <1>0, <1>2, <1>4, <1>5, <1>6, <1>7 DEF Inv

\* An access that is refused is never the window's fault.
LEMMA RefuseInv ==
  ASSUME Inv, NEW first \in 0 .. Rows, NEW num \in 1 .. Rows + MaxAccess, NEW writable \in BOOLEAN,
         Refuse(first, first + num, writable)
  PROVE  Inv' /\ status' = "refused" /\ status = "open"
<1> DEFINE end == first + num
<1>1. ~ (Fits(first, end) /\ Outside(first, end) /\ ~ b_s_open)
  <2> SUFFICES ASSUME end <= Rows, Outside(first, end), ~ b_s_open PROVE FALSE
    BY DEF Fits
  <2>1. rows_in_mem = Rows /\ cur_start_row = 0
    BY DEF Refuse, Inv, WindowOK
  <2> QED
    BY <2>1 DEF Outside
<1>2. status' = "refused" /\ status = "open"
  BY <1>1 DEF Refuse
<1>3. UNCHANGED <<pre_zero, mem_buffer, cur_start_row, rows_in_mem, first_undef_row, dirty,
                  b_s_open, file, strip, seen>>
  BY DEF Refuse
<1>4. TypeOK'
  BY <1>2, <1>3 DEF Inv, TypeOK
<1>5. WindowOK' /\ StripOK' /\ CleanOK' /\ ZerosOK'
  BY <1>2, <1>3 DEF Inv, WindowOK, StripOK, CleanOK, ZerosOK, InWindow
<1> QED
  BY <1>2, <1>4, <1>5 DEF Inv

LEMMA BreakInv == Inv /\ Break => Inv'
<1> SUFFICES ASSUME Inv, Break PROVE Inv'
  OBVIOUS
<1>1. TypeOK'
  BY DEF Inv, TypeOK, Break
<1>2. WindowOK' /\ StripOK' /\ CleanOK' /\ ZerosOK'
  BY DEF Inv, WindowOK, StripOK, CleanOK, ZerosOK, InWindow, Break
<1> QED
  BY <1>1, <1>2 DEF Inv, Break

LEMMA FreeInv == Free => Inv'
<1> SUFFICES ASSUME Free PROVE Inv'
  OBVIOUS
<1>1. TypeOK'
  <2>1. (mem_buffer \in [0 .. rows_in_mem - 1 -> Values])'
    BY DEF Free
  <2>2. (file \in [0 .. Rows - 1 -> Values])'
    BY DEF Free
  <2>3. (strip \in [first : 0 .. Rows, end : 0 .. Rows, writable : BOOLEAN])'
    BY DEF Free, NoStrip
  <2> QED
    BY <2>1, <2>2, <2>3 DEF Free, TypeOK
<1>2. WindowOK'
  BY DEF Free, WindowOK
<1>3. StripOK'
  BY DEF Free, StripOK, NoStrip
<1>4. CleanOK' /\ ZerosOK' /\ status' # "bug"
  BY DEF Free, CleanOK, ZerosOK, NoStrip
<1> QED
  BY <1>1, <1>2, <1>3, <1>4 DEF Inv

LEMMA LoadInv ==
  ASSUME Inv, NEW r \in 0 .. Rows - 1, Load(r)
  PROVE  Inv'
<1>0. TypeOK /\ StripOK /\ strip # NoStrip
  BY DEF Inv, Load, NoStrip
<1>1. r - cur_start_row \in 0 .. rows_in_mem - 1
  BY <1>0 DEF StripOK, Load, TypeOK
<1>2. TypeOK'
  BY <1>0, <1>1 DEF TypeOK, Load
<1>3. WindowOK' /\ StripOK' /\ CleanOK' /\ ZerosOK'
  BY DEF Inv, WindowOK, StripOK, CleanOK, ZerosOK, InWindow, Load
<1> QED
  BY <1>2, <1>3 DEF Inv, Load

\* A store makes the window differ from the file; it is dirty already.
LEMMA StoreInv ==
  ASSUME Inv, NEW r \in 0 .. Rows - 1, NEW v \in Values, Store(r, v)
  PROVE  Inv'
<1>0. TypeOK /\ StripOK /\ strip # NoStrip /\ dirty /\ strip.end <= first_undef_row
  BY DEF Inv, Store, StripOK, NoStrip
<1>1. TypeOK'
  BY <1>0 DEF TypeOK, Store
<1>2. WindowOK' /\ StripOK' /\ CleanOK'
  BY <1>0 DEF Inv, WindowOK, StripOK, CleanOK, Store
<1>3. ZerosOK'
  BY <1>0 DEF ZerosOK, Store, TypeOK
<1> QED
  BY <1>1, <1>2, <1>3 DEF Inv, Store

LEMMA NextInv == Inv /\ [Next]_vars => Inv'
<1> SUFFICES ASSUME Inv, [Next]_vars PROVE Inv'
  OBVIOUS
<1>1. CASE \E rows \in 0 .. Rows, with_file \in BOOLEAN : Realize(rows, with_file)
  BY <1>1, RealizeInv
<1>2. CASE Break
  BY <1>2, BreakInv
<1>3. CASE Free
  BY <1>3, FreeInv
<1>4. CASE Use
  <2>1. CASE \E first \in 0 .. Rows, num \in 1 .. Rows + MaxAccess, writable \in BOOLEAN :
               Access(first, first + num, writable)
    <3>1. status = "open"
      BY <2>1 DEF Access
    <3> QED
      BY <2>1, <3>1, AccessInv
  <2>2. CASE \E first \in 0 .. Rows, num \in 1 .. Rows + MaxAccess, writable \in BOOLEAN :
               Refuse(first, first + num, writable)
    BY <2>2, RefuseInv
  <2>3. CASE \E r \in 0 .. Rows - 1 : Load(r)
    BY <2>3, LoadInv
  <2>4. CASE \E r \in 0 .. Rows - 1 : \E v \in Values : Store(r, v)
    BY <2>4, StoreInv
  <2> QED
    BY <1>4, <2>1, <2>2, <2>3, <2>4 DEF Use
<1>5. CASE UNCHANGED vars
  <2>1. TypeOK'
    BY <1>5 DEF vars, Inv, TypeOK
  <2>2. WindowOK' /\ StripOK' /\ CleanOK' /\ ZerosOK'
    BY <1>5 DEF vars, Inv, WindowOK, StripOK, CleanOK, ZerosOK, InWindow
  <2> QED
    BY <1>5, <2>1, <2>2 DEF vars, Inv
<1> QED
  BY <1>1, <1>2, <1>3, <1>4, <1>5 DEF Next

\* The window, the file and the strip stay consistent in every behaviour.
THEOREM WindowInvariant == Spec => []Inv
<1> QED
  BY InitInv, NextInv, PTL DEF Spec

THEOREM TypeCorrect == Spec => []TypeOK
<1>1. Inv => TypeOK
  BY DEF Inv
<1> QED
  BY WindowInvariant, <1>1, PTL

-----------------------------------------------------------------------------
Contents == [r \in 0 .. Rows - 1 |-> Row(r)]

\* A row that was written reads the same wherever the access has put it; rows
\* that an access adds are zeros, if the array is to hold zeros.
LEMMA AccessRow ==
  ASSUME Inv, status = "open",
         NEW first \in 0 .. Rows, NEW num \in 1 .. Rows + MaxAccess, NEW writable \in BOOLEAN,
         Access(first, first + num, writable), NEW r \in 0 .. Rows - 1
  PROVE  /\ r < first_undef_row => Row(r)' = Row(r)
         /\ r >= first_undef_row' => Row(r)' = Zero
         /\ pre_zero => Row(r)' = Row(r)
<1> DEFINE end == first + num
           moves == Outside(first, end)
<1>0. TypeOK /\ TypeOK'
  BY AccessType DEF Inv
<1>1. /\ cur_start_row' \in 0 .. Rows /\ end <= Rows
      /\ cur_start_row' <= first /\ end <= cur_start_row' + rows_in_mem
  BY AccessWindow, Zenon
<1>2. /\ rows_in_mem' = rows_in_mem
      /\ moves => b_s_open
      /\ first_undef_row' = IF writable THEN Maximum(first_undef_row, end) ELSE first_undef_row
      /\ file' = IF moves THEN Flushed ELSE file
      /\ ~ moves => cur_start_row' = cur_start_row
      /\ ~ Undefined(first, end, writable)
  BY DEF Access
<1>3. first_undef_row \in Int /\ first_undef_row' \in Int /\ end \in Int /\ first \in Int
  BY <1>0 DEF TypeOK
<1>4. first_undef_row <= first_undef_row'
  BY <1>2, <1>3 DEF Maximum
<1>5. Row(r)' = IF r >= first_undef_row' THEN Zero
                ELSE IF r >= cur_start_row' /\ r < cur_start_row' + rows_in_mem
                THEN mem_buffer'[r - cur_start_row'] ELSE file'[r]
  BY <1>2 DEF Row
<1>6. CASE r < first_undef_row
  <2>1. r < first_undef_row'
    BY <1>3, <1>4, <1>6
  <2>2. CASE moves
    <3>1. Flushed[r] = Row(r)
      BY <1>2, <1>6, <2>2, FlushedRow
    <3>2. r >= cur_start_row' /\ r < cur_start_row' + rows_in_mem =>
            mem_buffer'[r - cur_start_row'] = Flushed[r]
      BY <1>1, <1>6, <2>2, AccessBuffer
    <3> QED
      BY <1>2, <1>3, <1>5, <2>1, <2>2, <3>1, <3>2
  <2>3. CASE ~ moves
    <3>1. r >= cur_start_row' /\ r < cur_start_row' + rows_in_mem =>
            mem_buffer'[r - cur_start_row'] = mem_buffer[r - cur_start_row']
      BY <1>1, <1>6, <2>3, AccessBuffer
    <3> QED
      BY <1>2, <1>3, <1>5, <1>6, <2>1, <2>3, <3>1 DEF Row
  <2> QED
    BY <1>3, <2>1, <2>2, <2>3, <1>6
<1>7. CASE r >= first_undef_row
  <2>1. Row(r) = Zero
    BY <1>7 DEF Row
  <2>2. ASSUME pre_zero, r < first_undef_row' PROVE Row(r)' = Zero
    <3>1. writable /\ first <= first_undef_row /\ r < end /\ r >= first
      BY <1>2, <1>3, <1>7, <2>2 DEF Maximum, Undefined
    <3>2. r < end /\ r >= first
      BY <3>1
    <3>3. r >= cur_start_row' /\ r < cur_start_row' + rows_in_mem
      <4>1. PICK start \in Int : start = cur_start_row'
        BY <1>1
      <4>2. end <= start + rows_in_mem /\ start <= first
        BY <1>1, <4>1
      <4>3. rows_in_mem \in Int
        BY <1>0 DEF TypeOK
      <4>4. r >= start /\ r < start + rows_in_mem
        BY <1>3, <3>2, <4>2, <4>3
      <4> QED
        BY <4>1, <4>4
    <3>4. mem_buffer'[r - cur_start_row'] = Zero
      BY <1>1, <1>7, <2>2, <3>2, <3>3, AccessBuffer
    <3> QED
      BY <1>3, <1>5, <2>2, <3>3, <3>4
  <2> QED
    BY <1>3, <1>5, <1>7, <2>1, <2>2
<1> QED
  BY <1>3, <1>4, <1>6, <1>7, <1>5

LEMMA RowType == TypeOK => \A r \in 0 .. Rows - 1 : Row(r) \in Values
<1> SUFFICES ASSUME TypeOK, NEW r \in 0 .. Rows - 1, r < first_undef_row PROVE Row(r) \in Values
  BY DEF Row, TypeOK
<1>1. r >= cur_start_row /\ r < cur_start_row + rows_in_mem =>
        r - cur_start_row \in 0 .. rows_in_mem - 1
  BY DEF TypeOK
<1> QED
  BY <1>1 DEF Row, TypeOK

\* An access that succeeds is legitimate and changes nothing that was written.
LEMMA AccessStep ==
  ASSUME Inv, NEW first \in 0 .. Rows, NEW num \in 1 .. Rows + MaxAccess, NEW writable \in BOOLEAN,
         Access(first, first + num, writable)
  PROVE  Array!Access(first, first + num, writable)
<1> DEFINE end == first + num
<1>0. TypeOK /\ TypeOK' /\ status = "open"
  BY AccessType DEF Inv, Access
<1>1. /\ end <= Rows /\ end - first <= MaxAccess /\ ~ Undefined(first, end, writable)
      /\ strip' = [first |-> first, end |-> end, writable |-> writable] /\ seen' = Zero
      /\ UNCHANGED <<pre_zero, status>>
      /\ first_undef_row' = IF writable THEN Maximum(first_undef_row, end) ELSE first_undef_row
  BY DEF Access, Fits
<1>2. first_undef_row \in Int /\ end \in Int /\ first \in Int /\ end > first /\ end - first = num
  BY <1>0 DEF TypeOK
<1>3. Array!Legitimate(first, end, writable)
  BY <1>1, <1>2 DEF Array!Legitimate, Undefined
<1>4. first_undef_row' = IF writable /\ first_undef_row < end THEN end ELSE first_undef_row
  BY <1>1, <1>2 DEF Maximum
<1>5. CASE pre_zero
  <2>1. \A r \in 0 .. Rows - 1 : Row(r)' = Row(r)
    BY <1>0, <1>5, AccessRow
  <2>2. [r \in 0 .. Rows - 1 |-> Row(r)]' = [r \in 0 .. Rows - 1 |-> Row(r)]
    BY <2>1
  <2> QED
    BY <1>0, <1>1, <1>3, <1>4, <1>5, <2>2 DEF Array!Access
<1>6. CASE ~ pre_zero
  <2>1. \A r \in 0 .. Rows - 1 :
          r < first_undef_row \/ r >= first_undef_row' => Row(r)' = Row(r)
    <3> SUFFICES ASSUME NEW r \in 0 .. Rows - 1, r >= first_undef_row', ~ (r < first_undef_row)
                 PROVE  Row(r)' = Row(r)
      BY <1>0, AccessRow
    <3>1. Row(r)' = Zero
      BY <1>0, AccessRow
    <3>2. Row(r) = Zero
      BY <1>2 DEF Row
    <3> QED
      BY <3>1, <3>2
  <2>2. \A r \in 0 .. Rows - 1 : Row(r)' \in Values
    <3>1. (TypeOK => \A r \in 0 .. Rows - 1 : Row(r) \in Values)'
      BY RowType, PTL
    <3> QED
      BY <1>0, <3>1
  <2>3. [r \in 0 .. Rows - 1 |-> Row(r)]' \in [0 .. Rows - 1 -> Values]
    BY <2>2
  <2>4. \A r \in 0 .. Rows - 1 :
          r < first_undef_row \/ r >= first_undef_row' =>
            [s \in 0 .. Rows - 1 |-> Row(s)]'[r] = [s \in 0 .. Rows - 1 |-> Row(s)][r]
    BY <2>1
  <2> QED
    BY <1>0, <1>1, <1>3, <1>4, <1>6, <2>3, <2>4 DEF Array!Access
<1> QED
  BY <1>5, <1>6

LEMMA LoadStep ==
  ASSUME Inv, NEW r \in 0 .. Rows - 1, Load(r)
  PROVE  Array!Load(r)
<1>0. TypeOK /\ StripOK /\ ZerosOK /\ strip # NoStrip
  BY DEF Inv, Load, NoStrip
<1>1. r >= cur_start_row /\ r < cur_start_row + rows_in_mem
  BY <1>0 DEF StripOK, Load, TypeOK
<1>2. r >= first_undef_row => mem_buffer[r - cur_start_row] = Zero
  BY <1>0 DEF StripOK, ZerosOK, Load, TypeOK
<1>3. mem_buffer[r - cur_start_row] = Row(r)
  BY <1>0, <1>1, <1>2 DEF Row, TypeOK
<1>4. [s \in 0 .. Rows - 1 |-> Row(s)]' = [s \in 0 .. Rows - 1 |-> Row(s)]
  BY DEF Row, Load
<1> QED
  BY <1>3, <1>4 DEF Array!Load, Load

LEMMA StoreStep ==
  ASSUME Inv, NEW r \in 0 .. Rows - 1, NEW v \in Values, Store(r, v)
  PROVE  Array!Store(r, v)
<1>0. TypeOK /\ StripOK /\ strip # NoStrip
  BY DEF Inv, Store, NoStrip
<1>1. r >= cur_start_row /\ r < cur_start_row + rows_in_mem /\ r < first_undef_row
  BY <1>0 DEF StripOK, Store, TypeOK
<1>2. ASSUME NEW s \in 0 .. Rows - 1 PROVE Row(s)' = IF s = r THEN v ELSE Row(s)
  <2>1. Row(s)' = IF s >= first_undef_row THEN Zero
                  ELSE IF s >= cur_start_row /\ s < cur_start_row + rows_in_mem
                  THEN [mem_buffer EXCEPT ![r - cur_start_row] = v][s - cur_start_row]
                  ELSE file[s]
    BY DEF Row, Store
  <2>2. CASE s = r
    BY <1>0, <1>1, <2>1, <2>2 DEF TypeOK
  <2>3. CASE s # r
    BY <1>0, <1>1, <2>1, <2>3 DEF Row, TypeOK
  <2> QED
    BY <2>2, <2>3
<1>3. [s \in 0 .. Rows - 1 |-> Row(s)]' = [[s \in 0 .. Rows - 1 |-> Row(s)] EXCEPT ![r] = v]
  BY <1>2
<1> QED
  BY <1>3 DEF Array!Store, Store

LEMMA RealizeStep ==
  ASSUME Inv, NEW rows \in 0 .. Rows, NEW with_file \in BOOLEAN, Realize(rows, with_file)
  PROVE  Array!Realize
<1>1. first_undef_row = 0 /\ first_undef_row' = 0
  BY DEF Inv, WindowOK, Realize
<1>2. [s \in 0 .. Rows - 1 |-> Row(s)]' = [s \in 0 .. Rows - 1 |-> Row(s)]
  BY <1>1 DEF Row
<1> QED
  BY <1>1, <1>2 DEF Array!Realize, Realize

LEMMA RefuseStep ==
  ASSUME Inv, NEW first \in 0 .. Rows, NEW num \in 1 .. Rows + MaxAccess, NEW writable \in BOOLEAN,
         Refuse(first, first + num, writable)
  PROVE  Array!Refuse(first, first + num, writable)
<1> DEFINE end == first + num
<1>1. status = "open" /\ status' = "refused"
  BY RefuseInv
<1>2. ~ Array!Legitimate(first, end, writable)
  <2>1. ~ Fits(first, end) \/ Undefined(first, end, writable)
    BY <1>1 DEF Refuse
  <2>2. TypeOK /\ first_undef_row \in Int /\ end - first = num
    BY DEF Inv, TypeOK
  <2> QED
    BY <2>1, <2>2 DEF Fits, Undefined, Array!Legitimate
<1>3. [s \in 0 .. Rows - 1 |-> Row(s)]' = [s \in 0 .. Rows - 1 |-> Row(s)]
  BY DEF Row, Refuse
<1> QED
  BY <1>1, <1>2, <1>3 DEF Array!Refuse, Refuse

LEMMA OtherSteps ==
  /\ Unrealized => Array!Closed
  /\ Break => Array!Break
  /\ Free => Array!Free
  /\ UNCHANGED vars => UNCHANGED <<pre_zero, Contents, first_undef_row, strip, seen, status>>
<1>1. Unrealized => Array!Closed
  BY DEF Unrealized, Array!Closed, Row, NoStrip, Array!NoStrip
<1>2. Break => Array!Break
  <2> SUFFICES ASSUME Break PROVE Array!Break
    OBVIOUS
  <2>1. [s \in 0 .. Rows - 1 |-> Row(s)]' = [s \in 0 .. Rows - 1 |-> Row(s)]
    BY DEF Row, Break
  <2> QED
    BY <2>1 DEF Break, Array!Break
<1>3. Free => Array!Free
  <2> SUFFICES ASSUME Free PROVE Array!Free
    OBVIOUS
  <2>1. [s \in 0 .. Rows - 1 |-> Row(s)]' = [s \in 0 .. Rows - 1 |-> Zero]
    BY DEF Row, Free
  <2> QED
    BY <2>1 DEF Free, Array!Free, NoStrip, Array!NoStrip
<1>4. UNCHANGED vars => UNCHANGED <<pre_zero, Contents, first_undef_row, strip, seen, status>>
  BY DEF vars, Contents, Row
<1> QED
  BY <1>1, <1>2, <1>3, <1>4

\* Every access finds the array there as a whole: none is refused that is
\* legitimate, none shows rows that are not what was written last, and the
\* window is never found astray, however the strips come.
THEOREM IsPlainArray == Spec => PlainArraySpec
<1>1. Unrealized => Array!Closed
  BY OtherSteps
<1>2. Inv /\ [Next]_vars =>
        [Array!Next]_<<pre_zero, Contents, first_undef_row, strip, seen, status>>
  <2> SUFFICES ASSUME Inv, [Next]_vars
               PROVE  \/ Array!Next
                      \/ UNCHANGED <<pre_zero, Contents, first_undef_row, strip, seen, status>>
    OBVIOUS
  <2>1. CASE \E rows \in 0 .. Rows, with_file \in BOOLEAN : Realize(rows, with_file)
    BY <2>1, RealizeStep DEF Array!Next
  <2>2. CASE Break \/ Free
    BY <2>2, OtherSteps DEF Array!Next
  <2>3. CASE \E first \in 0 .. Rows, num \in 1 .. Rows + MaxAccess, writable \in BOOLEAN :
               Access(first, first + num, writable)
    BY <2>3, AccessStep DEF Array!Next
  <2>4. CASE \E first \in 0 .. Rows, num \in 1 .. Rows + MaxAccess, writable \in BOOLEAN :
               Refuse(first, first + num, writable)
    BY <2>4, RefuseStep DEF Array!Next
  <2>5. CASE \E r \in 0 .. Rows - 1 : Load(r)
    BY <2>5, LoadStep DEF Array!Next
  <2>6. CASE \E r \in 0 .. Rows - 1 : \E v \in Values : Store(r, v)
    BY <2>6, StoreStep DEF Array!Next
  <2>7. CASE UNCHANGED vars
    BY <2>7, OtherSteps
  <2> QED
    BY <2>1, <2>2, <2>3, <2>4, <2>5, <2>6, <2>7 DEF Next, Use
<1> QED
  BY <1>1, <1>2, WindowInvariant, PTL DEF Spec, PlainArraySpec, Array!Spec, Contents
-----------------------------------------------------------------------------
(* The watched array. *)

LEMMA WatchedSteps ==
  ASSUME MemoryInv, [MemoryNext]_<<vars, memory>>
  PROVE  [Next]_vars
<1>1. CASE Create \/ UNCHANGED <<vars, memory>>
  BY <1>1 DEF Create
<1>2. CASE Abort \/ Destroy
  BY <1>2 DEF Abort, Destroy, Next
<1>3. CASE UseWatched
  BY <1>3 DEF UseWatched, Next
<1>4. CASE \E pool \in Pools :
             \/ \E size \in Sizes : AllocSmall(pool, size) \/ AllocLarge(pool, size)
             \/ \E strip_shape \in Strips : AllocRows(pool, strip_shape)
  BY <1>4 DEF AllocSmall, AllocLarge, AllocRows, Allocate, OnError, Next
<1>5. CASE \E shape \in Shapes, watch \in BOOLEAN : Request(shape, watch)
  BY <1>5 DEF Request, OnError, Next
<1>6. CASE \E may_open \in 0 .. MaxArrays : realize_virt_arrays(may_open)
  <2>1. PICK may_open \in 0 .. MaxArrays : realize_virt_arrays(may_open)
    BY <1>6
  <2>2. PICK list, done :
          /\ list = arrays' /\ list = done.arrays
          /\ \/ Break \/ UNCHANGED vars
             \/ \E i \in Unrealized_arrays : Realize(list[i].rows_in_mem, list[i].b_s_open)
    BY <2>1 DEF realize_virt_arrays
  <2>3. CASE Break \/ UNCHANGED vars
    BY <2>3 DEF Next
  <2>4. CASE \E i \in Unrealized_arrays : Realize(list[i].rows_in_mem, list[i].b_s_open)
    <3>0. PICK i \in Unrealized_arrays : Realize(list[i].rows_in_mem, list[i].b_s_open)
      BY <2>4
    <3>1. PICK rows, with_file :
            rows = list[i].rows_in_mem /\ with_file = list[i].b_s_open /\ Realize(rows, with_file)
      BY <3>0
    <3>2. list \in Seq(ControlType) /\ i \in 1 .. Len(list)
      <4>1. list \in Seq(ControlType) /\ Len(list) = Len(arrays) /\ Typed
        BY <2>1, <2>2, RealizeFacts DEF AccOK
      <4> QED
        BY <3>1, <4>1 DEF Unrealized_arrays, Typed
    <3>3. list[i] \in ControlType
      BY <3>2
    <3>4. rows \in Nat /\ with_file \in BOOLEAN
      BY <3>1, <3>3 DEF ControlType
    <3>5. rows \in 0 .. Rows
      BY <3>1, <3>4, RowsAssumption DEF Realize
    <3> QED
      BY <3>1, <3>4, <3>5 DEF Next
  <2> QED
    BY <2>2, <2>3, <2>4
<1> QED
  BY <1>1, <1>2, <1>3, <1>4, <1>5, <1>6 DEF MemoryNext

\* The watched array, that jmemmgr.c creates, gives its window and frees as one
\* of many, behaves as VirtualArray says of one.
THEOREM ManagesVirtualArray == MemorySpec => Spec
<1>1. MemoryInit => Unrealized
  BY DEF MemoryInit
<1>2. MemoryInv /\ [MemoryNext]_<<vars, memory>> => [Next]_vars
  BY WatchedSteps
<1> QED
  BY <1>1, <1>2, MemoryInvariance, PTL DEF MemorySpec, Spec

\* So to its users it is an array that is there as a whole, whatever heap, limit
\* and temporary files allow and whatever else is allocated and freed.
THEOREM WatchedIsPlainArray == MemorySpec => PlainArraySpec
BY ManagesVirtualArray, IsPlainArray, PTL
=============================================================================
